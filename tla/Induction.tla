----------------------------- MODULE Induction -----------------------------
(***************************************************************************)
(* Induction as a fact about sets.  Whatever does not hold of every number,*)
(* or of every finite set, has a least counterexample: this is the form in *)
(* which the proofs of the other modules use induction, since it has no    *)
(* operator for a parameter.  After that, what the lists of SortedLists    *)
(* hold, and in which order.                                               *)
(***************************************************************************)
EXTENDS Integers, SortedLists, NaturalsInduction, WellFoundedInduction, FiniteSetTheorems, TLAPS

\* Every set of numbers has a least one.
LEMMA LeastNumber ==
    ASSUME NEW T \in SUBSET Nat, T # {}
    PROVE  \E m \in T : \A n \in T : m <= n
<1> DEFINE R == OpToRel(<, Nat)
<1>1. \A x, y \in Nat : y < x => <<y, x>> \in R
  BY DEF OpToRel
<1>2. \E x \in T : \A y \in T : ~ (<<y, x>> \in R)
  <2>1. IsWellFoundedOn(R, Nat)
    BY NatLessThanWellFounded
  <2> HIDE DEF R
  <2> QED
    BY WFMin, <2>1
<1> HIDE DEF R
<1>3. PICK m \in T : \A n \in T : ~ (<<n, m>> \in R)
  BY <1>2
<1>4. ASSUME NEW n \in T
      PROVE  m <= n
  <2>1. n \in Nat /\ m \in Nat /\ ~ (n < m)
    BY <1>1, <1>3
  <2> QED
    BY <2>1
<1> QED
  BY <1>4

\* Every set of finite sets has a smallest one.
LEMMA SmallestSet ==
    ASSUME NEW T, T # {}, \A x \in T : IsFiniteSet(x)
    PROVE  \E x \in T : \A y \in T : Cardinality(x) <= Cardinality(y)
<1> DEFINE N == {Cardinality(x) : x \in T}
<1>1. N \in SUBSET Nat /\ N # {}
  BY FS_CardinalityType
<1>2. PICK m \in N : \A n \in N : m <= n
  <2> HIDE DEF N
  <2> QED
    BY <1>1, LeastNumber
<1> QED
  BY <1>2

\* A fold over a list takes off the last position first.
LEMMA MaxTop ==
    ASSUME NEW n \in Nat, NEW x \in SUBSET (1 .. n + 1), n + 1 \in x
    PROVE  Max(x) = n + 1
<1>1. \A y \in x : n + 1 >= y
  OBVIOUS
<1>2. \A m \in x : (\A y \in x : m >= y) => m = n + 1
  OBVIOUS
<1> QED
  BY <1>1, <1>2 DEF Max

\* The list of a finite set has all its elements.
LEMMA ListOfSet ==
    ASSUME NEW S, IsFiniteSet(S)
    PROVE  LET q == SetToSeq(S)
               n == Cardinality(S)
           IN  /\ n \in Nat /\ DOMAIN q = 1 .. n
               /\ \A i \in 1 .. n : q[i] \in S
               /\ \A x \in S : \E i \in 1 .. n : q[i] = x
<1> DEFINE n == Cardinality(S)
           q == SetToSeq(S)
<1>1. n \in Nat /\ ExistsBijection(1 .. n, S)
  BY FS_CardinalityType
<1>2. \E f \in [1 .. n -> S] : IsInjective(f)
  BY <1>1 DEF ExistsBijection, Bijection, Injection, IsInjective
<1>3. q \in [1 .. n -> S] /\ IsInjective(q)
  BY <1>2 DEF SetToSeq
<1> HIDE DEF n, q
<1>4. ASSUME NEW x \in S, \A i \in 1 .. n : q[i] # x
      PROVE  FALSE
  <2>1. /\ IsFiniteSet(1 .. n) /\ Cardinality(1 .. n) = n
    BY <1>1, FS_Interval
  <2>2. IsFiniteSet(S \ {x}) /\ Cardinality(S \ {x}) = n - 1
    BY FS_RemoveElement DEF n
  <2>3. q \in [1 .. n -> S \ {x}]
    BY <1>3, <1>4
  <2>4. n > n - 1
    BY <1>1
  <2>5. \E i, j \in 1 .. n : i # j /\ q[i] = q[j]
    BY <2>1, <2>2, <2>3, <2>4, FS_PigeonHole
  <2> QED
    BY <1>3, <2>5 DEF IsInjective
<1>5. DOMAIN q = 1 .. n /\ \A i \in 1 .. n : q[i] \in S
  BY <1>3
<1> QED
  BY <1>1, <1>4, <1>5 DEF n, q

-----------------------------------------------------------------------------
(* Sorting *)

\* R relates any two elements of S, and does so transitively.
Ranks(R, S) ==
    /\ \A x, y \in S : <<x, y>> \in R \/ <<y, x>> \in R
    /\ \A x, y, z \in S : <<x, y>> \in R /\ <<y, z>> \in R => <<x, z>> \in R

\* Some element comes last.
LEMMA LastOfRanked ==
    ASSUME NEW S, IsFiniteSet(S), S # {}, NEW R, Ranks(R, S)
    PROVE  \E m \in S : \A x \in S : <<x, m>> \in R
<1> DEFINE T == {x \in SUBSET S : x # {} /\ ~ \E m \in x : \A y \in x : <<y, m>> \in R}
<1>1. SUFFICES ASSUME T # {}
               PROVE  FALSE
  BY <1>1
<1>2. \A x \in SUBSET S : IsFiniteSet(x) /\ Cardinality(x) \in Nat
  BY FS_Subset, FS_CardinalityType
<1>3. PICK x \in T : \A y \in T : Cardinality(x) <= Cardinality(y)
  <2>1. \A x \in T : IsFiniteSet(x)
    BY <1>2
  <2> HIDE DEF T
  <2> QED
    BY <1>1, <2>1, SmallestSet
<1>4. /\ x \in SUBSET S /\ x # {}
      /\ ~ \E m \in x : \A y \in x : <<y, m>> \in R
  OBVIOUS
<1>5. PICK a \in x : TRUE
  BY <1>4
<1> DEFINE r == x \ {a}
<1>6. r \in SUBSET S /\ Cardinality(r) = Cardinality(x) - 1
  BY <1>2, <1>4, FS_RemoveElement
<1>7. r \notin T
  <2>1. Cardinality(r) \in Nat /\ Cardinality(x) \in Nat
    BY <1>2, <1>4, <1>6
  <2> HIDE DEF T, r
  <2> QED
    BY <1>3, <1>6, <2>1
<1>8. CASE r = {}
  <2>1. x = {a} /\ <<a, a>> \in R
    BY <1>4, <1>8 DEF Ranks
  <2> QED
    BY <1>4, <2>1
<1>9. CASE r # {}
  <2>1. PICK m \in r : \A y \in r : <<y, m>> \in R
    BY <1>6, <1>7, <1>9
  <2>2. CASE <<a, m>> \in R
    BY <1>4, <2>1, <2>2
  <2>3. CASE <<m, a>> \in R
    <3>1. \A y \in x : <<y, a>> \in R
      BY <1>4, <1>5, <2>1, <2>3 DEF Ranks
    <3> QED
      BY <1>4, <1>5, <3>1
  <2> QED
    BY <1>4, <1>5, <2>1, <2>2, <2>3 DEF Ranks
<1> QED
  BY <1>8, <1>9

\* A finite set has a list in the order of R.
LEMMA RankedList ==
    ASSUME NEW S, IsFiniteSet(S), NEW R, Ranks(R, S)
    PROVE  \E s \in SetToSeqs(S) : \A i, j \in DOMAIN s : i < j => <<s[i], s[j]>> \in R
<1> DEFINE Listed(x) == \E s \in SetToSeqs(x) : \A i, j \in DOMAIN s : i < j => <<s[i], s[j]>> \in R
           T == {x \in SUBSET S : ~ Listed(x)}
<1>1. SUFFICES ASSUME T # {}
               PROVE  FALSE
  BY <1>1
<1>2. \A x \in SUBSET S : IsFiniteSet(x) /\ Cardinality(x) \in Nat
  BY FS_Subset, FS_CardinalityType
<1>3. PICK x \in T : \A y \in T : Cardinality(x) <= Cardinality(y)
  <2>1. \A x \in T : IsFiniteSet(x)
    BY <1>2
  <2> HIDE DEF T
  <2> QED
    BY <1>1, <2>1, SmallestSet
<1>4. x \in SUBSET S /\ ~ Listed(x)
  OBVIOUS
<1>5. CASE x = {}
  <2>1. Cardinality(x) = 0
    BY <1>5, FS_EmptySet
  <2>2. <<>> \in SetToSeqs(x) /\ DOMAIN <<>> = {}
    BY <1>5, <2>1 DEF SetToSeqs
  <2> QED
    BY <1>4, <2>2
<1>6. CASE x # {}
  <2>1. PICK m \in x : \A y \in x : <<y, m>> \in R
    BY <1>2, <1>4, <1>6, LastOfRanked DEF Ranks
  <2> DEFINE r == x \ {m}
             n == Cardinality(r)
  <2>2. r \in SUBSET S /\ n \in Nat /\ Cardinality(x) = n + 1
    BY <1>2, <1>4, FS_RemoveElement
  <2>3. r \notin T
    <3> HIDE DEF T, r
    <3> QED
      BY <1>3, <2>2
  <2>4. Listed(r)
    BY <2>2, <2>3
  <2> HIDE DEF n
  <2>5. PICK s \in SetToSeqs(r) : \A i, j \in DOMAIN s : i < j => <<s[i], s[j]>> \in R
    BY <2>4
  <2>6. s \in [1 .. n -> r] /\ \A i, j \in 1 .. n : i # j => s[i] # s[j]
    BY DEF SetToSeqs, n
  <2> DEFINE t == [i \in 1 .. n + 1 |-> IF i = n + 1 THEN m ELSE s[i]]
  <2>7. \A i \in 1 .. n + 1 : i # n + 1 => i \in 1 .. n
    BY <2>2
  <2>8. t \in [1 .. n + 1 -> x]
    BY <2>6, <2>7
  <2>9. \A i, j \in 1 .. n + 1 : i # j => t[i] # t[j]
    BY <2>6, <2>7
  <2>10. t \in SetToSeqs(x)
    BY <2>2, <2>8, <2>9 DEF SetToSeqs
  <2>11. ASSUME NEW i \in DOMAIN t, NEW j \in DOMAIN t, i < j
         PROVE  <<t[i], t[j]>> \in R
    <3>1. i \in 1 .. n /\ t[i] = s[i]
      BY <2>2, <2>7, <2>11
    <3>2. CASE j = n + 1
      BY <2>1, <2>6, <3>1, <3>2
    <3>3. CASE j # n + 1
      BY <2>5, <2>6, <2>7, <2>11, <3>1, <3>3
    <3> QED
      BY <3>2, <3>3
  <2> QED
    BY <1>4, <2>10, <2>11
<1> QED
  BY <1>5, <1>6

\* A list of a finite set has each of its elements once.
LEMMA ListsOfSet ==
    ASSUME NEW S, IsFiniteSet(S), NEW s \in SetToSeqs(S)
    PROVE  /\ s \in Seq(S) /\ Len(s) = Cardinality(S) /\ DOMAIN s = 1 .. Len(s)
           /\ \A i, j \in DOMAIN s : s[i] = s[j] => i = j
           /\ \A x \in S : \E i \in DOMAIN s : s[i] = x
<1> DEFINE n == Cardinality(S)
<1>1. n \in Nat
  BY FS_CardinalityType
<1>2. s \in [1 .. n -> S] /\ \A i, j \in 1 .. n : i # j => s[i] # s[j]
  BY DEF SetToSeqs
<1> HIDE DEF n
<1>3. s \in Seq(S) /\ Len(s) = n /\ DOMAIN s = 1 .. Len(s)
  BY <1>1, <1>2
<1>4. ASSUME NEW x \in S, \A i \in 1 .. n : s[i] # x
      PROVE  FALSE
  <2>1. /\ IsFiniteSet(1 .. n) /\ Cardinality(1 .. n) = n
    BY <1>1, FS_Interval
  <2>2. IsFiniteSet(S \ {x}) /\ Cardinality(S \ {x}) = n - 1
    BY FS_RemoveElement DEF n
  <2>3. s \in [1 .. n -> S \ {x}]
    BY <1>2, <1>4
  <2>4. n > n - 1
    BY <1>1
  <2>5. \E i, j \in 1 .. n : i # j /\ s[i] = s[j]
    BY <2>1, <2>2, <2>3, <2>4, FS_PigeonHole
  <2> QED
    BY <1>2, <2>5
<1> QED
  BY <1>2, <1>3, <1>4 DEF n

\* A stable sort by key has each place once, and the keys in order.
LEMMA StableOrderGives ==
    ASSUME NEW n \in Nat, NEW key \in [1 .. n -> Nat], NEW o, o = StableOrder(key)
    PROVE  /\ DOMAIN o = 1 .. n /\ \A p \in 1 .. n : o[p] \in 1 .. n
           /\ \A i \in 1 .. n : \E p \in 1 .. n : o[p] = i
           /\ \A p, q \in 1 .. n : p < q => key[o[p]] <= key[o[q]]
<1> DEFINE D == 1 .. n
           Before(i, j) == key[i] < key[j] \/ (key[i] = key[j] /\ i < j)
           After(i, j) == key[i] < key[j] \/ (key[i] = key[j] /\ i <= j)
           R == {p \in D \X D : After(p[1], p[2])}
           Sorted(s) == \A i, j \in DOMAIN s : i < j => ~ Before(s[j], s[i])
<1>1. IsFiniteSet(D) /\ Cardinality(D) = n /\ \A x \in D : x \in Nat /\ key[x] \in Nat
  <2>1. IsFiniteSet(1 .. n) /\ Cardinality(1 .. n) = n
    BY FS_Interval
  <2>2. \A x \in D : x \in Nat /\ key[x] \in Nat
    OBVIOUS
  <2> QED
    BY <2>1, <2>2
<1>2. \A i, j : <<i, j>> \in R <=> i \in D /\ j \in D /\ After(i, j)
  OBVIOUS
<1> HIDE DEF R
<1>3. Ranks(R, D)
  <2> HIDE DEF D
  <2>1. \A x, y \in D : After(x, y) \/ After(y, x)
    BY <1>1
  <2>2. \A x, y, z \in D : After(x, y) /\ After(y, z) => After(x, z)
    BY <1>1
  <2> HIDE DEF After
  <2> QED
    BY <1>2, <2>1, <2>2 DEF Ranks
<1>4. PICK s \in SetToSeqs(D) : \A i, j \in DOMAIN s : i < j => <<s[i], s[j]>> \in R
  BY <1>1, <1>3, RankedList
<1>5. ASSUME NEW a \in D, NEW b \in D, After(a, b)
      PROVE  ~ Before(b, a)
  <2>1. a \in Nat /\ b \in Nat /\ key[a] \in Nat /\ key[b] \in Nat
    OBVIOUS
  <2> QED
    BY <1>5, <2>1
<1>6. \A i, j \in DOMAIN s : i < j => s[i] \in D /\ s[j] \in D /\ After(s[i], s[j])
  BY <1>2, <1>4
<1>7. Sorted(s)
  <2> HIDE DEF After, Before
  <2> QED
    BY <1>5, <1>6
<1>8. o = CHOOSE x \in SetToSeqs(D) : Sorted(x)
  <2>1. DOMAIN key = D
    OBVIOUS
  <2>2. o = CHOOSE x \in SetToSeqs(DOMAIN key) : Sorted(x)
    BY DEF StableOrder, InOrder
  <2> HIDE DEF Sorted, D
  <2> QED
    BY <2>1, <2>2
<1>9. o \in SetToSeqs(D) /\ Sorted(o)
  <2> HIDE DEF Sorted, D
  <2> QED
    BY <1>4, <1>7, <1>8
<1>10. /\ o \in Seq(D) /\ Len(o) = n /\ DOMAIN o = D
       /\ \A x \in D : \E i \in DOMAIN o : o[i] = x
  <2> HIDE DEF D, Sorted
  <2>1. /\ o \in Seq(D) /\ Len(o) = Cardinality(D) /\ DOMAIN o = 1 .. Len(o)
        /\ \A x \in D : \E i \in DOMAIN o : o[i] = x
    BY <1>1, <1>9, ListsOfSet
  <2>2. DOMAIN o = D
    BY <1>1, <2>1 DEF D
  <2> QED
    BY <1>1, <2>1, <2>2
<1>11. \A p \in D : o[p] \in D
  <2>1. o \in [1 .. n -> D]
    <3> HIDE DEF D, Sorted
    <3> QED
      BY <1>1, <1>9 DEF SetToSeqs
  <2> QED
    BY <2>1
<1>12. ASSUME NEW p \in D, NEW q \in D, p < q
       PROVE  key[o[p]] <= key[o[q]]
  <2>1. ~ Before(o[q], o[p])
    BY <1>9, <1>10, <1>12
  <2>2. key[o[p]] \in Nat /\ key[o[q]] \in Nat
    BY <1>11
  <2> QED
    BY <2>1, <2>2
<1> QED
  BY <1>10, <1>11, <1>12

-----------------------------------------------------------------------------
(* Filtering *)

\* t is what is kept of the first n elements of s, which at tells the places of.
KeptAt(s, S, n, t, at) ==
    /\ at \in [1 .. Len(t) -> 1 .. n]
    /\ t \in Seq({s[i] : i \in DOMAIN s})
    /\ \A i \in 1 .. Len(t) : t[i] = s[at[i]] /\ s[at[i]] \in S
    /\ \A i, j \in 1 .. Len(t) : i < j => at[i] < at[j]
    /\ \A k \in 1 .. n : s[k] \in S => \E i \in 1 .. Len(t) : at[i] = k
IsKeep(s, S, n, t) == \E at : KeptAt(s, S, n, t, at)

\* One more element.
LEMMA KeptStep ==
    ASSUME NEW s, NEW S, NEW n \in Nat, n + 1 \in DOMAIN s, NEW t, IsKeep(s, S, n, t)
    PROVE  IsKeep(s, S, n + 1, IF s[n + 1] \in S THEN Append(t, s[n + 1]) ELSE t)
<1> DEFINE V == {s[i] : i \in DOMAIN s}
           m == Len(t)
<1>1. PICK at : KeptAt(s, S, n, t, at)
  BY DEF IsKeep
<1>2. t \in Seq(V) /\ m \in Nat /\ s[n + 1] \in V
  BY <1>1 DEF KeptAt
<1>3. \A k \in 1 .. n + 1 : k \in 1 .. n \/ k = n + 1
  OBVIOUS
<1>4. 1 .. n \in SUBSET (1 .. n + 1)
  OBVIOUS
<1> HIDE DEF V
<1>5. CASE s[n + 1] \notin S
  <2>1. KeptAt(s, S, n + 1, t, at)
    BY <1>1, <1>3, <1>4, <1>5 DEF KeptAt
  <2> QED
    BY <1>5, <2>1 DEF IsKeep
<1>6. CASE s[n + 1] \in S
  <2> DEFINE u == Append(t, s[n + 1])
             to == [i \in 1 .. m + 1 |-> IF i = m + 1 THEN n + 1 ELSE at[i]]
  <2>1. /\ u \in Seq(V) /\ Len(u) = m + 1 /\ u[m + 1] = s[n + 1]
        /\ \A i \in 1 .. m : u[i] = t[i]
    BY <1>2
  <2>2. \A i \in 1 .. m + 1 : i = m + 1 \/ i \in 1 .. m
    BY <1>2
  <2>3. /\ to[m + 1] = n + 1 /\ m + 1 \in 1 .. m + 1
        /\ \A i \in 1 .. m : to[i] = at[i] /\ i \in 1 .. m + 1 /\ at[i] \in 1 .. n
    BY <1>1, <1>2 DEF KeptAt
  <2>4. to = [i \in 1 .. m + 1 |-> to[i]]
    OBVIOUS
  <2> HIDE DEF u, to
  <2>5. \A i \in 1 .. m + 1 : to[i] \in 1 .. n + 1
    BY <1>4, <2>2, <2>3
  <2>6. to \in [1 .. m + 1 -> 1 .. n + 1]
    BY <2>4, <2>5
  <2>7. \A i \in 1 .. m + 1 : u[i] = s[to[i]] /\ s[to[i]] \in S
    BY <1>1, <1>6, <2>1, <2>2, <2>3 DEF KeptAt
  <2>8. ASSUME NEW i \in 1 .. m + 1, NEW j \in 1 .. m + 1, i < j
        PROVE  to[i] < to[j]
    <3>1. i \in 1 .. m
      BY <1>2, <2>8
    <3>2. CASE j = m + 1
      BY <2>3, <3>1, <3>2
    <3>3. CASE j \in 1 .. m
      BY <1>1, <2>3, <2>8, <3>1, <3>3 DEF KeptAt
    <3> QED
      BY <2>2, <3>2, <3>3
  <2>9. ASSUME NEW k \in 1 .. n + 1, s[k] \in S
        PROVE  \E i \in 1 .. m + 1 : to[i] = k
    <3>1. CASE k = n + 1
      BY <2>3, <3>1
    <3>2. CASE k \in 1 .. n
      BY <1>1, <2>3, <2>9, <3>2 DEF KeptAt
    <3> QED
      BY <1>3, <3>1, <3>2
  <2>10. KeptAt(s, S, n + 1, u, to)
    BY <2>1, <2>6, <2>7, <2>8, <2>9 DEF KeptAt, V
  <2> QED
    BY <1>6, <2>10 DEF IsKeep, u
<1> QED
  BY <1>5, <1>6

\* f is the recursive function by which Keep is defined, on the subsets of D.
Keeps(f, s, S, D) ==
    f = [x \in SUBSET D |-> IF x = {} THEN <<>>
                            ELSE IF s[Max(x)] \in S THEN Append(f[x \ {Max(x)}], s[Max(x)])
                                 ELSE f[x \ {Max(x)}]]
KeptBy(s, S) == (CHOOSE f : Keeps(f, s, S, DOMAIN s))[DOMAIN s]

\* Keep is that function at the whole list.
LEMMA KeepIsKeptBy ==
    ASSUME NEW s, NEW S
    PROVE  Keep(s, S) = KeptBy(s, S)
BY DEF Keep, FoldLeft, MapThenFoldSet, KeptBy, Keeps

\* The recursion defines a function, for lists of every length.
LEMMA KeepsExists ==
    ASSUME NEW s, NEW S, NEW n \in Nat
    PROVE  \E f : Keeps(f, s, S, 1 .. n)
<1> DEFINE T == {m \in Nat : ~ \E f : Keeps(f, s, S, 1 .. m)}
           Put(t, i) == IF s[i] \in S THEN Append(t, s[i]) ELSE t
<1> SUFFICES ASSUME T # {}
             PROVE  FALSE
  OBVIOUS
<1>1. PICK m \in T : \A k \in T : m <= k
  BY LeastNumber
<1>2. ~ \E f : Keeps(f, s, S, 1 .. m)
  OBVIOUS
<1>3. CASE m = 0
  <2> DEFINE f == [x \in SUBSET (1 .. m) |-> <<>>]
  <2>1. \A x \in SUBSET (1 .. m) : x = {}
    BY <1>3
  <2>2. Keeps(f, s, S, 1 .. m)
    BY <2>1 DEF Keeps
  <2> QED
    BY <1>2, <2>2
<1>4. CASE m # 0
  <2>1. m - 1 \in Nat /\ m - 1 \notin T
    BY <1>1, <1>4
  <2>2. PICK g : Keeps(g, s, S, 1 .. m - 1)
    BY <2>1
  <2> DEFINE f == [x \in SUBSET (1 .. m) |-> IF m \in x THEN Put(g[x \ {m}], m) ELSE g[x]]
  <2>3. ASSUME NEW x \in SUBSET (1 .. m)
        PROVE  f[x] = IF x = {} THEN <<>> ELSE Put(f[x \ {Max(x)}], Max(x))
    <3>1. x \ {m} \in SUBSET (1 .. m - 1) /\ x \ {m} \in SUBSET (1 .. m) /\ m \notin x \ {m}
      OBVIOUS
    <3>2. CASE m \in x
      <4>1. Max(x) = m
        BY <2>1, <3>2, MaxTop, m = (m - 1) + 1
      <4>2. f[x \ {m}] = g[x \ {m}]
        BY <3>1
      <4> HIDE DEF f
      <4>3. f[x] = Put(g[x \ {m}], m)
        BY <3>2 DEF f
      <4> QED
        BY <3>2, <4>1, <4>2, <4>3
    <3>3. CASE m \notin x
      <4>1. x \in SUBSET (1 .. m - 1) /\ x \ {Max(x)} \in SUBSET (1 .. m - 1)
        BY <3>1, <3>3
      <4>2. g[x] = IF x = {} THEN <<>> ELSE Put(g[x \ {Max(x)}], Max(x))
        BY <2>2, <4>1 DEF Keeps
      <4>3. f[x] = g[x] /\ f[x \ {Max(x)}] = g[x \ {Max(x)}]
        BY <3>3
      <4> QED
        BY <4>2, <4>3
    <3> QED
      BY <3>2, <3>3
  <2>4. f = [x \in SUBSET (1 .. m) |-> f[x]]
    OBVIOUS
  <2> HIDE DEF f
  <2>5. Keeps(f, s, S, 1 .. m)
    BY <2>3, <2>4 DEF Keeps
  <2> QED
    BY <1>2, <2>5
<1> QED
  BY <1>3, <1>4

\* What Keep keeps.
LEMMA KeepKeeps ==
    ASSUME NEW s, NEW n \in Nat, DOMAIN s = 1 .. n, NEW S
    PROVE  IsKeep(s, S, n, Keep(s, S))
<1> DEFINE f == CHOOSE g : Keeps(g, s, S, DOMAIN s)
           T == {m \in Nat : m <= n /\ ~ IsKeep(s, S, m, f[1 .. m])}
<1>1. Keeps(f, s, S, 1 .. n)
  BY KeepsExists
<1>2. Keep(s, S) = f[1 .. n]
  BY KeepIsKeptBy DEF KeptBy
<1> HIDE DEF f
<1>3. SUFFICES ASSUME T # {}
               PROVE  FALSE
  <2>1. n \notin T
    BY <1>3
  <2> QED
    BY <1>2, <2>1
<1>4. PICK m \in T : \A k \in T : m <= k
  <2>1. T \in SUBSET Nat
    OBVIOUS
  <2> HIDE DEF T
  <2> QED
    BY <1>3, <2>1, LeastNumber
<1>5. 1 .. m \in SUBSET (1 .. n)
  OBVIOUS
<1> DEFINE top == Max(1 .. m)
<1>6. f[1 .. m] = IF 1 .. m = {} THEN <<>>
                  ELSE IF s[top] \in S THEN Append(f[(1 .. m) \ {top}], s[top])
                       ELSE f[(1 .. m) \ {top}]
  BY <1>1, <1>5 DEF Keeps
<1>7. CASE m = 0
  <2>1. f[1 .. m] = <<>> /\ 1 .. m = {}
    BY <1>6, <1>7
  <2>2. KeptAt(s, S, m, <<>>, [i \in {} |-> 0])
    BY <1>7, <2>1 DEF KeptAt
  <2> QED
    BY <2>1, <2>2 DEF IsKeep
<1>8. CASE m # 0
  <2>1. m - 1 \in Nat /\ m - 1 \notin T /\ m - 1 <= n /\ (m - 1) + 1 = m /\ m \in 1 .. n
    BY <1>4, <1>8
  <2>2. top = m
    <3>1. 1 .. m \in SUBSET (1 .. (m - 1) + 1) /\ m \in 1 .. m
      BY <1>8
    <3> QED
      BY <2>1, <3>1, MaxTop
  <2>3. 1 .. m # {} /\ (1 .. m) \ {m} = 1 .. m - 1
    <3>1. m \in Nat /\ 1 <= m
      BY <1>8
    <3> QED
      BY <3>1
  <2>4. IsKeep(s, S, m - 1, f[1 .. m - 1])
    BY <2>1
  <2> HIDE DEF top
  <2>5. f[1 .. m] = IF s[m] \in S THEN Append(f[1 .. m - 1], s[m]) ELSE f[1 .. m - 1]
    BY <1>6, <2>2, <2>3
  <2>6. IsKeep(s, S, (m - 1) + 1,
             IF s[(m - 1) + 1] \in S THEN Append(f[1 .. m - 1], s[(m - 1) + 1]) ELSE f[1 .. m - 1])
    BY <2>1, <2>4, KeptStep
  <2> QED
    BY <2>1, <2>5, <2>6
<1> QED
  BY <1>7, <1>8

=============================================================================
