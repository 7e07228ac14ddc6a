-------------------------- MODULE ReconcileProofs --------------------------
(***************************************************************************)
(* What reconcile_pairs promises for any creates and any answer of the     *)
(* lookup: a case goes to one create, a create gets one case, both have    *)
(* the same title, and an ambiguous title is left alone; and of any other  *)
(* title every case found goes to a create.                                *)
(***************************************************************************)
EXTENDS Reconcile, FiniteSetTheorems, TLAPS

\* How many come before an element is a number.
LEMMA RankType ==
  ASSUME NEW S, IsFiniteSet(S), NEW x
  PROVE  RankIn(S, x) \in Nat
<1>1. {y \in S : y < x} \subseteq S
  OBVIOUS
<1>2. IsFiniteSet({y \in S : y < x})
  BY <1>1, FS_Subset
<1> QED BY <1>2, FS_CardinalityType DEF RankIn

\* Of two elements the lower has fewer before it.
LEMMA RankMonotone ==
  ASSUME NEW S, S \subseteq Nat, IsFiniteSet(S), NEW a \in S, NEW b \in S, a < b
  PROVE  RankIn(S, a) < RankIn(S, b)
<1> DEFINE A == {z \in S : z < a}
           B == {z \in S : z < b}
<1>1. IsFiniteSet(B)
  <2>1. B \subseteq S
    OBVIOUS
  <2> QED BY <2>1, FS_Subset
<1>2. A \subseteq B
  <2>1. ASSUME NEW z \in S, z < a
        PROVE  z < b
    <3>1. z \in Nat /\ a \in Nat /\ b \in Nat
      OBVIOUS
    <3> QED BY <3>1, <2>1
  <2> QED BY <2>1
<1>3. a \in B /\ a \notin A
  <2>1. ~(a < a)
    <3>1. a \in Nat
      OBVIOUS
    <3> QED BY <3>1
  <2> QED BY <2>1
<1>4. /\ Cardinality(A) # Cardinality(B) /\ Cardinality(A) <= Cardinality(B)
      /\ Cardinality(A) \in Nat /\ Cardinality(B) \in Nat
  <2> HIDE DEF A, B
  <2> QED BY <1>1, <1>2, <1>3, FS_Subset, FS_CardinalityType
<1>5. Cardinality(A) < Cardinality(B)
  <2> HIDE DEF A, B
  <2> QED BY <1>4
<1> QED BY <1>5 DEF RankIn

\* No two elements of a finite set have as many elements before them.
LEMMA RankInjective ==
  ASSUME NEW S, S \subseteq Nat, IsFiniteSet(S), NEW x \in S, NEW y \in S,
         RankIn(S, x) = RankIn(S, y)
  PROVE  x = y
<1>1. ASSUME NEW a \in S, NEW b \in S, a < b
      PROVE  RankIn(S, a) # RankIn(S, b)
  <2>1. RankIn(S, a) < RankIn(S, b) /\ RankIn(S, a) \in Nat
    BY <1>1, RankMonotone, RankType
  <2> QED BY <2>1
<1>2. x \in Nat /\ y \in Nat
  OBVIOUS
<1>3. CASE x < y
  BY <1>1, <1>3
<1>4. CASE y < x
  BY <1>1, <1>4
<1> QED BY <1>2, <1>3, <1>4

\* An element has fewer before it than the set has elements.
LEMMA RankBound ==
  ASSUME NEW S, S \subseteq Nat, IsFiniteSet(S), NEW r \in S
  PROVE  RankIn(S, r) < Cardinality(S)
<1> DEFINE A == {y \in S : y < r}
<1>1. r \notin A
  <2>1. r \in Nat
    OBVIOUS
  <2> QED BY <2>1
<1>2. A \subseteq S /\ A # S
  BY <1>1
<1>3. Cardinality(A) < Cardinality(S)
  <2> HIDE DEF A
  <2>1. IsFiniteSet(A) /\ Cardinality(A) <= Cardinality(S) /\ Cardinality(A) # Cardinality(S)
    BY <1>2, FS_Subset
  <2>2. Cardinality(A) \in Nat /\ Cardinality(S) \in Nat
    BY <2>1, FS_CardinalityType
  <2> QED BY <2>1, <2>2
<1> QED BY <1>3 DEF RankIn

\* Somebody is first: with no element of rank 0, the ranks of n elements
\* would be among 1..n-1.
LEMMA FirstRank ==
  ASSUME NEW S, S \subseteq Nat, IsFiniteSet(S), S # {}
  PROVE  \E r \in S : RankIn(S, r) = 0
<1> SUFFICES ASSUME \A r \in S : RankIn(S, r) # 0
             PROVE  FALSE
  OBVIOUS
<1> DEFINE n == Cardinality(S)
           rank == [r \in S |-> RankIn(S, r)]
<1>1. n \in Nat /\ n # 0
  BY FS_CardinalityType, FS_EmptySet
<1>2. ASSUME NEW r \in S
      PROVE  RankIn(S, r) \in 1..(n - 1)
  <2>1. RankIn(S, r) \in Nat /\ RankIn(S, r) # 0 /\ RankIn(S, r) < n
    BY RankType, RankBound
  <2> HIDE DEF n
  <2> QED BY <1>1, <2>1
<1>3. IsFiniteSet(1..(n - 1)) /\ Cardinality(1..(n - 1)) < n
  <2> HIDE DEF n
  <2>1. 1 \in Int /\ n - 1 \in Int
    BY <1>1
  <2>2. IsFiniteSet(1..(n - 1)) /\ Cardinality(1..(n - 1)) = IF 1 > n - 1 THEN 0 ELSE (n - 1) - 1 + 1
    BY <2>1, FS_Interval
  <2> QED BY <1>1, <2>2
<1>4. rank \in [S -> 1..(n - 1)]
  <2> HIDE DEF n
  <2> QED BY <1>2
<1>5. \E x, y \in S : x # y /\ rank[x] = rank[y]
  <2> HIDE DEF rank
  <2> QED BY <1>3, <1>4, FS_PigeonHole
<1> QED BY <1>5, RankInjective

\* A list of all elements of S, lowest first.
Ascends(s, S) ==
  /\ s \in [1..Cardinality(S) -> S]
  /\ \A i, j \in 1..Cardinality(S) : i < j => s[i] < s[j]

\* Every finite set of numbers can be listed so: no two elements have the same
\* rank, so every rank below the number of elements is somebody's.
LEMMA SortedExists ==
  ASSUME NEW S, S \subseteq Nat, IsFiniteSet(S)
  PROVE  \E s : Ascends(s, S)
<1> DEFINE n == Cardinality(S)
           rank == [x \in S |-> RankIn(S, x)]
           s == [k \in 1..n |-> CHOOSE x \in S : RankIn(S, x) = k - 1]
<1>1. n \in Nat
  BY FS_CardinalityType
<1>2. \A x \in S : RankIn(S, x) \in 0..(n - 1)
  <2>1. ASSUME NEW x \in S PROVE RankIn(S, x) \in Nat /\ RankIn(S, x) < n
    BY RankType, RankBound
  <2> HIDE DEF n
  <2> QED BY <1>1, <2>1
<1>3. rank \in Injection(S, 0..(n - 1))
  <2>1. rank \in [S -> 0..(n - 1)]
    <3> HIDE DEF n
    <3> QED BY <1>2
  <2>2. \A x, y \in S : rank[x] = rank[y] => x = y
    BY RankInjective
  <2> HIDE DEF rank, n
  <2> QED BY <2>1, <2>2 DEF Injection, IsInjective
<1>4. IsFiniteSet(0..(n - 1)) /\ Cardinality(0..(n - 1)) = n
  <2> HIDE DEF n
  <2>1. 0 \in Int /\ n - 1 \in Int
    BY <1>1
  <2>2. /\ IsFiniteSet(0..(n - 1))
        /\ Cardinality(0..(n - 1)) = IF 0 > n - 1 THEN 0 ELSE (n - 1) - 0 + 1
    BY <2>1, FS_Interval
  <2> QED BY <1>1, <2>2
<1>5. rank \in Surjection(S, 0..(n - 1))
  <2> HIDE DEF rank
  <2> QED BY <1>3, <1>4, FS_Injection
<1>6. ASSUME NEW k \in 1..n PROVE s[k] \in S /\ RankIn(S, s[k]) = k - 1
  <2>1. k - 1 \in 0..(n - 1)
    <3> HIDE DEF n
    <3> QED BY <1>1
  <2>2. \E x \in S : rank[x] = k - 1
    <3> HIDE DEF rank, n
    <3> QED BY <1>5, <2>1 DEF Surjection
  <2>3. \E x \in S : RankIn(S, x) = k - 1
    BY <2>2
  <2>4. s[k] = CHOOSE x \in S : RankIn(S, x) = k - 1
    OBVIOUS
  <2> HIDE DEF s
  <2> QED BY <2>3, <2>4
<1>7. s \in [1..n -> S]
  <2> HIDE DEF n
  <2> QED BY <1>6
<1>8. ASSUME NEW i \in 1..n, NEW j \in 1..n, i < j PROVE s[i] < s[j]
  <2> HIDE DEF s, n
  <2>1. /\ s[i] \in S /\ s[j] \in S /\ s[i] \in Nat /\ s[j] \in Nat
        /\ RankIn(S, s[i]) = i - 1 /\ RankIn(S, s[j]) = j - 1
    BY <1>6
  <2>2. s[i] # s[j]
    BY <1>1, <1>8, <2>1
  <2>3. ~(s[j] < s[i])
    <3>1. SUFFICES ASSUME s[j] < s[i] PROVE FALSE
      OBVIOUS
    <3>2. RankIn(S, s[j]) < RankIn(S, s[i])
      BY <2>1, <3>1, RankMonotone
    <3> QED BY <1>1, <1>8, <2>1, <3>2
  <2> QED BY <2>1, <2>2, <2>3
<1> HIDE DEF s
<1> QED BY <1>7, <1>8 DEF Ascends

\* The k-th of such a list has k - 1 elements before it: they are the k - 1
\* listed before it, as the list misses none.
LEMMA SortedRank ==
  ASSUME NEW S, S \subseteq Nat, IsFiniteSet(S), NEW s, Ascends(s, S),
         NEW k \in 1..Cardinality(S)
  PROVE  RankIn(S, s[k]) = k - 1
<1> DEFINE n == Cardinality(S)
           A == {y \in S : y < s[k]}
           f == [i \in 1..(k - 1) |-> s[i]]
<1>1. n \in Nat /\ k \in 1..n /\ s \in [1..n -> S]
  BY FS_CardinalityType DEF Ascends
<1>2. \A i, j \in 1..n : i < j => s[i] < s[j]
  BY DEF Ascends
<1> HIDE DEF n
<1>3. IsFiniteSet(1..n) /\ Cardinality(1..n) = n
  <2>1. 1 \in Int /\ n \in Int
    BY <1>1
  <2>2. IsFiniteSet(1..n) /\ Cardinality(1..n) = IF 1 > n THEN 0 ELSE n - 1 + 1
    BY <2>1, FS_Interval
  <2> QED BY <1>1, <2>2
<1>4. \A i, j \in 1..n : s[i] = s[j] => i = j
  <2>1. SUFFICES ASSUME NEW i \in 1..n, NEW j \in 1..n, s[i] = s[j], i < j PROVE FALSE
    BY <1>1
  <2>2. s[i] < s[j] /\ s[i] \in Nat
    BY <1>1, <1>2, <2>1
  <2> QED BY <2>1, <2>2
<1>5. s \in Surjection(1..n, S)
  <2>1. s \in Injection(1..n, S)
    BY <1>1, <1>4 DEF Injection, IsInjective
  <2>2. Cardinality(1..n) = Cardinality(S)
    BY <1>3 DEF n
  <2> QED BY <2>1, <2>2, FS_Injection
<1>6. \A y \in S : \E i \in 1..n : s[i] = y
  BY <1>5 DEF Surjection
<1>7. f \in [1..(k - 1) -> A]
  <2>1. ASSUME NEW i \in 1..(k - 1) PROVE s[i] \in S /\ s[i] < s[k]
    BY <1>1, <1>2
  <2> QED BY <2>1
<1>8. \A i, j \in 1..(k - 1) : f[i] = f[j] => i = j
  BY <1>1, <1>4
<1>9. \A y \in A : \E i \in 1..(k - 1) : f[i] = y
  <2>1. SUFFICES ASSUME NEW y \in S, y < s[k] PROVE \E i \in 1..(k - 1) : s[i] = y
    OBVIOUS
  <2>2. PICK i \in 1..n : s[i] = y
    BY <1>6
  <2>3. s[i] \in Nat /\ s[k] \in Nat
    BY <1>1
  <2>4. i # k /\ ~(k < i)
    BY <1>1, <1>2, <2>1, <2>2, <2>3
  <2>5. i \in 1..(k - 1)
    BY <1>1, <2>4
  <2> QED BY <2>2, <2>5
<1>10. f \in Bijection(1..(k - 1), A)
  <2> HIDE DEF f, A
  <2> QED BY <1>7, <1>8, <1>9 DEF Bijection, Injection, IsInjective, Surjection
<1>11. IsFiniteSet(1..(k - 1)) /\ Cardinality(1..(k - 1)) = k - 1
  <2>1. 1 \in Int /\ k - 1 \in Int
    BY <1>1
  <2>2. /\ IsFiniteSet(1..(k - 1))
        /\ Cardinality(1..(k - 1)) = IF 1 > k - 1 THEN 0 ELSE (k - 1) - 1 + 1
    BY <2>1, FS_Interval
  <2> QED BY <1>1, <2>2
<1>12. Cardinality(A) = k - 1
  <2> HIDE DEF f, A
  <2> QED BY <1>10, <1>11, FS_Bijection DEF ExistsBijection
<1> QED BY <1>12 DEF RankIn

\* A title with a found case is ambiguous when its cases outnumber its creates.
LEMMA AmbiguousIsMore ==
  ASSUME NEW creates, NEW found, NEW t, IsFiniteSet(Pool(found, t)),
         IsFiniteSet(DOMAIN creates)
  PROVE  t \in Ambiguous(creates, found)
           <=> Cardinality(Pool(found, t)) > Cardinality(Claimants(creates, t))
<1> DEFINE p == Cardinality(Pool(found, t))
           c == Cardinality(Claimants(creates, t))
<1>1. p \in Nat /\ c \in Nat
  <2>1. Claimants(creates, t) \subseteq DOMAIN creates
    BY DEF Claimants
  <2> QED BY <2>1, FS_CardinalityType, FS_Subset
<1>2. p > c => t \in {f.title : f \in found}
  <2>1. SUFFICES ASSUME p > c PROVE t \in {f.title : f \in found}
    OBVIOUS
  <2>2. p # 0
    <3> HIDE DEF p, c
    <3> QED BY <1>1, <2>1
  <2>3. Pool(found, t) # {}
    BY <2>2, FS_EmptySet
  <2> QED BY <2>3 DEF Pool
<1> QED BY <1>2 DEF Ambiguous

\* The one pair of a create: it gets the found case as far up the list of its
\* title's cases as it is up the list of its title's creates.
LEMMA PairOfCreate ==
  ASSUME NEW creates, NEW found, NEW i \in DOMAIN creates, IsFiniteSet(DOMAIN creates),
         IsFiniteSet(Pool(found, creates[i])), Pool(found, creates[i]) \subseteq Nat,
         NEW s, Ascends(s, Pool(found, creates[i])), NEW x
  PROVE  LET t == creates[i]
             r == RankIn(Claimants(creates, t), i)
         IN  <<i, x>> \in Pairs(creates, found)
               <=> /\ t \notin Ambiguous(creates, found)
                   /\ r < Cardinality(Pool(found, t)) /\ x = s[r + 1]
<1> DEFINE t == creates[i]
           r == RankIn(Claimants(creates, t), i)
           P == Pool(found, t)
           n == Cardinality(P)
<1>1. r \in Nat /\ n \in Nat
  <2>1. Claimants(creates, t) \subseteq DOMAIN creates
    BY DEF Claimants
  <2> QED BY <2>1, FS_CardinalityType, FS_Subset, RankType
<1>2. <<i, x>> \in Pairs(creates, found)
        <=> t \notin Ambiguous(creates, found) /\ x \in P /\ RankIn(P, x) = r
  BY DEF Pairs, Pool
<1>3. ASSUME r < n PROVE s[r + 1] \in P /\ RankIn(P, s[r + 1]) = r
  <2>1. s \in [1..n -> P] /\ Ascends(s, P)
    BY DEF Ascends
  <2>2. r + 1 \in 1..n /\ (r + 1) - 1 = r
    <3> HIDE DEF r, n
    <3> QED BY <1>1, <1>3
  <2>3. RankIn(P, s[r + 1]) = (r + 1) - 1
    <3> HIDE DEF r, P
    <3> QED BY <2>1, <2>2, SortedRank DEF P
  <2> HIDE DEF r, P
  <2> QED BY <2>1, <2>2, <2>3
<1>4. ASSUME x \in P, RankIn(P, x) = r PROVE r < n /\ x = s[r + 1]
  <2>1. r < n
    <3> HIDE DEF r
    <3> QED BY <1>4, RankBound
  <2>2. x = s[r + 1]
    <3> HIDE DEF r
    <3> QED BY <1>3, <1>4, <2>1, RankInjective
  <2> QED BY <2>1, <2>2
<1> HIDE DEF P
<1> QED BY <1>2, <1>3, <1>4 DEF P

\* "A title ... is only paired": a pair joins a create and a found case of
\* one title, and never one of an ambiguous title.
THEOREM PairsAgree ==
  ASSUME NEW creates, NEW found, NEW i, NEW id, <<i, id>> \in Pairs(creates, found)
  PROVE  /\ i \in DOMAIN creates
         /\ creates[i] \notin Ambiguous(creates, found)
         /\ \E f \in found : f.id = id /\ f.title = creates[i]
  BY DEF Pairs, Pool

\* One found case goes to one create.
THEOREM PairsInjective ==
  ASSUME NEW creates, NEW found, DOMAIN creates \subseteq Nat, IsFiniteSet(DOMAIN creates),
         \A f, g \in found : f.id = g.id => f.title = g.title,
         NEW i, NEW j, NEW id,
         <<i, id>> \in Pairs(creates, found), <<j, id>> \in Pairs(creates, found)
  PROVE  i = j
<1>1. i \in DOMAIN creates /\ j \in DOMAIN creates
  BY DEF Pairs
<1>2. creates[i] = creates[j]
  BY PairsAgree
<1> DEFINE mates == Claimants(creates, creates[i])
<1>3. i \in mates /\ j \in mates /\ mates \subseteq Nat
  BY <1>1, <1>2 DEF Claimants
<1>4. IsFiniteSet(mates)
  <2>1. mates \subseteq DOMAIN creates
    BY DEF Claimants
  <2> QED BY <2>1, FS_Subset
<1>5. RankIn(mates, i) = RankIn(mates, j)
  BY <1>2 DEF Pairs
<1> HIDE DEF mates
<1> QED BY <1>3, <1>4, <1>5, RankInjective

\* One create gets one found case.
THEOREM PairsFunctional ==
  ASSUME NEW creates, NEW found,
         \A f \in found : f.id \in Nat,
         NEW i, IsFiniteSet(Pool(found, creates[i])), NEW x, NEW y,
         <<i, x>> \in Pairs(creates, found), <<i, y>> \in Pairs(creates, found)
  PROVE  x = y
<1> DEFINE pool == Pool(found, creates[i])
<1>1. x \in pool /\ y \in pool /\ RankIn(pool, x) = RankIn(pool, y)
  BY DEF Pairs
<1>2. pool \subseteq Nat
  BY DEF Pool
<1>3. IsFiniteSet(pool)
  OBVIOUS
<1> HIDE DEF pool
<1> QED BY <1>1, <1>2, <1>3, RankInjective

\* Every rank below the number of elements is somebody's.
LEMMA RankSurjective ==
  ASSUME NEW S, S \subseteq Nat, IsFiniteSet(S), NEW k \in Nat, k < Cardinality(S)
  PROVE  \E x \in S : RankIn(S, x) = k
<1>1. PICK s : Ascends(s, S)
  BY SortedExists
<1>2. Cardinality(S) \in Nat
  BY FS_CardinalityType
<1>3. k + 1 \in 1..Cardinality(S) /\ (k + 1) - 1 = k
  BY <1>2
<1>4. RankIn(S, s[k + 1]) = (k + 1) - 1
  BY <1>1, <1>3, SortedRank
<1>5. s[k + 1] \in S
  BY <1>1, <1>3 DEF Ascends
<1> QED BY <1>3, <1>4, <1>5

\* Every case found under a title that is not ambiguous goes to a create.
THEOREM PoolPaired ==
  ASSUME NEW creates, NEW found, DOMAIN creates \subseteq Nat, IsFiniteSet(DOMAIN creates),
         NEW t, t \notin Ambiguous(creates, found),
         Pool(found, t) \subseteq Nat, IsFiniteSet(Pool(found, t)), NEW id \in Pool(found, t)
  PROVE  \E i \in Claimants(creates, t) : <<i, id>> \in Pairs(creates, found)
<1> DEFINE P == Pool(found, t)
           C == Claimants(creates, t)
<1>1. C \subseteq DOMAIN creates
  BY DEF Claimants
<1>2. C \subseteq Nat /\ IsFiniteSet(C)
  BY <1>1, FS_Subset
<1>3. Cardinality(P) <= Cardinality(C)
  <2>1. ~(Cardinality(P) > Cardinality(C))
    BY <1>2, AmbiguousIsMore
  <2>2. Cardinality(P) \in Nat /\ Cardinality(C) \in Nat
    BY <1>2, FS_CardinalityType
  <2> HIDE DEF P, C
  <2> QED BY <2>1, <2>2
<1>4. RankIn(P, id) \in Nat /\ RankIn(P, id) < Cardinality(C)
  <2>1. RankIn(P, id) \in Nat /\ RankIn(P, id) < Cardinality(P)
    BY RankType, RankBound
  <2>2. Cardinality(P) \in Nat /\ Cardinality(C) \in Nat
    BY <1>2, FS_CardinalityType
  <2> HIDE DEF P, C
  <2> QED BY <1>3, <2>1, <2>2
<1>5. PICK i \in C : RankIn(C, i) = RankIn(P, id)
  <2> HIDE DEF P, C
  <2> QED BY <1>2, <1>4, RankSurjective
<1>6. i \in DOMAIN creates /\ creates[i] = t
  BY <1>5 DEF Claimants
<1>7. id \in {f.id : f \in found}
  BY DEF Pool
<1>8. <<i, id>> \in Pairs(creates, found)
  BY <1>5, <1>6, <1>7 DEF Pairs
<1> QED BY <1>5, <1>8
=============================================================================
