---------------------------- MODULE Ascending_proofs ---------------------------
(***************************************************************************)
(* What InOrder gives for every finite set of integers: the one strictly   *)
(* increasing sequence of its elements.                                    *)
(***************************************************************************)
EXTENDS Ascending, FiniteSetTheorems, TLAPS

\* `f` lists the elements of `S`, each once and in order.
Lists(f, S) ==
  /\ f \in [1..Cardinality(S) -> S]
  /\ \A i, j \in 1..Cardinality(S) : i < j => f[i] < f[j]
  /\ \A x \in S : \E i \in 1..Cardinality(S) : f[i] = x

\* A nonempty finite set of integers has a greatest element.
LEMMA GreatestExists ==
  ASSUME NEW S \in SUBSET Int, IsFiniteSet(S), S # {}
  PROVE  \E m \in S : \A x \in S : x <= m
<1> DEFINE Above(m) == {x \in S : m < x}
           families == {Above(m) : m \in S}
<1>1. IsWellFoundedOn(StrictSubsetOrdering(S), SUBSET S)
  BY FS_StrictSubsetOrderingWellFounded, FS_FiniteSubsetsOfFinite
<1>2. families \subseteq SUBSET S /\ families # {}
  OBVIOUS
<1>3. PICK U \in families : \A V \in families : <<V, U>> \notin StrictSubsetOrdering(S)
  <2> HIDE DEF families
  <2> QED BY <1>1, <1>2, WFMin
<1>4. PICK m \in S : U = Above(m)
  OBVIOUS
<1>5. ASSUME NEW x \in S, m < x
      PROVE  FALSE
  <2>1. x \in Above(m) /\ x \notin Above(x)
    BY <1>5
  <2>2. Above(x) \subseteq Above(m)
    <3> SUFFICES ASSUME NEW y \in S, x < y
                 PROVE  m < y
      OBVIOUS
    <3>1. m \in Int /\ x \in Int /\ y \in Int
      OBVIOUS
    <3> QED BY <1>5, <3>1
  <2>3. <<Above(x), U>> \in StrictSubsetOrdering(S)
    BY <1>4, <2>1, <2>2 DEF StrictSubsetOrdering
  <2> QED BY <1>3, <2>3
<1> QED BY <1>5

\* ... and a least one.
LEMMA LeastExists ==
  ASSUME NEW S \in SUBSET Int, IsFiniteSet(S), S # {}
  PROVE  \E m \in S : \A x \in S : m <= x
<1> DEFINE mirror == {-x : x \in S}
<1>1. IsFiniteSet(mirror)
  <2> DEFINE f == [x \in S |-> -x]
  <2>1. f \in Surjection(S, mirror)
    BY DEF Surjection
  <2> QED BY <2>1, FS_Surjection
<1>2. mirror \in SUBSET Int /\ mirror # {}
  <2>1. ASSUME NEW y \in mirror
        PROVE  y \in Int
    <3>1. PICK x \in S : y = -x
      OBVIOUS
    <3>2. x \in Int
      OBVIOUS
    <3> QED BY <3>1, <3>2
  <2> QED BY <2>1
<1>3. PICK y \in mirror : \A z \in mirror : z <= y
  BY <1>1, <1>2, GreatestExists
<1>4. PICK m \in S : y = -m
  OBVIOUS
<1>5. ASSUME NEW x \in S
      PROVE  m <= x
  <2>1. -x <= -m
    BY <1>3, <1>4
  <2> QED BY <2>1
<1> QED BY <1>5

\* Every finite set of integers can be listed in order.
LEMMA ListExists ==
  ASSUME NEW S \in SUBSET Int, IsFiniteSet(S)
  PROVE  \E f : Lists(f, S)
<1> DEFINE unlisted == {T \in SUBSET S : ~\E f : Lists(f, T)}
<1> SUFFICES ASSUME unlisted # {}
             PROVE  FALSE
  OBVIOUS
<1>1. PICK T \in unlisted : \A U \in unlisted : <<U, T>> \notin StrictSubsetOrdering(S)
  <2>1. IsWellFoundedOn(StrictSubsetOrdering(S), SUBSET S)
    BY FS_StrictSubsetOrderingWellFounded, FS_FiniteSubsetsOfFinite
  <2>2. unlisted \subseteq SUBSET S
    OBVIOUS
  <2> HIDE DEF unlisted
  <2> QED BY <2>1, <2>2, WFMin
<1>2. IsFiniteSet(T)
  BY FS_Subset
<1>3. CASE T = {}
  <2>1. Cardinality(T) = 0
    BY <1>3, FS_EmptySet
  <2>2. Lists([i \in 1..Cardinality(T) |-> 0], T)
    BY <1>3, <2>1 DEF Lists
  <2> QED BY <2>2
<1>4. CASE T # {}
  <2>1. PICK m \in T : \A x \in T : x <= m
    BY <1>2, <1>4, GreatestExists
  <2> DEFINE rest == T \ {m}
             n == Cardinality(rest)
  <2>2. n \in Nat /\ Cardinality(T) = n + 1
    <3>1. IsFiniteSet(rest) /\ n = Cardinality(T) - 1
      BY <1>2, <2>1, FS_RemoveElement
    <3>2. n \in Nat /\ Cardinality(T) \in Nat
      BY <1>2, <3>1, FS_CardinalityType
    <3> HIDE DEF n
    <3> QED BY <3>1, <3>2
  <2>3. PICK f : Lists(f, rest)
    <3>1. rest \in SUBSET S /\ rest # T
      OBVIOUS
    <3>2. <<rest, T>> \in StrictSubsetOrdering(S)
      BY <3>1 DEF StrictSubsetOrdering
    <3>3. rest \notin unlisted
      BY <1>1, <3>2
    <3> QED BY <3>1, <3>3
  <2> DEFINE g == [i \in 1..n + 1 |-> IF i = n + 1 THEN m ELSE f[i]]
  <2>4. /\ f \in [1..n -> rest]
        /\ \A i, j \in 1..n : i < j => f[i] < f[j]
        /\ \A x \in rest : \E i \in 1..n : f[i] = x
    BY <2>3 DEF Lists
  <2>5. g \in [1..n + 1 -> T]
    <3> HIDE DEF n
    <3> QED BY <2>2, <2>4
  <2>6. \A i, j \in 1..n + 1 : i < j => g[i] < g[j]
    <3> SUFFICES ASSUME NEW i \in 1..n + 1, NEW j \in 1..n + 1, i < j
                 PROVE  g[i] < g[j]
      OBVIOUS
    <3> HIDE DEF n
    <3>1. i \in 1..n /\ g[i] = f[i] /\ f[i] \in rest
      BY <2>2, <2>4
    <3>2. CASE j = n + 1
      <4>1. f[i] <= m /\ f[i] # m /\ f[i] \in Int /\ m \in Int
        BY <2>1, <3>1
      <4>2. g[j] = m
        BY <3>2
      <4> HIDE DEF g
      <4> QED BY <3>1, <4>1, <4>2
    <3>3. CASE j # n + 1
      BY <2>2, <2>4, <3>1, <3>3
    <3> QED BY <3>2, <3>3
  <2>7. \A x \in T : \E i \in 1..n + 1 : g[i] = x
    <3> SUFFICES ASSUME NEW x \in T
                 PROVE  \E i \in 1..n + 1 : g[i] = x
      OBVIOUS
    <3> HIDE DEF n
    <3>1. CASE x = m
      BY <2>2, <3>1
    <3>2. CASE x # m
      <4>1. PICK i \in 1..n : f[i] = x
        BY <2>4, <3>2
      <4>2. i \in 1..n + 1 /\ g[i] = x
        BY <2>2, <4>1
      <4> QED BY <4>2
    <3> QED BY <3>1, <3>2
  <2>8. Lists(g, T)
    <3> HIDE DEF n, g
    <3> QED BY <2>2, <2>5, <2>6, <2>7 DEF Lists
  <2> QED BY <2>8
<1> QED BY <1>3, <1>4
\* `f` is strictly increasing on its n places, and each of them occurs in `g`.
Rising(f, n) ==
  /\ f \in [1..n -> Int]
  /\ \A i, j \in 1..n : i < j => f[i] < f[j]
Within(f, m, g, n) == \A i \in 1..m : \E j \in 1..n : f[i] = g[j]

\* Where two lists agree so far, they agree at the next place.
LEMMA ListsStayTogether ==
  ASSUME NEW m \in Nat, NEW n \in Nat, NEW f, NEW g, Rising(f, m), Rising(g, n),
         Within(f, m, g, n), Within(g, n, f, m),
         NEW k \in 1..m, k \in 1..n,
         \A i \in 1..m : i < k => i \in 1..n /\ f[i] = g[i]
  PROVE  f[k] = g[k]
<1>1. PICK j \in 1..n : f[k] = g[j]
  BY DEF Within
<1>2. PICK i \in 1..m : g[k] = f[i]
  BY DEF Within
<1>3. f[k] \in Int /\ g[k] \in Int /\ f[i] \in Int /\ g[j] \in Int
  BY DEF Rising
<1>4. i \in Int /\ j \in Int /\ k \in Int
  OBVIOUS
<1>5. ~(j < k)
  <2> SUFFICES ASSUME j < k
               PROVE  FALSE
    OBVIOUS
  <2>1. j \in 1..m
    BY <1>4
  <2>2. f[j] = g[j]
    BY <2>1
  <2>3. f[j] < f[k]
    BY <2>1 DEF Rising
  <2> QED BY <1>1, <1>3, <2>2, <2>3
<1>6. ~(i < k)
  <2> SUFFICES ASSUME i < k
               PROVE  FALSE
    OBVIOUS
  <2>1. i \in 1..n /\ f[i] = g[i]
    OBVIOUS
  <2>2. g[i] < g[k]
    BY <2>1 DEF Rising
  <2> QED BY <1>2, <1>3, <2>1, <2>2
<1>7. g[k] <= g[j]
  <2>1. CASE j = k
    BY <1>3, <2>1
  <2>2. CASE j # k
    <3>1. k < j
      BY <1>4, <1>5, <2>2
    <3>2. g[k] < g[j]
      BY <3>1 DEF Rising
    <3> QED BY <1>3, <3>2
  <2> QED BY <2>1, <2>2
<1>8. f[k] <= f[i]
  <2>1. CASE i = k
    BY <1>3, <2>1
  <2>2. CASE i # k
    <3>1. k < i
      BY <1>4, <1>6, <2>2
    <3>2. f[k] < f[i]
      BY <3>1 DEF Rising
    <3> QED BY <1>3, <3>2
  <2> QED BY <2>1, <2>2
<1> QED BY <1>1, <1>2, <1>3, <1>7, <1>8

\* The elements of one list are at the same places of the other.
LEMMA ListsAgree ==
  ASSUME NEW m \in Nat, NEW n \in Nat, NEW f, NEW g, Rising(f, m), Rising(g, n),
         Within(f, m, g, n), Within(g, n, f, m)
  PROVE  \A k \in 1..m : k \in 1..n /\ f[k] = g[k]
<1> DEFINE agree(k) == k \in 1..n /\ f[k] = g[k]
           apart == {k \in 1..m : ~agree(k)}
<1> SUFFICES ASSUME apart # {}
             PROVE  FALSE
  BY Zenon
<1>1. PICK k \in apart : \A i \in apart : k <= i
  <2>1. IsFiniteSet(apart)
    <3>1. IsFiniteSet(1..m)
      BY FS_Interval
    <3>2. apart \in SUBSET (1..m)
      OBVIOUS
    <3> HIDE DEF apart
    <3> QED BY <3>1, <3>2, FS_Subset
  <2>2. apart \in SUBSET Int
    OBVIOUS
  <2> HIDE DEF apart
  <2> QED BY <2>1, <2>2, LeastExists
<1>2. k \in 1..m /\ ~agree(k)
  BY <1>1
<1>3. ASSUME NEW i \in 1..m, i < k
      PROVE  agree(i)
  <2>1. i \notin apart
    <3>1. i \in Int /\ k \in Int
      BY <1>2
    <3> HIDE DEF apart
    <3> QED BY <1>1, <1>3, <3>1
  <2> QED BY <2>1
<1>4. k \in 1..n
  <2> SUFFICES ASSUME n < k
               PROVE  FALSE
    BY <1>2
  <2>1. PICK j \in 1..n : f[k] = g[j]
    BY <1>2 DEF Within
  <2>2. j \in 1..m /\ j < k
    BY <1>2
  <2>3. f[j] = g[j]
    BY <1>3, <2>2
  <2>4. f[j] < f[k] /\ f[k] \in Int
    BY <1>2, <2>2 DEF Rising
  <2> QED BY <2>1, <2>3, <2>4
<1>5. f[k] = g[k]
  <2>1. \A i \in 1..m : i < k => i \in 1..n /\ f[i] = g[i]
    BY <1>3
  <2> QED BY <1>2, <1>4, <2>1, ListsStayTogether
<1> QED BY <1>2, <1>4, <1>5

\* Of two lists of the same elements each is the other.
LEMMA ListIsUnique ==
  ASSUME NEW m \in Nat, NEW n \in Nat, NEW f, NEW g, Rising(f, m), Rising(g, n),
         Within(f, m, g, n), Within(g, n, f, m)
  PROVE  m = n /\ f = g
<1>1. \A k \in 1..m : k \in 1..n /\ f[k] = g[k]
  BY ListsAgree
<1>2. \A k \in 1..n : k \in 1..m
  BY ListsAgree
<1>3. m = n
  <2>1. m <= n
    <3>1. CASE m = 0
      BY <3>1
    <3>2. CASE m # 0
      BY <1>1, <3>2
    <3> QED BY <3>1, <3>2
  <2>2. n <= m
    <3>1. CASE n = 0
      BY <3>1
    <3>2. CASE n # 0
      BY <1>2, <3>2
    <3> QED BY <3>1, <3>2
  <2> QED BY <2>1, <2>2
<1>4. f \in [1..n -> Int] /\ g \in [1..n -> Int] /\ \A k \in 1..n : f[k] = g[k]
  BY <1>1, <1>3 DEF Rising
<1> QED BY <1>3, <1>4

\* A sequence of as many different elements as a set has covers the set.
LEMMA InjectionCovers ==
  ASSUME NEW S, IsFiniteSet(S), NEW s \in [1..Cardinality(S) -> S], IsInjective(s)
  PROVE  \A x \in S : \E i \in 1..Cardinality(S) : s[i] = x
<1> DEFINE places == 1..Cardinality(S)
<1>1. s \in Injection(places, S)
  BY DEF Injection
<1>2. Cardinality(S) \in Nat
  BY FS_CardinalityType
<1>3. Cardinality(places) = Cardinality(S)
  BY <1>2, FS_Interval
<1>4. s \in Surjection(places, S)
  <2> HIDE DEF places
  <2> QED BY <1>1, <1>3, FS_Injection
<1> QED BY <1>4 DEF Surjection

\* InOrder of a finite set of integers is a list of it.
LEMMA InOrderLists ==
  ASSUME NEW S \in SUBSET Int, IsFiniteSet(S)
  PROVE  Lists(InOrder(S), S)
<1> DEFINE n == Cardinality(S)
           Increases(f) == \A i, j \in DOMAIN f : i < j => f[i] < f[j]
<1>1. n \in Nat
  BY FS_CardinalityType
<1>2. \E f \in SetToSeqs(S) : Increases(f)
  <2>1. PICK f : Lists(f, S)
    BY ListExists
  <2>2. f \in [1..n -> S] /\ \A i, j \in 1..n : i < j => f[i] < f[j]
    BY <2>1 DEF Lists
  <2> HIDE DEF n
  <2>3. ASSUME NEW i \in 1..n, NEW j \in 1..n, i # j
        PROVE  f[i] # f[j]
    <3>1. f[i] \in Int /\ f[j] \in Int
      BY <2>2
    <3>2. CASE i < j
      BY <2>2, <3>1, <3>2
    <3>3. CASE j < i
      BY <2>2, <3>1, <3>3
    <3> QED BY <1>1, <2>3, <3>2, <3>3
  <2>4. f \in SetToSeqs(S)
    BY <2>2, <2>3 DEF SetToSeqs, n
  <2>5. Increases(f)
    BY <2>2
  <2> QED BY <2>4, <2>5
<1> DEFINE f == InOrder(S)
<1>3. f \in SetToSeqs(S) /\ Increases(f)
  BY <1>2 DEF InOrder
<1> HIDE DEF f
<1>4. f \in [1..n -> S] /\ \A i, j \in 1..n : i # j => f[i] # f[j]
  BY <1>3 DEF SetToSeqs
<1>5. IsInjective(f)
  <2> HIDE DEF n
  <2> QED BY <1>4 DEF IsInjective
<1>6. \A x \in S : \E i \in 1..n : f[i] = x
  BY <1>4, <1>5, InjectionCovers
<1>7. \A i, j \in 1..n : i < j => f[i] < f[j]
  BY <1>3, <1>4
<1>8. Lists(f, S)
  BY <1>4, <1>6, <1>7 DEF Lists
<1> QED BY <1>8 DEF f

\* Whatever lists a set in order is what InOrder gives.
LEMMA InOrderIsUnique ==
  ASSUME NEW S \in SUBSET Int, IsFiniteSet(S), NEW f, Lists(f, S)
  PROVE  f = InOrder(S)
<1> DEFINE n == Cardinality(S)
           g == InOrder(S)
<1>1. n \in Nat
  BY FS_CardinalityType
<1>2. Lists(g, S)
  BY InOrderLists
<1> HIDE DEF g
<1>3. Rising(f, n) /\ Rising(g, n)
  BY <1>2 DEF Lists, Rising
<1>4. \A i \in 1..n : f[i] \in S /\ g[i] \in S
  BY <1>2 DEF Lists
<1>5. Within(f, n, g, n) /\ Within(g, n, f, n)
  BY <1>2, <1>4 DEF Lists, Within
<1>6. f = g
  <2> HIDE DEF n
  <2> QED BY <1>1, <1>3, <1>5, ListIsUnique
<1> QED BY <1>6 DEF g
================================================================================
