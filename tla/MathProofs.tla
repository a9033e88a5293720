----------------------------- MODULE MathProofs -----------------------------
(***************************************************************************)
(* Lemmas that the proofs share: induction over natural numbers, powers of *)
(* two, and sums over finite sets.  An induction is by a smallest counter- *)
(* example, since the library's induction theorems have the predicate for  *)
(* a parameter; here it is a set.                                          *)
(***************************************************************************)
EXTENDS Naturals, FiniteSetsExt, FiniteSetTheorems, WellFoundedInduction, TLAPS

-----------------------------------------------------------------------------
\* Natural numbers.

LEMMA SmallestNumber ==
  ASSUME NEW S \in SUBSET Nat, S # {}
  PROVE  \E x \in S : \A y \in S : x <= y
  <1>1. PICK x \in S : \A y \in S : ~(<<y, x>> \in OpToRel(<, Nat))
    <2>1. S \subseteq Nat
      OBVIOUS
    <2>2. QED
      BY ONLY <2>1, S # {}, WFMin, NatLessThanWellFounded
  <1>2. ASSUME NEW y \in S  PROVE x <= y
    <2>1. ~(<<y, x>> \in OpToRel(<, Nat))
      BY <1>1
    <2>2. x \in Nat /\ y \in Nat
      BY <1>1
    <2>3. ~(y < x)
      BY <2>1, <2>2 DEF OpToRel
    <2>4. QED
      BY ONLY <2>2, <2>3, SMT
  <1>3. QED
    BY <1>1, <1>2

\* Induction up to N: a set that contains 0 and goes on contains every number.
LEMMA Induction ==
  ASSUME NEW N \in Nat, NEW S, 0 \in S, \A n \in 0 .. N - 1 : n \in S => n + 1 \in S
  PROVE  \A n \in 0 .. N : n \in S
  <1> DEFINE C == {n \in 0 .. N : n \notin S}
  <1>1. ASSUME C # {}  PROVE FALSE
    <2>1. C \in SUBSET Nat
      OBVIOUS
    <2>2. PICK x \in C : \A y \in C : x <= y
      <3> HIDE DEF C
      <3>1. QED
        BY <1>1, <2>1, SmallestNumber
    <2>3. x \in 0 .. N /\ x \notin S /\ x # 0
      BY <2>2
    <2>4. x - 1 \in 0 .. N - 1 /\ x - 1 + 1 = x /\ ~(x <= x - 1)
      BY <2>3
    <2>5. x - 1 \in S
      BY <2>2, <2>4
    <2>6. QED
      BY <2>3, <2>4, <2>5
  <1>2. QED
    BY <1>1

\* Powers of two, which the library knows as the sizes of powersets.
LEMMA PowerOfTwo ==
  ASSUME NEW n \in Nat
  PROVE  2^n \in Nat \ {0} /\ 2^(n + 1) = 2 * 2^n
  <1> DEFINE S == SUBSET (1 .. n)
             T == SUBSET (1 .. n + 1)
             U == {s \cup {n + 1} : s \in S}
             f == [s \in S |-> s \cup {n + 1}]
  <1>1. ASSUME NEW k \in Nat
        PROVE  IsFiniteSet(SUBSET (1 .. k)) /\ Cardinality(SUBSET (1 .. k)) = 2^k /\ 2^k \in Nat
    <2>1. IsFiniteSet(1 .. k) /\ Cardinality(1 .. k) = k
      BY FS_Interval
    <2>2. IsFiniteSet(SUBSET (1 .. k)) /\ Cardinality(SUBSET (1 .. k)) = 2^k
      BY <2>1, FS_SUBSET
    <2>3. QED
      BY <2>2, FS_CardinalityType
  <1>2. IsFiniteSet(S) /\ Cardinality(S) = 2^n /\ 2^n \in Nat
    BY <1>1
  <1>3. IsFiniteSet(T) /\ Cardinality(T) = 2^(n + 1) /\ 2^(n + 1) \in Nat
    <2>1. n + 1 \in Nat
      OBVIOUS
    <2>2. QED
      BY <1>1, <2>1
  <1>4. f \in Bijection(S, U)
    <2>1. f \in [S -> U] /\ \A t \in U : \E s \in S : f[s] = t
      OBVIOUS
    <2>2. ASSUME NEW s \in S, NEW t \in S, f[s] = f[t]  PROVE s = t
      <3>1. n + 1 \notin s /\ n + 1 \notin t
        OBVIOUS
      <3>2. s \cup {n + 1} = t \cup {n + 1}
        BY <2>2
      <3>3. QED
        BY ONLY <3>1, <3>2
    <2>3. QED
      BY <2>1, <2>2 DEF Bijection, Injection, Surjection, IsInjective
  <1>5. IsFiniteSet(U) /\ Cardinality(U) = 2^n
    BY <1>2, <1>4, FS_Bijection DEF ExistsBijection
  <1>6. T = S \cup U
    <2>1. ASSUME NEW t \in T  PROVE t \in S \cup U
      <3>1. CASE n + 1 \in t
        <4>1. t \ {n + 1} \in S /\ t = (t \ {n + 1}) \cup {n + 1}
          BY <3>1
        <4>2. QED
          BY <4>1
      <3>2. CASE n + 1 \notin t
        BY <3>2
      <3>3. QED
        BY <3>1, <3>2
    <2>2. ASSUME NEW t \in S \cup U  PROVE t \in T
      OBVIOUS
    <2>3. QED
      BY <2>1, <2>2
  <1>7. S \cap U = {}
    <2>1. \A s \in S : n + 1 \notin s
      OBVIOUS
    <2>2. \A s \in U : n + 1 \in s
      OBVIOUS
    <2>3. QED
      BY <2>1, <2>2
  <1>8. 1 .. n \in S
    OBVIOUS
  <1> HIDE DEF S, T, U
  <1>9. Cardinality(S) # 0
    BY <1>2, <1>8, FS_EmptySet
  <1>10. Cardinality(S \cup U) = Cardinality(S) + Cardinality(U) - Cardinality({})
    BY <1>2, <1>5, <1>7, FS_Union
  <1>11. QED
    BY <1>2, <1>3, <1>5, <1>6, <1>9, <1>10, FS_EmptySet

-----------------------------------------------------------------------------
(***************************************************************************)
(* Indices: Sh(i, d) is the node of level d on the path of leaf i.         *)
(***************************************************************************)
Sh(i, d) == i \div 2^d

LEMMA ShiftStep ==
  ASSUME NEW i \in Nat
  PROVE  /\ Sh(i, 0) = i
         /\ \A d \in Nat : /\ Sh(i, d) \in Nat /\ Sh(i, d + 1) = Sh(i, d) \div 2
                           /\ Sh(i, d) % 2 \in {0, 1}
  <1>1. 2^0 = 1
    OBVIOUS
  <1>2. Sh(i, 0) = i
    BY <1>1 DEF Sh
  <1>3. ASSUME NEW d \in Nat
        PROVE  Sh(i, d) \in Nat /\ Sh(i, d + 1) = Sh(i, d) \div 2 /\ Sh(i, d) % 2 \in {0, 1}
    <2>1. 2^d \in Nat /\ 2^d > 0 /\ 2^(d + 1) = 2 * 2^d
      BY PowerOfTwo
    <2>2. ASSUME NEW p \in Nat, p > 0
          PROVE  i \div p \in Nat /\ i \div (2 * p) = (i \div p) \div 2
      BY <2>2
    <2>3. i \div 2^d \in Nat /\ i \div 2^(d + 1) = (i \div 2^d) \div 2
      BY <2>1, <2>2
    <2>4. QED
      BY <2>3 DEF Sh
  <1>4. QED
    BY <1>2, <1>3

\* A leaf below 2^k stays below 2^(k - d) on level d.
LEMMA ShiftBelow ==
  ASSUME NEW k \in Nat, NEW i \in Nat, i < 2^k, NEW d \in 0 .. k
  PROVE  Sh(i, d) < 2^(k - d)
  <1> DEFINE S == {n \in Nat : n <= k /\ Sh(i, n) < 2^(k - n)}
  <1>1. 0 \in S
    BY ShiftStep
  <1>2. ASSUME NEW n \in 0 .. k - 1, n \in S  PROVE n + 1 \in S
    <2>1. n \in Nat /\ n + 1 \in Nat /\ n + 1 <= k /\ k - (n + 1) \in Nat /\ (k - (n + 1)) + 1 = k - n
      OBVIOUS
    <2>2. Sh(i, n) \in Nat /\ Sh(i, n + 1) = Sh(i, n) \div 2
      BY <2>1, ShiftStep
    <2>3. 2^(k - (n + 1)) \in Nat /\ 2^(k - n) = 2 * 2^(k - (n + 1))
      BY <2>1, PowerOfTwo
    <2>4. Sh(i, n) < 2^(k - n)
      BY <1>2
    <2>5. Sh(i, n + 1) < 2^(k - (n + 1))
      <3> DEFINE p == 2^(k - (n + 1))
      <3>1. p \in Nat /\ Sh(i, n) < 2 * p
        BY <2>3, <2>4
      <3> HIDE DEF p
      <3>2. Sh(i, n) \div 2 < p
        BY <2>2, <3>1
      <3>3. QED
        BY <2>2, <3>2 DEF p
    <2>6. QED
      BY <2>1, <2>5
  <1> HIDE DEF S
  <1>3. d \in S
    BY <1>1, <1>2, Induction
  <1>4. QED
    BY <1>3 DEF S

LEMMA ShiftTop ==
  ASSUME NEW k \in Nat, NEW i \in Nat, i < 2^k
  PROVE  Sh(i, k) = 0
  <1>1. 2^(k - k) = 1
    <2>1. k - k = 0
      OBVIOUS
    <2>2. QED
      BY <2>1
  <1>2. Sh(i, k) < 1
    <2>1. k \in 0 .. k
      OBVIOUS
    <2>2. QED
      BY <1>1, <2>1, ShiftBelow
  <1>3. QED
    BY <1>2, ShiftStep

\* The remainders of a number and of its half.
LEMMA HalfRemainder ==
  ASSUME NEW x \in Nat, NEW p \in Nat, p > 0
  PROVE  /\ (x \div 2) % p \in 0 .. p - 1
         /\ x % (2 * p) = 2 * ((x \div 2) % p) + (x % 2)
  <1> DEFINE q == x \div 2
             b == x % 2
             a == q \div p
             r == q % p
  <1>1. q \in Nat /\ b \in {0, 1} /\ x = 2 * q + b
    OBVIOUS
  <1> HIDE DEF q, b
  <1>2. a \in Nat /\ r \in 0 .. p - 1 /\ q = p * a + r
    BY <1>1
  <1> HIDE DEF a, r
  <1>3. 2 * r + b \in 0 .. 2 * p - 1
    BY <1>1, <1>2
  <1>4. x = (2 * p) * a + (2 * r + b)
    BY <1>1, <1>2
  <1>5. ASSUME NEW m \in Nat, m > 0, NEW s \in 0 .. m - 1, NEW c \in Nat  PROVE (m * c + s) % m = s
    BY <1>5
  <1>6. 2 * p \in Nat /\ 2 * p > 0
    OBVIOUS
  <1>7. ((2 * p) * a + (2 * r + b)) % (2 * p) = 2 * r + b
    BY ONLY <1>2, <1>3, <1>5, <1>6
  <1>8. x % (2 * p) = 2 * r + b
    BY ONLY <1>4, <1>7
  <1>9. r = (x \div 2) % p /\ b = x % 2
    BY ONLY Zenon DEF q, b, r
  <1>10. QED
    BY ONLY <1>2, <1>8, <1>9

-----------------------------------------------------------------------------
(***************************************************************************)
(* Sums, for the proofs about MapThenSumSet.  The library computes a sum   *)
(* by a recursive function on the subsets; Total is the same with the      *)
(* summands given by a function.                                           *)
(***************************************************************************)

Pick(s) == CHOOSE x \in s : TRUE
\* g adds up the summands w on every subset of S.
Adds(g, w, S) ==
    g = [s \in SUBSET S |-> IF s = {} THEN 0 ELSE w[Pick(s)] + g[s \ {Pick(s)}]]
Total(w, S) == (CHOOSE g : Adds(g, w, S))[S]

\* A set of subsets of a finite set has a smallest one.
LEMMA SmallestSubset ==
  ASSUME NEW S, IsFiniteSet(S), NEW C \in SUBSET (SUBSET S), C # {}
  PROVE  \E T \in C : \A U \in SUBSET T : U # T => U \notin C
  <1> DEFINE R == StrictSubsetOrdering(S)
  <1>1. IsWellFoundedOn(R, SUBSET S)
    BY FS_StrictSubsetOrderingWellFounded, FS_FiniteSubsetsOfFinite
  <1>2. C \subseteq SUBSET S
    OBVIOUS
  <1> HIDE DEF R
  <1>3. PICK T \in C : \A U \in C : ~(<<U, T>> \in R)
    BY ONLY <1>1, <1>2, C # {}, WFMin
  <1>4. ASSUME NEW U \in SUBSET T, U # T, U \in C  PROVE FALSE
    <2>1. <<U, T>> \in (SUBSET S) \X (SUBSET S) /\ <<U, T>>[1] = U /\ <<U, T>>[2] = T
      BY <1>2, <1>3, <1>4
    <2>2. <<U, T>> \in R
      BY <1>4, <2>1 DEF R, StrictSubsetOrdering
    <2>3. QED
      BY <1>3, <1>4, <2>2
  <1>5. QED
    BY <1>3, <1>4

LEMMA PickFact ==
  ASSUME NEW s, s # {}
  PROVE  Pick(s) \in s /\ s \ {Pick(s)} \in SUBSET s /\ s \ {Pick(s)} # s
  <1>1. Pick(s) \in s
    BY DEF Pick
  <1>2. QED
    BY <1>1

LEMMA AddsAt ==
  ASSUME NEW S, NEW g, NEW w, Adds(g, w, S), NEW s \in SUBSET S
  PROVE  g[s] = IF s = {} THEN 0 ELSE w[Pick(s)] + g[s \ {Pick(s)}]
  BY DEF Adds

\* Two such functions agree where their summands do.
LEMMA AddsAgree ==
  ASSUME NEW S, NEW T, IsFiniteSet(S), NEW g, NEW h, NEW w, NEW v,
         Adds(g, w, S), Adds(h, v, T), NEW r \in SUBSET S, r \in SUBSET T,
         \A x \in r : w[x] = v[x]
  PROVE  g[r] = h[r]
  <1> DEFINE C == {s \in SUBSET r : g[s] # h[s]}
  <1>1. ASSUME C # {}  PROVE FALSE
    <2>1. IsFiniteSet(r)
      BY FS_Subset
    <2>2. PICK s \in C : \A u \in SUBSET s : u # s => u \notin C
      <3>1. C \in SUBSET (SUBSET r)
        OBVIOUS
      <3> HIDE DEF C
      <3>2. QED
        BY <1>1, <2>1, <3>1, SmallestSubset
    <2>3. s \in SUBSET S /\ s \in SUBSET T /\ s \in SUBSET r
      OBVIOUS
    <2>4. /\ g[s] = IF s = {} THEN 0 ELSE w[Pick(s)] + g[s \ {Pick(s)}]
          /\ h[s] = IF s = {} THEN 0 ELSE v[Pick(s)] + h[s \ {Pick(s)}]
      BY <2>3, AddsAt
    <2>5. s # {} => g[s \ {Pick(s)}] = h[s \ {Pick(s)}] /\ w[Pick(s)] = v[Pick(s)]
      BY <2>2, <2>3, PickFact
    <2>6. QED
      BY <2>2, <2>4, <2>5
  <1>2. r \in SUBSET r
    OBVIOUS
  <1>3. QED
    BY <1>1, <1>2

\* There is such a function, with natural numbers for values.
LEMMA AddsExists ==
  ASSUME NEW S, IsFiniteSet(S), NEW w, \A x \in S : w[x] \in Nat
  PROVE  \E g \in [SUBSET S -> Nat] : Adds(g, w, S)
  <1> DEFINE Has(T) == \E g \in [SUBSET T -> Nat] : Adds(g, w, T)
             C == {T \in SUBSET S : ~Has(T)}
  <1>1. ASSUME C # {}  PROVE FALSE
    <2>1. PICK T \in C : \A U \in SUBSET T : U # T => U \notin C
      <3>1. C \in SUBSET (SUBSET S)
        OBVIOUS
      <3> HIDE DEF C
      <3>2. QED
        BY <1>1, <3>1, SmallestSubset
    <2>2. T \in SUBSET S /\ ~Has(T) /\ \A U \in SUBSET T : U # T => Has(U)
      BY <2>1
    <2>3. ASSUME NEW U \in SUBSET T, U # T
          PROVE  /\ Total(w, U) \in Nat
                 /\ Total(w, U) = IF U = {} THEN 0 ELSE w[Pick(U)] + Total(w, U \ {Pick(U)})
      <3>1. ASSUME NEW V \in SUBSET U
            PROVE  Adds(CHOOSE g : Adds(g, w, V), w, V) /\ Total(w, V) \in Nat
        <4>1. PICK g \in [SUBSET V -> Nat] : Adds(g, w, V)
          BY <2>2, <2>3
        <4> DEFINE h == CHOOSE k : Adds(k, w, V)
        <4>2. Adds(h, w, V)
          BY <4>1
        <4>3. IsFiniteSet(V) /\ V \in SUBSET V
          BY <2>2, FS_Subset
        <4> HIDE DEF h
        <4>4. h[V] = g[V]
          BY <4>1, <4>2, <4>3, AddsAgree
        <4>5. h[V] \in Nat
          BY <4>1, <4>3, <4>4
        <4>6. QED
          BY <4>2, <4>5 DEF h, Total
      <3>2. U \in SUBSET U
        OBVIOUS
      <3>3. CASE U = {}
        BY <3>1, <3>2, <3>3, AddsAt DEF Total
      <3>4. CASE U # {}
        <4> DEFINE V == U \ {Pick(U)}
                   g == CHOOSE k : Adds(k, w, U)
                   h == CHOOSE k : Adds(k, w, V)
        <4>1. V \in SUBSET U /\ V \in SUBSET V
          OBVIOUS
        <4>2. Adds(g, w, U) /\ Adds(h, w, V) /\ Total(w, U) \in Nat
          BY <3>1, <3>2, <4>1
        <4>3. Total(w, U) = g[U] /\ Total(w, V) = h[V]
          BY DEF Total
        <4>4. IsFiniteSet(U)
          BY <2>2, FS_Subset
        <4> HIDE DEF g, h
        <4>5. g[V] = h[V]
          <5> HIDE DEF V
          <5>1. QED
            BY <4>1, <4>2, <4>4, AddsAgree
        <4>6. g[U] = w[Pick(U)] + g[V]
          <5>1. g[U] = IF U = {} THEN 0 ELSE w[Pick(U)] + g[U \ {Pick(U)}]
            BY <3>2, <4>2, AddsAt
          <5>2. QED
            BY <3>4, <5>1
        <4>7. QED
          BY <3>4, <4>2, <4>3, <4>5, <4>6
      <3>5. QED
        BY <3>3, <3>4
    <2> DEFINE k == [s \in SUBSET T |-> IF s = {} THEN 0
                                        ELSE w[Pick(s)] + Total(w, s \ {Pick(s)})]
    <2>4. ASSUME NEW s \in SUBSET T, s # {}
          PROVE  /\ s \ {Pick(s)} \in SUBSET T /\ k[s \ {Pick(s)}] = Total(w, s \ {Pick(s)})
                 /\ w[Pick(s)] \in Nat /\ Total(w, s \ {Pick(s)}) \in Nat
      <3>1. Pick(s) \in s /\ s \ {Pick(s)} \in SUBSET T /\ s \ {Pick(s)} # T
        BY <2>4, PickFact
      <3> DEFINE u == s \ {Pick(s)}
      <3>2. /\ Total(w, u) \in Nat
            /\ Total(w, u) = IF u = {} THEN 0 ELSE w[Pick(u)] + Total(w, u \ {Pick(u)})
        BY <2>3, <3>1
      <3>3. k[u] = IF u = {} THEN 0 ELSE w[Pick(u)] + Total(w, u \ {Pick(u)})
        BY <3>1
      <3>4. QED
        BY <2>2, <3>1, <3>2, <3>3
    <2>5. k \in [SUBSET T -> Nat]
      <3>1. ASSUME NEW s \in SUBSET T
            PROVE  (IF s = {} THEN 0 ELSE w[Pick(s)] + Total(w, s \ {Pick(s)})) \in Nat
        <4>1. CASE s = {}
          BY <4>1
        <4>2. CASE s # {}
          <5>1. w[Pick(s)] \in Nat /\ Total(w, s \ {Pick(s)}) \in Nat
            BY <2>4, <4>2
          <5>2. QED
            BY <4>2, <5>1
        <4>3. QED
          BY <4>1, <4>2
      <3>2. QED
        BY <3>1
    <2>6. Adds(k, w, T)
      <3> DEFINE e == [s \in SUBSET T |-> IF s = {} THEN 0 ELSE w[Pick(s)] + k[s \ {Pick(s)}]]
      <3>1. ASSUME NEW s \in SUBSET T  PROVE k[s] = e[s]
        BY <2>4
      <3>2. k = e
        BY <3>1
      <3>3. QED
        BY <3>2 DEF Adds
    <2>7. QED
      BY <2>2, <2>5, <2>6
  <1>2. S \in SUBSET S
    OBVIOUS
  <1>3. QED
    BY <1>1, <1>2

\* What Total is: the recursion of the definition.
LEMMA TotalFact ==
  ASSUME NEW S, IsFiniteSet(S), NEW w, \A x \in S : w[x] \in Nat
  PROVE  /\ Total(w, S) \in Nat
         /\ \A g : Adds(g, w, S) => Total(w, S) = g[S]
         /\ Total(w, S) = IF S = {} THEN 0 ELSE w[Pick(S)] + Total(w, S \ {Pick(S)})
  <1>1. ASSUME NEW T \in SUBSET S
        PROVE  /\ Adds(CHOOSE k : Adds(k, w, T), w, T) /\ Total(w, T) \in Nat
               /\ IsFiniteSet(T) /\ T \in SUBSET T
    <2>1. IsFiniteSet(T) /\ T \in SUBSET T
      BY FS_Subset
    <2>2. PICK g \in [SUBSET T -> Nat] : Adds(g, w, T)
      BY <2>1, AddsExists
    <2> DEFINE h == CHOOSE k : Adds(k, w, T)
    <2>3. Adds(h, w, T)
      BY <2>2
    <2> HIDE DEF h
    <2>4. h[T] = g[T]
      BY <2>1, <2>2, <2>3, AddsAgree
    <2>5. h[T] \in Nat
      BY <2>1, <2>2, <2>4
    <2>6. QED
      BY <2>1, <2>3, <2>5 DEF h, Total
  <1> DEFINE g == CHOOSE k : Adds(k, w, S)
             V == S \ {Pick(S)}
             h == CHOOSE k : Adds(k, w, V)
  <1>2. V \in SUBSET S /\ S \in SUBSET S
    OBVIOUS
  <1>3. /\ Adds(g, w, S) /\ Adds(h, w, V) /\ Total(w, S) \in Nat /\ V \in SUBSET V
        /\ Total(w, S) = g[S] /\ Total(w, V) = h[V]
    BY <1>1, <1>2 DEF Total
  <1> HIDE DEF g, h
  <1>4. \A f : Adds(f, w, S) => g[S] = f[S]
    BY <1>2, <1>3, AddsAgree
  <1>5. g[V] = h[V]
    <2> HIDE DEF V
    <2>1. QED
      BY <1>2, <1>3, AddsAgree
  <1>6. g[S] = IF S = {} THEN 0 ELSE w[Pick(S)] + g[V]
    BY <1>2, <1>3, AddsAt
  <1>7. QED
    BY <1>3, <1>4, <1>5, <1>6

\* Equal summands have equal sums.
LEMMA TotalSame ==
  ASSUME NEW S, IsFiniteSet(S), NEW w, NEW v, \A x \in S : w[x] \in Nat /\ v[x] = w[x]
  PROVE  Total(v, S) = Total(w, S)
  <1>1. PICK g \in [SUBSET S -> Nat] : Adds(g, w, S)
    BY AddsExists
  <1>2. PICK h \in [SUBSET S -> Nat] : Adds(h, v, S)
    BY AddsExists
  <1>3. S \in SUBSET S
    OBVIOUS
  <1>4. g[S] = h[S]
    BY <1>1, <1>2, <1>3, AddsAgree
  <1>5. Total(w, S) = g[S]
    BY <1>1, TotalFact
  <1>6. Total(v, S) = h[S]
    BY <1>2, TotalFact
  <1>7. QED
    BY <1>4, <1>5, <1>6

\* One summand more.
LEMMA TotalInsert ==
  ASSUME NEW S, IsFiniteSet(S), NEW w, NEW y, y \notin S, \A x \in S \cup {y} : w[x] \in Nat
  PROVE  /\ Total(w, S \cup {y}) = w[y] + Total(w, S)
         /\ Total(w, S) \in Nat /\ Total(w, S \cup {y}) \in Nat
  <1> DEFINE Z == S \cup {y}
             Good(T) == \A z \in Z \ T : Total(w, T \cup {z}) = w[z] + Total(w, T)
             C == {T \in SUBSET Z : ~Good(T)}
  <1>0. IsFiniteSet(Z)
    BY FS_AddElement
  <1>1. ASSUME NEW T \in SUBSET Z  PROVE IsFiniteSet(T) /\ Total(w, T) \in Nat
    <2>1. IsFiniteSet(T) /\ \A x \in T : w[x] \in Nat
      BY <1>0, FS_Subset
    <2>2. QED
      BY <2>1, TotalFact
  <1>2. ASSUME C # {}  PROVE FALSE
    <2>1. PICK T \in C : \A U \in SUBSET T : U # T => U \notin C
      <3>1. C \in SUBSET (SUBSET Z)
        OBVIOUS
      <3> HIDE DEF C, Z
      <3>2. QED
        BY <1>0, <1>2, <3>1, SmallestSubset
    <2>2. T \in SUBSET Z /\ ~Good(T) /\ \A U \in SUBSET T : U # T => Good(U)
      BY <2>1
    <2>3. PICK z \in Z \ T : Total(w, T \cup {z}) # w[z] + Total(w, T)
      BY <2>2
    <2> DEFINE c == Pick(T \cup {z})
               U == T \ {c}
    <2>4. c \in T \cup {z} /\ T \cup {z} # {} /\ T \cup {z} \in SUBSET Z
      BY <2>2, <2>3, PickFact
    <2>5. Total(w, T \cup {z}) = w[c] + Total(w, (T \cup {z}) \ {c})
      <3>1. IsFiniteSet(T \cup {z}) /\ \A x \in T \cup {z} : w[x] \in Nat
        BY <1>1, <2>4
      <3>2. QED
        BY <2>4, <3>1, TotalFact
    <2> HIDE DEF c
    <2>6. CASE c = z
      <3>1. (T \cup {z}) \ {c} = T
        BY <2>3, <2>6
      <3>2. QED
        BY <2>3, <2>5, <2>6, <3>1
    <2>7. CASE c # z
      <3>1. /\ c \in T /\ U \in SUBSET T /\ U # T /\ U \in SUBSET Z /\ (T \cup {z}) \ {c} = U \cup {z}
            /\ T = U \cup {c} /\ z \in Z \ U /\ c \in Z \ U
        BY <2>2, <2>3, <2>4, <2>7
      <3>2. Good(U)
        BY <2>2, <3>1
      <3>3. Total(w, U \cup {z}) = w[z] + Total(w, U) /\ Total(w, U \cup {c}) = w[c] + Total(w, U)
        BY <3>1, <3>2
      <3>4. w[z] \in Nat /\ w[c] \in Nat /\ Total(w, U) \in Nat
        BY <1>1, <3>1
      <3> DEFINE t == Total(w, U)
      <3>5. /\ Total(w, T \cup {z}) = w[c] + (w[z] + t) /\ Total(w, T) = w[c] + t /\ t \in Nat
        BY <2>5, <3>1, <3>3, <3>4
      <3> HIDE DEF t
      <3>6. Total(w, T \cup {z}) = w[z] + Total(w, T)
        BY <3>4, <3>5
      <3>7. QED
        BY <2>3, <3>6
    <2>8. QED
      BY <2>6, <2>7
  <1>3. S \in SUBSET Z /\ y \in Z \ S /\ Z \in SUBSET Z
    OBVIOUS
  <1>4. Good(S)
    BY <1>2, <1>3
  <1>5. QED
    BY <1>1, <1>3, <1>4

\* One summand changed.
LEMMA TotalChange ==
  ASSUME NEW S, IsFiniteSet(S), NEW w, NEW v, NEW y \in S, NEW d \in Nat, v[y] = w[y] + d,
         \A x \in S : w[x] \in Nat, \A x \in S : x # y => v[x] = w[x]
  PROVE  Total(v, S) = Total(w, S) + d
  <1> DEFINE T == S \ {y}
  <1>1. IsFiniteSet(T) /\ y \notin T /\ T \cup {y} = S
    BY FS_Subset
  <1>2. \A x \in S : v[x] \in Nat
    OBVIOUS
  <1>3. \A x \in T : w[x] \in Nat /\ v[x] = w[x]
    OBVIOUS
  <1> HIDE DEF T
  <1>4. Total(v, T) = Total(w, T)
    BY <1>1, <1>3, TotalSame
  <1>5. Total(w, S) = w[y] + Total(w, T) /\ Total(w, T) \in Nat
    BY <1>1, TotalInsert
  <1>6. Total(v, S) = v[y] + Total(v, T)
    BY <1>1, <1>2, TotalInsert
  <1>7. QED
    BY <1>4, <1>5, <1>6

\* Smaller summands have a smaller sum.
LEMMA TotalAtMost ==
  ASSUME NEW S, IsFiniteSet(S), NEW w, NEW v,
         \A x \in S : w[x] \in Nat /\ v[x] \in Nat /\ w[x] <= v[x]
  PROVE  Total(w, S) <= Total(v, S)
  <1> DEFINE C == {T \in SUBSET S : ~(Total(w, T) <= Total(v, T))}
  <1>1. ASSUME C # {}  PROVE FALSE
    <2>1. PICK T \in C : \A U \in SUBSET T : U # T => U \notin C
      <3>1. C \in SUBSET (SUBSET S)
        OBVIOUS
      <3> HIDE DEF C
      <3>2. QED
        BY <1>1, <3>1, SmallestSubset
    <2>2. /\ T \in SUBSET S /\ ~(Total(w, T) <= Total(v, T))
          /\ \A U \in SUBSET T : U # T => Total(w, U) <= Total(v, U)
      BY <2>1
    <2> HIDE DEF C
    <2>3. \A U \in SUBSET S : /\ IsFiniteSet(U)
                              /\ \A x \in U : w[x] \in Nat /\ v[x] \in Nat
      BY FS_Subset
    <2> DEFINE y == Pick(T)
               U == T \ {y}
    <2>4. /\ Total(w, T) = IF T = {} THEN 0 ELSE w[y] + Total(w, U)
          /\ Total(v, T) = IF T = {} THEN 0 ELSE v[y] + Total(v, U)
      BY <2>2, <2>3, TotalFact
    <2>5. T # {}
      BY <2>2, <2>4
    <2>6. y \in T /\ U \in SUBSET T /\ U # T
      BY <2>5, PickFact
    <2>7. /\ Total(w, U) \in Nat /\ Total(v, U) \in Nat /\ Total(w, U) <= Total(v, U)
          /\ w[y] \in Nat /\ v[y] \in Nat /\ w[y] <= v[y]
      <3>1. U \in SUBSET S
        BY <2>2, <2>6
      <3>2. IsFiniteSet(U) /\ \A x \in U : w[x] \in Nat /\ v[x] \in Nat
        BY <2>3, <3>1
      <3> HIDE DEF U
      <3>3. Total(w, U) \in Nat /\ Total(v, U) \in Nat
        BY <3>2, TotalFact
      <3>4. QED
        BY <2>2, <2>6, <3>3
    <2> HIDE DEF y, U
    <2>8. QED
      BY <2>2, <2>4, <2>5, <2>7
  <1>2. S \in SUBSET S
    OBVIOUS
  <1>3. QED
    BY <1>1, <1>2

\* Summands that are zero can be left out.
LEMMA TotalPart ==
  ASSUME NEW S, IsFiniteSet(S), NEW w, NEW P \in SUBSET S,
         \A x \in S : w[x] \in Nat, \A x \in S \ P : w[x] = 0
  PROVE  Total(w, S) = Total(w, P)
  <1> DEFINE C == {T \in SUBSET S : Total(w, T) # Total(w, T \cap P)}
  <1>0. ASSUME NEW U \in SUBSET S
        PROVE  IsFiniteSet(U) /\ Total(w, U) \in Nat /\ \A x \in U : w[x] \in Nat
    <2>1. IsFiniteSet(U) /\ \A x \in U : w[x] \in Nat
      BY FS_Subset
    <2>2. QED
      BY <2>1, TotalFact
  <1>1. ASSUME C # {}  PROVE FALSE
    <2>1. PICK T \in C : \A U \in SUBSET T : U # T => U \notin C
      <3>1. C \in SUBSET (SUBSET S)
        OBVIOUS
      <3> HIDE DEF C
      <3>2. QED
        BY <1>1, <3>1, SmallestSubset
    <2>2. /\ T \in SUBSET S /\ Total(w, T) # Total(w, T \cap P)
          /\ \A U \in SUBSET T : U # T => Total(w, U) = Total(w, U \cap P)
      BY <2>1
    <2> HIDE DEF C
    <2>3. T # {}
      <3>1. T = {} => T \cap P = T
        OBVIOUS
      <3>2. QED
        BY <2>2, <3>1
    <2> DEFINE y == Pick(T)
               U == T \ {y}
    <2>4. y \in T /\ U \in SUBSET T /\ U # T /\ y \notin U /\ T = U \cup {y} /\ U \in SUBSET S
      BY <2>2, <2>3, PickFact
    <2>5. Total(w, T) = w[y] + Total(w, U) /\ Total(w, U) \in Nat /\ w[y] \in Nat
      <3>1. IsFiniteSet(U) /\ \A x \in U \cup {y} : w[x] \in Nat
        BY <1>0, <2>2, <2>4
      <3> HIDE DEF y, U
      <3>2. QED
        BY <1>0, <2>2, <2>4, <3>1, TotalInsert
    <2>6. Total(w, U) = Total(w, U \cap P)
      BY <2>2, <2>4
    <2> HIDE DEF y, U
    <2>7. CASE y \in P
      <3> DEFINE V == U \cap P
      <3>1. T \cap P = V \cup {y} /\ y \notin V /\ V \in SUBSET S
        BY <2>4, <2>7
      <3>2. IsFiniteSet(V) /\ \A x \in V \cup {y} : w[x] \in Nat
        BY <1>0, <2>5, <3>1
      <3> HIDE DEF V
      <3>3. Total(w, V \cup {y}) = w[y] + Total(w, V)
        BY <3>1, <3>2, TotalInsert
      <3>4. QED
        BY <2>2, <2>5, <2>6, <3>1, <3>3 DEF V
    <2>8. CASE y \notin P
      <3>1. T \cap P = U \cap P /\ w[y] = 0
        BY <2>2, <2>4, <2>8
      <3>2. QED
        BY <2>2, <2>5, <2>6, <3>1
    <2>9. QED
      BY <2>7, <2>8
  <1>2. S \in SUBSET S /\ S \cap P = P
    OBVIOUS
  <1>3. QED
    BY <1>1, <1>2
=============================================================================
