--------------------------- MODULE InclusionProofs --------------------------
(***************************************************************************)
(* The inclusion proofs of a batch are sound and complete, for any number  *)
(* of orders and batches and any size of a batch's tree.                   *)
(***************************************************************************)
EXTENDS BatchInclusion, MathProofs, SequenceTheorems

-----------------------------------------------------------------------------
(***************************************************************************)
(* The recursive functions of the algorithms exist: each satisfies its own *)
(* equation.                                                               *)
(***************************************************************************)

\* The size of a tree that fits into the bound.
Fits(n) == n \in Nat /\ n # 0 /\ n <= 2^MaxDepth

LEMMA DepthFact ==
  ASSUME NEW n, Fits(n)
  PROVE  Depth(n) \in Nat /\ 2^Depth(n) \in Nat /\ n <= 2^Depth(n)
  <1> DEFINE C == {k \in 0 .. MaxDepth : 2^k >= n}
             P(k) == 2^k >= n /\ (k = 0 \/ 2^(k - 1) < n)
  <1>1. MaxDepth \in Nat
    BY InclusionAssumption
  <1>2. n \in Nat /\ n <= 2^MaxDepth
    BY DEF Fits
  <1>3. C \in SUBSET Nat /\ MaxDepth \in C
    BY <1>1, <1>2, PowerOfTwo
  <1>4. PICK k \in C : \A j \in C : k <= j
    <2> HIDE DEF C
    <2>1. QED
      BY <1>3, SmallestNumber
  <1>5. k \in 0 .. MaxDepth /\ P(k)
    <2>1. k \in 0 .. MaxDepth /\ 2^k >= n /\ k \in Nat
      BY <1>1, <1>4
    <2>2. CASE k # 0
      <3>1. k - 1 \in 0 .. MaxDepth /\ ~(k <= k - 1) /\ k - 1 \in Nat
        BY <1>1, <2>1, <2>2
      <3>2. k - 1 \notin C
        BY <1>4, <3>1
      <3>3. ~(2^(k - 1) >= n) /\ 2^(k - 1) \in Nat
        BY <3>1, <3>2, PowerOfTwo
      <3>4. 2^(k - 1) < n
        BY ONLY <1>2, <3>3
      <3>5. QED
        BY <2>1, <3>4
    <2>3. QED
      BY <2>1, <2>2
  <1>6. Depth(n) = CHOOSE j \in 0 .. MaxDepth : P(j)
    BY DEF Depth
  <1>7. Depth(n) \in 0 .. MaxDepth /\ P(Depth(n))
    <2> HIDE DEF P
    <2>1. QED
      BY <1>5, <1>6
  <1>8. Depth(n) \in Nat
    BY <1>1, <1>7
  <1>9. 2^Depth(n) \in Nat
    BY <1>8, PowerOfTwo
  <1>10. QED
    BY <1>2, <1>7, <1>8, <1>9

\* The levels of computeInclusionRoot and computeInclusionPath.
LEMMA LevelsFact ==
  ASSUME NEW leaves, Fits(Len(leaves))
  PROVE  LET k == Depth(Len(leaves))
             up == LevelsOf(leaves)
         IN  up = [d \in 0 .. k |-> IF d = 0 THEN Padded(leaves) ELSE Parents(up[d - 1])]
  <1> DEFINE N == Depth(Len(leaves))
             row == Padded(leaves)
             Up(f, d) == Parents(f[d])
             Z(f, n) == f = [d \in 0 .. n |-> IF d = 0 THEN row ELSE Up(f, d - 1)]
             S == {n \in Nat : \E f : Z(f, n)}
  <1>0. N \in Nat
    BY DepthFact
  <1>00. LevelsOf(leaves) = CHOOSE f : f = [d \in 0 .. N |-> IF d = 0 THEN row ELSE Parents(f[d - 1])]
    BY DEF LevelsOf
  <1> HIDE DEF N, row
  <1>1. 0 \in S
    <2>1. Z([d \in 0 .. 0 |-> row], 0)
      OBVIOUS
    <2>2. QED
      BY <2>1
  <1>2. ASSUME NEW n \in 0 .. N - 1, n \in S  PROVE n + 1 \in S
    <2>1. PICK f : Z(f, n)
      BY <1>2
    <2> DEFINE g == [d \in 0 .. n + 1 |-> IF d <= n THEN f[d] ELSE Up(f, n)]
    <2>2. n \in Nat
      BY <1>0
    <2>3. \A d \in 0 .. n : f[d] = IF d = 0 THEN row ELSE Up(f, d - 1)
      BY <2>1
    <2>4. ASSUME NEW d \in 0 .. n + 1  PROVE g[d] = IF d = 0 THEN row ELSE Up(g, d - 1)
      <3>1. d # 0 => g[d - 1] = f[d - 1]
        BY <2>2
      <3>2. d # 0 => Up(g, d - 1) = Up(f, d - 1)
        BY <3>1
      <3> HIDE DEF Up
      <3>3. CASE d <= n
        <4>1. d \in 0 .. n /\ g[d] = f[d]
          BY <2>2, <3>3
        <4>2. QED
          BY <2>3, <3>2, <4>1
      <3>4. CASE d = n + 1
        <4>1. d # 0 /\ d - 1 = n /\ g[d] = Up(f, n)
          BY <2>2, <3>4
        <4>2. QED
          BY <3>2, <4>1
      <3>5. QED
        BY <2>2, <3>3, <3>4
    <2>5. Z(g, n + 1)
      <3> HIDE DEF Up
      <3>1. QED
        BY <2>4
    <2> HIDE DEF g, Z
    <2>6. QED
      BY <2>2, <2>5
  <1> HIDE DEF S
  <1>3. N \in S
    <2>1. N \in 0 .. N
      BY <1>0
    <2>2. QED
      BY ONLY <1>0, <1>1, <1>2, <2>1, Induction
  <1>4. \E f : Z(f, N)
    BY <1>3 DEF S
  <1>5. Z(LevelsOf(leaves), N)
    BY <1>00, <1>4
  <1>6. QED
    BY <1>5 DEF N, row

\* Node(leaves, d, i) is the i-th word of level d, from 0.
Node(leaves, d, i) == LevelsOf(leaves)[d][i + 1]
\* The place that fills the i-th place of the padded level.
Place(n, j) == IF j <= n THEN j ELSE n

\* A level has half the words of the one below it.
LEMMA LevelFact ==
  ASSUME NEW leaves, Fits(Len(leaves)), NEW d \in 0 .. Depth(Len(leaves))
  PROVE  LET k == Depth(Len(leaves))
             up == LevelsOf(leaves)
         IN  up[d] = [j \in 1 .. 2^(k - d) |->
                        IF d = 0 THEN leaves[Place(Len(leaves), j)]
                                 ELSE sha256(up[d - 1][2 * j - 1], up[d - 1][2 * j])]
  <1> DEFINE k == Depth(Len(leaves))
             up == LevelsOf(leaves)
             Row(e) == [j \in 1 .. 2^(k - e) |->
                          IF e = 0 THEN leaves[Place(Len(leaves), j)]
                                   ELSE sha256(up[e - 1][2 * j - 1], up[e - 1][2 * j])]
             C == {e \in Nat : e <= k /\ up[e] = Row(e)}
  <1>1. k \in Nat
    BY DepthFact
  <1>2. Padded(leaves) = [j \in 1 .. 2^k |-> leaves[Place(Len(leaves), j)]]
    BY DEF Padded, Place
  <1>3. \A e \in 0 .. k : up[e] = IF e = 0 THEN Padded(leaves) ELSE Parents(up[e - 1])
    BY LevelsFact
  <1> HIDE DEF k, up
  <1>4. 0 \in C
    <2>1. k - 0 = k /\ 0 \in 0 .. k
      BY <1>1
    <2>2. Row(0) = [j \in 1 .. 2^k |-> leaves[Place(Len(leaves), j)]]
      BY <2>1
    <2>3. up[0] = Padded(leaves)
      BY <1>3, <2>1
    <2> HIDE DEF Row
    <2>4. QED
      BY <1>1, <1>2, <2>2, <2>3
  <1>5. ASSUME NEW n \in 0 .. k - 1, n \in C  PROVE n + 1 \in C
    <2> DEFINE p == 2^(k - (n + 1))
    <2>1. n \in Nat /\ n + 1 \in Nat /\ n + 1 <= k /\ k - (n + 1) \in Nat /\ (k - (n + 1)) + 1 = k - n
      BY <1>1
    <2>2. p \in Nat /\ 2^(k - n) = 2 * p
      BY <2>1, PowerOfTwo
    <2>3. up[n] = Row(n)
      BY <1>5
    <2>4. Len(up[n]) = 2 * p
      BY <2>2, <2>3
    <2>5. PICK e \in 0 .. k : e = n + 1 /\ e # 0 /\ e - 1 = n
      BY <1>1
    <2>6. up[e] = Parents(up[n])
      BY <1>3, <2>5
    <2>7. Parents(up[n]) = [j \in 1 .. p |-> sha256(up[n][2 * j - 1], up[n][2 * j])]
      <3>1. (2 * p) \div 2 = p
        BY <2>2
      <3>2. QED
        BY <2>4, <3>1 DEF Parents
    <2>8. Row(e) = [j \in 1 .. p |-> sha256(up[n][2 * j - 1], up[n][2 * j])]
      BY <2>5
    <2>9. up[e] = Row(e)
      BY ONLY <2>6, <2>7, <2>8
    <2>10. QED
      BY <2>1, <2>5, <2>9
  <1> HIDE DEF C
  <1>6. k \in 0 .. k
    BY <1>1
  <1>7. \A n \in 0 .. k : n \in C
    BY ONLY <1>1, <1>4, <1>5, Induction
  <1>8. up[d] = Row(d)
    BY <1>7 DEF C, k
  <1>9. QED
    BY <1>8 DEF k, up

LEMMA NodeFact ==
  ASSUME NEW leaves, Fits(Len(leaves))
  PROVE  LET k == Depth(Len(leaves))
         IN  /\ \A i \in 0 .. 2^k - 1 : /\ Node(leaves, 0, i) = leaves[Place(Len(leaves), i + 1)]
                                        /\ Node(leaves, 0, i) = Padded(leaves)[i + 1]
             /\ \A d \in 0 .. k - 1 : \A i \in 0 .. 2^(k - (d + 1)) - 1 :
                   Node(leaves, d + 1, i) = <<Node(leaves, d, 2 * i), Node(leaves, d, 2 * i + 1)>>
  <1> DEFINE k == Depth(Len(leaves))
             up == LevelsOf(leaves)
  <1>1. k \in Nat /\ 2^k \in Nat
    BY DepthFact
  <1>2. ASSUME NEW i \in 0 .. 2^k - 1
        PROVE  /\ Node(leaves, 0, i) = leaves[Place(Len(leaves), i + 1)]
               /\ Node(leaves, 0, i) = Padded(leaves)[i + 1]
    <2>1. 0 \in 0 .. k /\ k - 0 = k /\ i + 1 \in 1 .. 2^k
      BY <1>1
    <2>2. up[0] = [j \in 1 .. 2^k |-> leaves[Place(Len(leaves), j)]]
      <3>1. up[0] = [j \in 1 .. 2^(k - 0) |->
                       IF 0 = 0 THEN leaves[Place(Len(leaves), j)]
                                ELSE sha256(up[0 - 1][2 * j - 1], up[0 - 1][2 * j])]
        BY <2>1, LevelFact
      <3> HIDE DEF up, k
      <3>2. QED
        BY <2>1, <3>1
    <2>3. Padded(leaves) = [j \in 1 .. 2^k |-> leaves[Place(Len(leaves), j)]]
      BY DEF Padded, Place
    <2> HIDE DEF k
    <2>4. QED
      BY <2>1, <2>2, <2>3 DEF Node
  <1>3. ASSUME NEW d \in 0 .. k - 1, NEW i \in 0 .. 2^(k - (d + 1)) - 1
        PROVE  Node(leaves, d + 1, i) = <<Node(leaves, d, 2 * i), Node(leaves, d, 2 * i + 1)>>
    <2>1. PICK e \in 0 .. k : e = d + 1 /\ e # 0 /\ e - 1 = d
      BY <1>1
    <2>2. up[e] = [j \in 1 .. 2^(k - e) |->
                        IF e = 0 THEN leaves[Place(Len(leaves), j)]
                                 ELSE sha256(up[e - 1][2 * j - 1], up[e - 1][2 * j])]
      BY LevelFact
    <2> HIDE DEF up, k
    <2>3. k - (d + 1) \in Nat
      BY <1>1
    <2>4. 2^(k - (d + 1)) \in Nat
      BY <2>3, PowerOfTwo
    <2>5. i + 1 \in 1 .. 2^(k - e) /\ 2 * (i + 1) - 1 = 2 * i + 1 /\ 2 * (i + 1) = (2 * i + 1) + 1
      BY <2>1, <2>4
    <2>6. up[e][i + 1] = sha256(up[d][2 * (i + 1) - 1], up[d][2 * (i + 1)])
      BY <2>1, <2>2, <2>5
    <2>7. up[e][i + 1] = <<up[d][2 * i + 1], up[d][(2 * i + 1) + 1]>>
      BY <2>5, <2>6 DEF sha256
    <2>8. QED
      BY <2>1, <2>7 DEF Node, up
  <1>4. QED
    BY <1>2, <1>3

\* merkle_root_sha256 and computeInclusionRoot compute the same root.
LEMMA SameRoot ==
  ASSUME NEW S, NEW leaves \in Seq(S), Len(leaves) <= 2^MaxDepth
  PROVE  /\ MerkleRootSha256(leaves) = ComputeInclusionRoot(leaves)
         /\ leaves # <<>> => Fits(Len(leaves)) /\ ComputeInclusionRoot(leaves) = Node(leaves, Depth(Len(leaves)), 0)
  <1>1. CASE leaves = <<>>
    BY <1>1 DEF MerkleRootSha256, ComputeInclusionRoot
  <1>2. CASE leaves # <<>>
    <2> DEFINE k == Depth(Len(leaves))
               up == LevelsOf(leaves)
               Row(f, d) == [j \in 1 .. 2^(k - d) |->
                               IF d = 0 THEN leaves[Place(Len(leaves), j)]
                                        ELSE sha256(f[d - 1][2 * j - 1], f[d - 1][2 * j])]
               Z(f) == f = [d \in 0 .. k |-> Row(f, d)]
               node == CHOOSE f : Z(f)
    <2>1. Fits(Len(leaves))
      BY <1>2 DEF Fits
    <2>2. k \in Nat
      BY <2>1, DepthFact
    <2>3. MerkleRootSha256(leaves) = node[k][1]
      BY <1>2 DEF MerkleRootSha256, Place
    <2>4. ComputeInclusionRoot(leaves) = up[k][1]
      BY <1>2 DEF ComputeInclusionRoot
    <2>5. ComputeInclusionRoot(leaves) = Node(leaves, k, 0)
      BY <2>4 DEF Node
    <2>6. Z(up)
      <3>1. \A d \in 0 .. k : up[d] = Row(up, d)
        BY <2>1, LevelFact
      <3>2. up = [d \in 0 .. k |-> up[d]]
        BY <2>1, LevelsFact
      <3> HIDE DEF up, k, Row
      <3>3. QED
        BY <3>1, <3>2
    <2> HIDE DEF up, k
    <2>7. Z(node)
      <3> HIDE DEF Z
      <3>1. QED
        BY <2>6
    <2> HIDE DEF node
    <2> DEFINE C == {d \in Nat : d <= k => node[d] = up[d]}
    <2>8. \A d \in 0 .. k : node[d] = Row(node, d) /\ up[d] = Row(up, d)
      <3> HIDE DEF Row
      <3>1. QED
        BY <2>6, <2>7
    <2>9. 0 \in C
      <3>1. Row(node, 0) = Row(up, 0)
        OBVIOUS
      <3> HIDE DEF Row
      <3>2. QED
        BY <2>2, <2>8, <3>1
    <2>10. ASSUME NEW n \in 0 .. k - 1, n \in C  PROVE n + 1 \in C
      <3>1. PICK e \in 0 .. k : e = n + 1 /\ e # 0 /\ e - 1 = n /\ n + 1 \in Nat
        BY <2>2
      <3>2. node[e - 1] = up[e - 1]
        BY <2>2, <2>10, <3>1
      <3>3. Row(node, e) = Row(up, e)
        BY <3>2
      <3> HIDE DEF Row
      <3>4. node[e] = up[e]
        BY <2>8, <3>3
      <3>5. QED
        BY <3>1, <3>4
    <2> HIDE DEF C
    <2>11. k \in C
      <3>1. k \in 0 .. k
        BY <2>2
      <3>2. QED
        BY ONLY <2>2, <2>9, <2>10, <3>1, Induction
    <2>12. node[k] = up[k]
      BY <2>2, <2>11 DEF C
    <2>13. MerkleRootSha256(leaves) = ComputeInclusionRoot(leaves)
      BY ONLY <2>3, <2>4, <2>12
    <2>14. QED
      BY <2>1, <2>5, <2>13 DEF k
  <1>3. QED
    BY <1>1, <1>2

\* The words that verifyInclusionPath goes through.
Climb(leaf, index, siblings) ==
    CHOOSE up : up = [d \in 0 .. Len(siblings) |->
        IF d = 0 THEN leaf
        ELSE IF (index \div 2^(d - 1)) % 2 = 0 THEN sha256(up[d - 1], siblings[d])
                                               ELSE sha256(siblings[d], up[d - 1])]

LEMMA VerifyClimb ==
  ASSUME NEW leaf, NEW index, NEW siblings, NEW against
  PROVE  VerifyInclusionPath(leaf, index, siblings, against)
            <=> Climb(leaf, index, siblings)[Len(siblings)] = against
  BY DEF VerifyInclusionPath, Climb

LEMMA ClimbFact ==
  ASSUME NEW leaf, NEW index, NEW siblings, Len(siblings) \in Nat
  PROVE  LET up == Climb(leaf, index, siblings)
         IN  /\ up[0] = leaf
             /\ \A d \in 0 .. Len(siblings) - 1 :
                  up[d + 1] = IF Sh(index, d) % 2 = 0 THEN <<up[d], siblings[d + 1]>>
                                                      ELSE <<siblings[d + 1], up[d]>>
  <1> DEFINE N == Len(siblings)
             Up(f, d) == IF (index \div 2^(d - 1)) % 2 = 0 THEN sha256(f[d - 1], siblings[d])
                                                           ELSE sha256(siblings[d], f[d - 1])
             Z(f, n) == f = [d \in 0 .. n |-> IF d = 0 THEN leaf ELSE Up(f, d)]
             S == {n \in Nat : \E f : Z(f, n)}
  <1>1. 0 \in S
    <2>1. Z([d \in 0 .. 0 |-> leaf], 0)
      OBVIOUS
    <2>2. QED
      BY <2>1
  <1>2. ASSUME NEW n \in 0 .. N - 1, n \in S  PROVE n + 1 \in S
    <2>1. PICK f : Z(f, n)
      BY <1>2
    <2> DEFINE g == [d \in 0 .. n + 1 |-> IF d <= n THEN f[d] ELSE Up(f, n + 1)]
    <2>2. n \in Nat
      OBVIOUS
    <2>3. \A d \in 0 .. n : f[d] = IF d = 0 THEN leaf ELSE Up(f, d)
      BY <2>1
    <2>4. ASSUME NEW d \in 0 .. n + 1  PROVE g[d] = IF d = 0 THEN leaf ELSE Up(g, d)
      <3>1. d # 0 => g[d - 1] = f[d - 1]
        BY <2>2
      <3>2. d # 0 => Up(g, d) = Up(f, d)
        BY <3>1
      <3> HIDE DEF Up
      <3>3. CASE d <= n
        <4>1. d \in 0 .. n /\ g[d] = f[d]
          BY <2>2, <3>3
        <4>2. QED
          BY <2>3, <3>2, <4>1
      <3>4. CASE d = n + 1
        <4>1. d # 0 /\ g[d] = Up(f, d)
          BY <2>2, <3>4
        <4>2. QED
          BY <3>2, <4>1
      <3>5. QED
        BY <2>2, <3>3, <3>4
    <2>5. Z(g, n + 1)
      <3> HIDE DEF Up
      <3>1. QED
        BY <2>4
    <2> HIDE DEF g, Z
    <2>6. QED
      BY <2>2, <2>5
  <1> HIDE DEF S
  <1>3. N \in S
    <2>1. N \in Nat /\ N \in 0 .. N
      OBVIOUS
    <2>2. QED
      BY ONLY <1>1, <1>2, <2>1, Induction
  <1>4. \E f : Z(f, N)
    BY <1>3 DEF S
  <1> DEFINE up == Climb(leaf, index, siblings)
  <1>5. Z(up, N)
    BY <1>4 DEF Climb
  <1> HIDE DEF up
  <1>6. \A d \in 0 .. N : up[d] = IF d = 0 THEN leaf ELSE Up(up, d)
    <2> HIDE DEF Up
    <2>1. QED
      BY <1>5
  <1>7. up[0] = leaf
    BY <1>6
  <1>8. ASSUME NEW d \in 0 .. N - 1
        PROVE  up[d + 1] = IF Sh(index, d) % 2 = 0 THEN <<up[d], siblings[d + 1]>> ELSE <<siblings[d + 1], up[d]>>
    <2>1. PICK e \in 0 .. N : e = d + 1 /\ e # 0 /\ e - 1 = d
      OBVIOUS
    <2>2. up[e] = Up(up, e)
      <3> HIDE DEF Up
      <3>1. QED
        BY <1>6, <2>1
    <2>3. Up(up, e) = IF Sh(index, d) % 2 = 0 THEN <<up[d], siblings[d + 1]>> ELSE <<siblings[d + 1], up[d]>>
      BY <2>1 DEF sha256, Sh
    <2> HIDE DEF Up
    <2>4. QED
      BY <2>1, <2>2, <2>3
  <1>9. QED
    BY <1>7, <1>8 DEF up

-----------------------------------------------------------------------------
(***************************************************************************)
(* Completeness: the path that computeInclusionPath computes for an order  *)
(* leads to the root.  Level by level the climb meets the nodes above the  *)
(* leaf.                                                                   *)
(***************************************************************************)

\* A path is a sequence of words.
LEMMA PathSeq ==
  ASSUME NEW leaves, Fits(Len(leaves)), NEW index \in Nat
  PROVE  \E W : ComputeInclusionPath(leaves, index) \in Seq(W)
  <1> DEFINE k == Depth(Len(leaves))
             word(d) == LevelsOf(leaves)[d - 1][IF Sh(index, d - 1) % 2 = 0 THEN Sh(index, d - 1) + 2
                                                                           ELSE Sh(index, d - 1)]
             W == {word(d) : d \in 1 .. k}
  <1>1. k \in Nat
    BY DepthFact
  <1>2. ComputeInclusionPath(leaves, index) = [d \in 1 .. k |-> word(d)]
    BY DEF ComputeInclusionPath, Sh
  <1> HIDE DEF k, word
  <1>3. [d \in 1 .. k |-> word(d)] \in Seq(W)
    BY <1>1
  <1>4. QED
    BY <1>2, <1>3

LEMMA PathFact ==
  ASSUME NEW leaves, Fits(Len(leaves)), NEW index \in Nat
  PROVE  LET k == Depth(Len(leaves))
             path == ComputeInclusionPath(leaves, index)
         IN  /\ Len(path) = k
             /\ \A d \in 0 .. k - 1 :
                   path[d + 1] = Node(leaves, d, IF Sh(index, d) % 2 = 0 THEN Sh(index, d) + 1
                                                                         ELSE Sh(index, d) - 1)
  <1> DEFINE k == Depth(Len(leaves))
             path == ComputeInclusionPath(leaves, index)
  <1>1. k \in Nat
    BY DepthFact
  <1>2. path = [d \in 1 .. k |->
                  LevelsOf(leaves)[d - 1][IF Sh(index, d - 1) % 2 = 0 THEN Sh(index, d - 1) + 2
                                                                      ELSE Sh(index, d - 1)]]
    BY DEF ComputeInclusionPath, Sh
  <1> HIDE DEF k, path
  <1>3. Len(path) = k
    BY <1>1, <1>2
  <1>4. ASSUME NEW d \in 0 .. k - 1
        PROVE  path[d + 1] = Node(leaves, d, IF Sh(index, d) % 2 = 0 THEN Sh(index, d) + 1 ELSE Sh(index, d) - 1)
    <2> DEFINE a == Sh(index, d)
    <2>1. PICK e \in 1 .. k : e = d + 1 /\ e - 1 = d
      BY <1>1
    <2>2. a \in Nat
      <3>1. d \in Nat
        BY <1>1
      <3>2. QED
        BY ONLY index \in Nat, <3>1, ShiftStep
    <2>3. path[e] = LevelsOf(leaves)[d][IF a % 2 = 0 THEN a + 2 ELSE a]
      BY <1>2, <2>1
    <2> HIDE DEF a
    <2>4. (a + 1) + 1 = a + 2 /\ (a - 1) + 1 = a
      BY <2>2
    <2>5. path[e] = Node(leaves, d, IF a % 2 = 0 THEN a + 1 ELSE a - 1)
      BY <2>3, <2>4 DEF Node
    <2>6. QED
      BY <2>1, <2>5 DEF a
  <1>5. QED
    BY <1>3, <1>4 DEF k, path

LEMMA PathVerifies ==
  ASSUME NEW S, NEW leaves \in Seq(S), Len(leaves) <= 2^MaxDepth, NEW i \in 1 .. Len(leaves)
  PROVE  VerifyInclusionPath(leaves[i], i - 1, ComputeInclusionPath(leaves, i - 1), ComputeInclusionRoot(leaves))
  <1> DEFINE n == Len(leaves)
             index == i - 1
             k == Depth(n)
             path == ComputeInclusionPath(leaves, index)
             climb == Climb(leaves[i], index, path)
             C == {d \in Nat : d <= k => climb[d] = Node(leaves, d, Sh(index, d))}
  <1>1. /\ n \in Nat /\ leaves # <<>> /\ Fits(n)
        /\ index \in Nat /\ index < n /\ index + 1 = i /\ i <= n
    BY DEF Fits
  <1>2. k \in Nat /\ 2^k \in Nat /\ n <= 2^k
    BY <1>1, DepthFact
  <1>3. Len(path) = k
    BY <1>1, PathFact
  <1>4. ASSUME NEW d \in 0 .. k - 1
        PROVE  path[d + 1] = Node(leaves, d, IF Sh(index, d) % 2 = 0 THEN Sh(index, d) + 1 ELSE Sh(index, d) - 1)
    BY <1>1, PathFact
  <1>5. /\ climb[0] = leaves[i]
        /\ \A d \in 0 .. k - 1 :
              climb[d + 1] = IF Sh(index, d) % 2 = 0 THEN <<climb[d], path[d + 1]>> ELSE <<path[d + 1], climb[d]>>
    BY <1>2, <1>3, ClimbFact
  <1>6. ComputeInclusionRoot(leaves) = Node(leaves, k, 0)
    BY <1>1, SameRoot
  <1>7. VerifyInclusionPath(leaves[i], index, path, Node(leaves, k, 0)) <=> climb[k] = Node(leaves, k, 0)
    BY <1>3, VerifyClimb
  <1>8. Node(leaves, 0, index) = leaves[i]
    <2>1. index \in 0 .. 2^k - 1 /\ Place(n, index + 1) = i
      BY <1>1, <1>2 DEF Place
    <2>2. QED
      BY <1>1, <2>1, NodeFact
  <1>9. index < 2^k
    BY <1>1, <1>2
  <1>10. \A d \in 0 .. k - 1 : \A j \in 0 .. 2^(k - (d + 1)) - 1 :
            Node(leaves, d + 1, j) = <<Node(leaves, d, 2 * j), Node(leaves, d, 2 * j + 1)>>
    BY <1>1, NodeFact
  <1> HIDE DEF n, index, k, path, climb
  <1>11. 0 \in C
    BY <1>1, <1>5, <1>8, ShiftStep
  <1>12. ASSUME NEW d \in 0 .. k - 1, d \in C  PROVE d + 1 \in C
    <2> DEFINE a == Sh(index, d)
               h == a \div 2
    <2>1. d \in Nat /\ d + 1 \in Nat /\ d + 1 \in 0 .. k /\ d <= k /\ k - (d + 1) \in Nat
      BY <1>2
    <2>2. a \in Nat /\ Sh(index, d + 1) = h
      BY <1>1, <2>1, ShiftStep
    <2>3. h < 2^(k - (d + 1))
      BY <1>1, <1>2, <1>9, <2>1, <2>2, ShiftBelow
    <2>4. 2^(k - (d + 1)) \in Nat
      BY <2>1, PowerOfTwo
    <2>5. climb[d] = Node(leaves, d, a)
      BY <1>12, <2>1
    <2>6. climb[d + 1] = IF a % 2 = 0 THEN <<climb[d], path[d + 1]>> ELSE <<path[d + 1], climb[d]>>
      BY <1>5
    <2>7. path[d + 1] = Node(leaves, d, IF a % 2 = 0 THEN a + 1 ELSE a - 1)
      BY <1>4
    <2> HIDE DEF a
    <2>8. h \in Nat /\ (a % 2 = 0 => a = 2 * h) /\ (a % 2 # 0 => a = 2 * h + 1 /\ a - 1 = 2 * h)
      BY <2>2
    <2> HIDE DEF h
    <2>9. h \in 0 .. 2^(k - (d + 1)) - 1
      BY <2>3, <2>4, <2>8
    <2>10. Node(leaves, d + 1, h) = <<Node(leaves, d, 2 * h), Node(leaves, d, 2 * h + 1)>>
      BY <1>10, <2>9
    <2>11. climb[d + 1] = Node(leaves, d + 1, h)
      BY <2>5, <2>6, <2>7, <2>8, <2>10
    <2>12. QED
      BY <2>1, <2>2, <2>11
  <1> HIDE DEF C
  <1>13. k \in C
    <2>1. k \in 0 .. k
      BY <1>2
    <2>2. QED
      BY ONLY <1>2, <1>11, <1>12, <2>1, Induction
  <1>14. climb[k] = Node(leaves, k, 0)
    <2>1. Sh(index, k) = 0
      BY <1>1, <1>2, <1>9, ShiftTop
    <2>2. k <= k
      BY <1>2
    <2>3. QED
      BY <1>13, <2>1, <2>2 DEF C
  <1>15. QED
    BY <1>6, <1>7, <1>14 DEF index, path

-----------------------------------------------------------------------------
(***************************************************************************)
(* Soundness: a climb that ends at the root met the root's nodes on the    *)
(* way, since a hash has one pair of inputs.  A leaf of the tree is no     *)
(* hash, so the climb is no longer than the tree is deep; if it starts at  *)
(* an order's commitment it is no shorter either.                          *)
(***************************************************************************)
OrderLeaf == {<<n>> : n \in Nat}

LEMMA NotANode ==
  ASSUME NEW l \in OrderLeaf, NEW a, NEW b
  PROVE  l # <<a, b>> /\ l # <<>>
  BY DEF OrderLeaf

\* Going down e levels from the root.
LEMMA ClimbDown ==
  ASSUME NEW leaves, Fits(Len(leaves)), NEW leaf, NEW index \in Nat, NEW siblings, Len(siblings) \in Nat,
         Climb(leaf, index, siblings)[Len(siblings)] = Node(leaves, Depth(Len(leaves)), 0),
         NEW e \in Nat, e <= Len(siblings), e <= Depth(Len(leaves))
  PROVE  /\ Sh(index, Len(siblings) - e) % 2^e \in 0 .. 2^e - 1
         /\ Climb(leaf, index, siblings)[Len(siblings) - e] =
              Node(leaves, Depth(Len(leaves)) - e, Sh(index, Len(siblings) - e) % 2^e)
  <1> DEFINE k == Depth(Len(leaves))
             K == Len(siblings)
             climb == Climb(leaf, index, siblings)
             Met(m) == /\ Sh(index, K - m) % 2^m \in 0 .. 2^m - 1
                       /\ climb[K - m] = Node(leaves, k - m, Sh(index, K - m) % 2^m)
             C == {m \in Nat : m <= K /\ m <= k => Met(m)}
  <1>1. k \in Nat /\ K \in Nat
    BY DepthFact
  <1>2. \A d \in 0 .. K - 1 :
           climb[d + 1] = IF Sh(index, d) % 2 = 0 THEN <<climb[d], siblings[d + 1]>> ELSE <<siblings[d + 1], climb[d]>>
    BY ClimbFact
  <1>3. \A d \in 0 .. k - 1 : \A j \in 0 .. 2^(k - (d + 1)) - 1 :
            Node(leaves, d + 1, j) = <<Node(leaves, d, 2 * j), Node(leaves, d, 2 * j + 1)>>
    BY NodeFact
  <1>4. climb[K] = Node(leaves, k, 0)
    OBVIOUS
  <1> HIDE DEF k, K, climb
  <1>5. 0 \in C
    <2>1. 2^0 = 1
      OBVIOUS
    <2>2. K - 0 = K /\ k - 0 = k /\ Sh(index, K) \in Nat
      <3>1. Sh(index, K) \in Nat
        BY ONLY <1>1, index \in Nat, ShiftStep
      <3>2. QED
        BY <1>1, <3>1
    <2>3. Sh(index, K) % 1 = 0
      BY <2>2
    <2>4. Met(0)
      BY <1>4, <2>1, <2>2, <2>3
    <2> HIDE DEF Met
    <2>5. QED
      BY <2>4
  <1>6. ASSUME NEW m \in 0 .. e - 1, m \in C  PROVE m + 1 \in C
    <2>1. ASSUME m + 1 <= K, m + 1 <= k  PROVE Met(m + 1)
      <3> DEFINE d == K - (m + 1)
                 c == k - (m + 1)
                 x == Sh(index, d)
                 p == 2^m
                 y == (x \div 2) % p
      <3>1. /\ m \in Nat /\ d \in 0 .. K - 1 /\ d \in Nat /\ d + 1 = K - m
            /\ c \in 0 .. k - 1 /\ c \in Nat /\ c + 1 = k - m /\ k - (c + 1) = m
            /\ m <= K /\ m <= k
        BY <1>1, <2>1
      <3>2. Met(m)
        <4> HIDE DEF Met, d, c, x, p, y
        <4>1. QED
          BY <1>6, <3>1
      <3>3. p \in Nat /\ p > 0 /\ 2^(m + 1) = 2 * p
        BY <3>1, PowerOfTwo
      <3>4. x \in Nat /\ Sh(index, d + 1) = x \div 2
        BY <3>1, ShiftStep
      <3>5. y \in 0 .. p - 1 /\ x % (2 * p) = 2 * y + (x % 2)
        <4> HIDE DEF x, p
        <4>1. QED
          BY <3>3, <3>4, HalfRemainder
      <3>6. climb[d + 1] = Node(leaves, c + 1, y)
        <4>1. Sh(index, K - m) % 2^m = y
          BY <3>1, <3>4
        <4> HIDE DEF d, c, x, p, y
        <4>2. QED
          BY <3>1, <3>2, <4>1
      <3>7. Node(leaves, c + 1, y) = <<Node(leaves, c, 2 * y), Node(leaves, c, 2 * y + 1)>>
        <4>1. y \in 0 .. 2^(k - (c + 1)) - 1
          <5>1. 2^(k - (c + 1)) = p
            BY <3>1
          <5> HIDE DEF y, p, c
          <5>2. QED
            BY <3>5, <5>1
        <4> HIDE DEF d, c, x, p, y
        <4>2. QED
          BY <1>3, <3>1, <4>1
      <3>8. climb[d + 1] = IF x % 2 = 0 THEN <<climb[d], siblings[d + 1]>> ELSE <<siblings[d + 1], climb[d]>>
        <4> HIDE DEF d
        <4>1. QED
          BY <1>2, <3>1
      <3> HIDE DEF d, c, x, p, y
      <3>9. x % 2 \in {0, 1} /\ y \in Nat
        BY <3>3, <3>4, <3>5
      <3>10. climb[d] = Node(leaves, c, 2 * y + (x % 2))
        <4>1. CASE x % 2 = 0
          <5>1. <<climb[d], siblings[d + 1]>> = <<Node(leaves, c, 2 * y), Node(leaves, c, 2 * y + 1)>>
            BY <3>6, <3>7, <3>8, <4>1
          <5>2. 2 * y + (x % 2) = 2 * y
            BY <3>9, <4>1
          <5>3. QED
            BY <5>1, <5>2
        <4>2. CASE x % 2 = 1
          <5>1. <<siblings[d + 1], climb[d]>> = <<Node(leaves, c, 2 * y), Node(leaves, c, 2 * y + 1)>>
            BY <3>6, <3>7, <3>8, <4>2
          <5>2. QED
            BY <4>2, <5>1
        <4>3. QED
          BY <3>9, <4>1, <4>2
      <3>11. x % 2^(m + 1) = 2 * y + (x % 2) /\ 2 * y + (x % 2) \in 0 .. 2^(m + 1) - 1
        BY <3>3, <3>5, <3>9
      <3>12. QED
        BY <3>10, <3>11 DEF d, c, x
    <2>2. m + 1 \in Nat
      OBVIOUS
    <2> HIDE DEF Met
    <2>3. QED
      BY <2>1, <2>2
  <1> HIDE DEF C
  <1>7. e \in C
    <2>1. e \in Nat /\ e \in 0 .. e
      OBVIOUS
    <2>2. QED
      BY ONLY <1>5, <1>6, <2>1, Induction
  <1>8. e <= K /\ e <= k
    BY DEF k, K
  <1>9. Met(e)
    <2> HIDE DEF Met
    <2>1. QED
      BY <1>7, <1>8 DEF C
  <1>10. QED
    BY <1>9 DEF climb, k, K

\* What a verdict on a claim says, in terms of all possible commitments.
Shows(leaves, leaf, index, siblings) ==
    LET k == Len(siblings)
        h == Depth(Len(leaves)) - k
    IN  IF leaves = <<>> THEN leaf = <<>> /\ siblings = <<>>
        ELSE /\ k <= Depth(Len(leaves))
             /\ leaf = LevelsOf(leaves)[h][(index % 2^k) + 1]
             /\ leaf \in OrderLeaf => h = 0
             /\ h = 0 => Contains(leaves, leaf)

LEMMA VerifiedShows ==
  ASSUME NEW leaves \in Seq(OrderLeaf), Len(leaves) <= 2^MaxDepth, NEW leaf,
         NEW index \in Nat, NEW W, NEW siblings \in Seq(W),
         VerifyInclusionPath(leaf, index, siblings, ComputeInclusionRoot(leaves))
  PROVE  Shows(leaves, leaf, index, siblings)
  <1> DEFINE n == Len(leaves)
             k == Depth(n)
             K == Len(siblings)
             climb == Climb(leaf, index, siblings)
  <1>0. Len(siblings) \in Nat
    OBVIOUS
  <1>1. climb[K] = ComputeInclusionRoot(leaves)
    BY <1>0, VerifyClimb
  <1>2. climb[0] = leaf
    BY ClimbFact
  <1>3. ASSUME NEW d \in 0 .. K, d # 0  PROVE \E a, b : climb[d] = <<a, b>>
    <2>1. PICK e \in 0 .. K - 1 : e + 1 = d
      <3>1. d - 1 \in 0 .. K - 1 /\ (d - 1) + 1 = d
        BY <1>3
      <3>2. QED
        BY <3>1
    <2>2. climb[e + 1] = IF Sh(index, e) % 2 = 0 THEN <<climb[e], siblings[e + 1]>> ELSE <<siblings[e + 1], climb[e]>>
      BY ClimbFact
    <2> HIDE DEF climb
    <2>3. QED
      BY <2>1, <2>2
  <1>4. CASE leaves = <<>>
    <2>1. climb[K] = <<>>
      BY <1>1, <1>4 DEF ComputeInclusionRoot
    <2>2. K = 0
      <3>1. SUFFICES ASSUME K # 0  PROVE FALSE
        OBVIOUS
      <3>2. K \in 0 .. K
        BY <1>0
      <3> HIDE DEF climb
      <3>3. PICK a, b : climb[K] = <<a, b>>
        BY <1>3, <3>1, <3>2
      <3>4. <<a, b>> # <<>>
        OBVIOUS
      <3>5. QED
        BY <2>1, <3>3, <3>4
    <2>3. siblings = <<>>
      BY <2>2
    <2>4. leaf = <<>>
      BY <1>2, <2>1, <2>2
    <2>5. QED
      BY <1>4, <2>3, <2>4 DEF Shows
  <1> SUFFICES ASSUME leaves # <<>>  PROVE Shows(leaves, leaf, index, siblings)
    BY <1>4
  <1>5. Fits(n) /\ climb[K] = Node(leaves, k, 0)
    BY <1>1, SameRoot
  <1>6. k \in Nat /\ K \in Nat /\ n \in Nat /\ n # 0
    BY <1>5, DepthFact DEF Fits
  <1>7. ASSUME NEW e \in Nat, e <= K, e <= k
        PROVE  /\ Sh(index, K - e) % 2^e \in 0 .. 2^e - 1
               /\ climb[K - e] = Node(leaves, k - e, Sh(index, K - e) % 2^e)
    BY <1>5, <1>7, ClimbDown
  <1>8. ASSUME NEW j \in 0 .. 2^k - 1
        PROVE  /\ Node(leaves, 0, j) = leaves[Place(n, j + 1)] /\ Node(leaves, 0, j) = Padded(leaves)[j + 1]
               /\ Place(n, j + 1) \in 1 .. n
    <2>1. Node(leaves, 0, j) = leaves[Place(n, j + 1)] /\ Node(leaves, 0, j) = Padded(leaves)[j + 1]
      BY <1>5, NodeFact
    <2>2. j \in Nat
      <3>1. 2^k \in Nat
        BY <1>6, PowerOfTwo
      <3>2. QED
        BY <3>1
    <2> HIDE DEF n, k
    <2>3. Place(n, j + 1) \in 1 .. n
      BY <1>6, <2>2 DEF Place
    <2>4. QED
      BY <2>1, <2>3
  <1>9. \A d \in 0 .. k - 1 : \A j \in 0 .. 2^(k - (d + 1)) - 1 :
            Node(leaves, d + 1, j) = <<Node(leaves, d, 2 * j), Node(leaves, d, 2 * j + 1)>>
    BY <1>5, NodeFact
  <1> HIDE DEF n, k, K, climb
  <1>10. K <= k
    <2>1. SUFFICES ASSUME K > k  PROVE FALSE
      BY <1>6
    <2> DEFINE y == Sh(index, K - k) % 2^k
    <2>2. k <= K /\ k <= k /\ K - k \in 0 .. K /\ K - k # 0 /\ k - k = 0
      BY <1>6, <2>1
    <2>3. y \in 0 .. 2^k - 1 /\ climb[K - k] = Node(leaves, 0, y)
      BY <1>6, <1>7, <2>2
    <2> HIDE DEF y
    <2>4. climb[K - k] \in OrderLeaf
      <3>1. climb[K - k] = leaves[Place(n, y + 1)] /\ Place(n, y + 1) \in 1 .. Len(leaves)
        BY <1>8, <2>3 DEF n
      <3>2. QED
        BY <3>1
    <2>5. PICK a, b : climb[K - k] = <<a, b>>
      BY <1>3, <2>2
    <2>6. QED
      BY <2>4, <2>5, NotANode
  <1> DEFINE y == index % 2^K
             h == k - K
  <1>11. y \in 0 .. 2^K - 1 /\ leaf = Node(leaves, h, y)
    <2>1. K - K = 0 /\ K <= K
      BY <1>6
    <2>2. Sh(index, 0) = index
      BY ShiftStep
    <2>3. /\ Sh(index, K - K) % 2^K \in 0 .. 2^K - 1
          /\ climb[K - K] = Node(leaves, k - K, Sh(index, K - K) % 2^K)
      BY <1>6, <1>7, <1>10, <2>1
    <2>4. QED
      BY <1>2, <2>1, <2>2, <2>3
  <1> HIDE DEF y
  <1>12. ASSUME leaf \in OrderLeaf  PROVE h = 0
    <2>1. SUFFICES ASSUME h # 0  PROVE FALSE
      OBVIOUS
    <2>2. h - 1 \in 0 .. k - 1 /\ (h - 1) + 1 = h /\ k - ((h - 1) + 1) = K
      BY <1>6, <1>10, <2>1
    <2> HIDE DEF h
    <2>3. Node(leaves, (h - 1) + 1, y) = <<Node(leaves, h - 1, 2 * y), Node(leaves, h - 1, 2 * y + 1)>>
      BY <1>9, <1>11, <2>2
    <2>4. leaf = <<Node(leaves, h - 1, 2 * y), Node(leaves, h - 1, 2 * y + 1)>>
      BY <1>11, <2>2, <2>3
    <2>5. QED
      BY <1>12, <2>4, NotANode
  <1>13. ASSUME h = 0  PROVE Contains(leaves, leaf)
    <2>1. K = k
      BY <1>6, <1>10, <1>13
    <2> HIDE DEF h
    <2>2. leaf = leaves[Place(n, y + 1)] /\ Place(n, y + 1) \in 1 .. Len(leaves)
      BY <1>8, <1>11, <1>13, <2>1 DEF n
    <2>3. QED
      BY <2>2 DEF Contains
  <1>14. leaf = LevelsOf(leaves)[h][y + 1]
    BY <1>11 DEF Node
  <1>15. QED
    BY <1>10, <1>12, <1>13, <1>14 DEF Shows, n, k, K, y

-----------------------------------------------------------------------------
(***************************************************************************)
(* The inductive invariant.  Until it is verified, a client's claim is the *)
(* path that it computed for an order of some batch; afterwards batches no *)
(* longer matter to it.                                                    *)
(***************************************************************************)
Batch(leaves) == leaves \in Seq(OrderLeaf) /\ Len(leaves) <= 2^MaxDepth

BatchesOK ==
    /\ submitted \in Nat /\ Batch(active)
    /\ batches \in Seq(Seq(OrderLeaf)) /\ Len(batches) <= MaxBatches
    /\ \A b \in DOMAIN batches : Batch(batches[b])

RootOK == batches # <<>> => root = ComputeInclusionRoot(Last(batches))

\* The claim c is the path of the i-th order of batch b.
IsPath(c, bs, b, i) ==
    /\ c.from = b /\ c.leaf = bs[b][i] /\ c.index = i - 1
    /\ c.siblings = ComputeInclusionPath(bs[b], i - 1)

Computed(c, bs) == \E b \in 1 .. Len(bs) : \E i \in 1 .. Len(bs[b]) : IsPath(c, bs, b, i)

\* The verdict on the claim c is right.
Right(c, bs) ==
    /\ c.from # 0 /\ c.at \in 1 .. Len(bs)
    /\ c.ok => Shows(bs[c.at], c.leaf, c.index, c.siblings)
    /\ c.from = c.at => c.ok

ClaimOK ==
    /\ claim.at = 0 /\ claim.from # 0 => Computed(claim, batches)
    /\ claim.at # 0 => Right(claim, batches)

InclusionInv == BatchesOK /\ RootOK /\ ClaimOK

LEMMA SoundFollows == InclusionInv => InclusionSound
  <1> SUFFICES ASSUME InclusionInv  PROVE InclusionSound
    OBVIOUS
  <1>1. Leaf \subseteq OrderLeaf
    BY DEF InclusionInv, BatchesOK, Leaf, OrderLeaf
  <1>2. ASSUME NEW leaves, NEW leaf, NEW index, NEW siblings, Shows(leaves, leaf, index, siblings)
        PROVE  Proves(leaves, leaf, index, siblings)
    BY <1>1, <1>2 DEF Shows, Proves
  <1>3. QED
    BY <1>2 DEF InclusionInv, RootOK, ClaimOK, Right, InclusionSound

LEMMA InclusionInit == Init => InclusionInv
  <1> SUFFICES ASSUME Init  PROVE InclusionInv
    OBVIOUS
  <1>1. MaxDepth \in Nat /\ MaxBatches \in Nat
    BY InclusionAssumption
  <1>2. 2^MaxDepth \in Nat
    BY <1>1, PowerOfTwo
  <1>3. BatchesOK
    BY <1>1, <1>2 DEF Init, BatchesOK, Batch
  <1>4. RootOK
    BY DEF Init, RootOK
  <1>5. ClaimOK
    BY DEF Init, ClaimOK, NoClaim
  <1>6. QED
    BY <1>3, <1>4, <1>5 DEF InclusionInv

\* The orders that remain are orders, and no more of them.
LEMMA RemainingFact ==
  ASSUME NEW S, NEW orders \in Seq(S), NEW gone
  PROVE  Remaining(orders, gone) \in Seq(S) /\ Len(Remaining(orders, gone)) <= Len(orders)
  <1> DEFINE N == Len(orders)
             Up(f, d) == IF orders[d] \in gone THEN f[d - 1] ELSE Append(f[d - 1], orders[d])
             Z(f, n) == f = [d \in 0 .. n |-> IF d = 0 THEN <<>> ELSE Up(f, d)]
             X == {n \in Nat : \E f : Z(f, n)}
  <1>0. N \in Nat
    OBVIOUS
  <1>1. 0 \in X
    <2>1. Z([d \in 0 .. 0 |-> <<>>], 0)
      OBVIOUS
    <2>2. QED
      BY <2>1
  <1>2. ASSUME NEW n \in 0 .. N - 1, n \in X  PROVE n + 1 \in X
    <2>1. PICK f : Z(f, n)
      BY <1>2
    <2> DEFINE g == [d \in 0 .. n + 1 |-> IF d <= n THEN f[d] ELSE Up(f, n + 1)]
    <2>2. n \in Nat
      BY <1>0
    <2>3. \A d \in 0 .. n : f[d] = IF d = 0 THEN <<>> ELSE Up(f, d)
      BY <2>1
    <2>4. ASSUME NEW d \in 0 .. n + 1  PROVE g[d] = IF d = 0 THEN <<>> ELSE Up(g, d)
      <3>1. d # 0 => g[d - 1] = f[d - 1]
        BY <2>2
      <3>2. d # 0 => Up(g, d) = Up(f, d)
        BY <3>1
      <3> HIDE DEF Up
      <3>3. CASE d <= n
        <4>1. d \in 0 .. n /\ g[d] = f[d]
          BY <2>2, <3>3
        <4>2. QED
          BY <2>3, <3>2, <4>1
      <3>4. CASE d = n + 1
        <4>1. d # 0 /\ g[d] = Up(f, d)
          BY <2>2, <3>4
        <4>2. QED
          BY <3>2, <4>1
      <3>5. QED
        BY <2>2, <3>3, <3>4
    <2>5. Z(g, n + 1)
      <3> HIDE DEF Up
      <3>1. QED
        BY <2>4
    <2> HIDE DEF g, Z
    <2>6. QED
      BY <2>2, <2>5
  <1> HIDE DEF X
  <1>3. N \in X
    <2>1. N \in 0 .. N
      BY <1>0
    <2>2. QED
      BY ONLY <1>0, <1>1, <1>2, <2>1, Induction
  <1>4. \E f : Z(f, N)
    BY <1>3 DEF X
  <1> DEFINE rest == CHOOSE f : Z(f, N)
  <1>5. Remaining(orders, gone) = rest[N]
    BY DEF Remaining
  <1>6. Z(rest, N)
    <2> HIDE DEF Z
    <2>1. QED
      BY <1>4
  <1> HIDE DEF rest, N
  <1>7. \A d \in 0 .. N : rest[d] = IF d = 0 THEN <<>> ELSE Up(rest, d)
    <2> HIDE DEF Up
    <2>1. QED
      BY <1>6
  <1> DEFINE C == {d \in Nat : d <= N => rest[d] \in Seq(S) /\ Len(rest[d]) <= d}
  <1>8. 0 \in C
    <2>1. rest[0] = <<>>
      BY <1>0, <1>7
    <2>2. <<>> \in Seq(S) /\ Len(<<>>) <= 0 /\ 0 \in Nat
      OBVIOUS
    <2>3. rest[0] \in Seq(S) /\ Len(rest[0]) <= 0
      BY ONLY <2>1, <2>2
    <2>4. QED
      BY ONLY <2>2, <2>3
  <1>9. ASSUME NEW n \in 0 .. N - 1, n \in C  PROVE n + 1 \in C
    <2>1. PICK e \in 1 .. N : e = n + 1 /\ e - 1 = n /\ n \in Nat /\ n + 1 \in Nat /\ n <= N
      BY <1>0
    <2>2. rest[n] \in Seq(S) /\ Len(rest[n]) <= n
      BY <1>9, <2>1
    <2>3. orders[e] \in S
      BY <2>1 DEF N
    <2>4. rest[e] = IF orders[e] \in gone THEN rest[n] ELSE Append(rest[n], orders[e])
      BY <1>0, <1>7, <2>1
    <2>5. rest[e] \in Seq(S) /\ Len(rest[e]) <= e
      BY <2>1, <2>2, <2>3, <2>4
    <2>6. QED
      BY ONLY <2>1, <2>5
  <1> HIDE DEF C
  <1>10. N \in C
    <2>1. N \in 0 .. N
      BY <1>0
    <2>2. QED
      BY ONLY <1>0, <1>8, <1>9, <2>1, Induction
  <1>11. rest[N] \in Seq(S) /\ Len(rest[N]) <= N
    BY <1>0, <1>10 DEF C
  <1>12. QED
    BY ONLY <1>5, <1>11 DEF N

LEMMA SubmitStep ==
  ASSUME InclusionInv, Submit
  PROVE  InclusionInv'
  <1>1. MaxDepth \in Nat
    BY InclusionAssumption
  <1>2. 2^MaxDepth \in Nat
    BY <1>1, PowerOfTwo
  <1>3. BatchesOK'
    <2>1. submitted \in Nat /\ active \in Seq(OrderLeaf) /\ Len(active) < 2^MaxDepth
      BY DEF InclusionInv, BatchesOK, Batch, Submit
    <2>2. PICK c \in {submitted + 1} \cup (Repeated \cap 1 .. submitted) : active' = Append(active, <<c>>)
      BY DEF Submit
    <2>3. submitted' \in Nat /\ <<c>> \in OrderLeaf
      BY <2>1 DEF Submit, OrderLeaf
    <2>4. active' \in Seq(OrderLeaf) /\ Len(active') <= 2^MaxDepth
      BY <1>2, <2>1, <2>2, <2>3
    <2>5. QED
      BY <2>3, <2>4 DEF InclusionInv, BatchesOK, Batch, Submit
  <1>4. QED
    BY <1>3 DEF InclusionInv, RootOK, ClaimOK, Submit

LEMMA RunBatchStep ==
  ASSUME InclusionInv, RunBatch
  PROVE  InclusionInv'
  <1>1. MaxBatches \in Nat /\ MaxDepth \in Nat
    BY InclusionAssumption
  <1>2. Batch(active) /\ batches \in Seq(Seq(OrderLeaf)) /\ batches' = Append(batches, active)
    BY DEF InclusionInv, BatchesOK, RunBatch
  <1>3. Len(batches) \in Nat /\ Len(batches') = Len(batches) + 1 /\ batches'[Len(batches')] = active
        /\ \A b \in 1 .. Len(batches) : batches'[b] = batches[b]
    BY <1>2 DEF Batch
  <1>4. BatchesOK'
    <2>1. PICK gone : active' = Remaining(active, gone)
      BY DEF RunBatch
    <2>2. active \in Seq(OrderLeaf) /\ Len(active) <= 2^MaxDepth /\ Len(active) \in Nat
      BY <1>2 DEF Batch
    <2>3. active' \in Seq(OrderLeaf) /\ Len(active') <= Len(active)
      BY <2>1, <2>2, RemainingFact
    <2>4. Batch(active')
      <3>1. 2^MaxDepth \in Nat /\ Len(active') \in Nat
        BY <1>1, <2>3, PowerOfTwo
      <3>2. Len(active') <= 2^MaxDepth
        BY ONLY <2>2, <2>3, <3>1
      <3>3. QED
        BY <2>3, <3>2 DEF Batch
    <2>5. batches' \in Seq(Seq(OrderLeaf)) /\ Len(batches') <= MaxBatches
      BY <1>1, <1>2, <1>3 DEF Batch, RunBatch
    <2>6. ASSUME NEW b \in DOMAIN batches'  PROVE Batch(batches'[b])
      <3>1. b \in 1 .. Len(batches) + 1
        BY <1>3, <2>5
      <3>2. CASE b \in 1 .. Len(batches)
        BY <1>2, <1>3, <3>2 DEF InclusionInv, BatchesOK
      <3>3. CASE b = Len(batches')
        BY <1>2, <1>3, <3>3
      <3>4. QED
        BY <1>3, <3>1, <3>2, <3>3
    <2>7. submitted' \in Nat
      BY DEF InclusionInv, BatchesOK, RunBatch
    <2>8. QED
      BY <2>4, <2>5, <2>6, <2>7 DEF BatchesOK, Batch
  <1>5. RootOK'
    <2>1. root' = ComputeInclusionRoot(active)
      BY <1>2, SameRoot DEF RunBatch, Batch
    <2>2. QED
      BY <1>3, <2>1 DEF RootOK, Last
  <1>6. ClaimOK'
    <2>1. claim' = claim /\ claim.at = 0
      BY DEF RunBatch, Decided
    <2>2. ASSUME claim.from # 0  PROVE Computed(claim, batches')
      <3>1. PICK b \in 1 .. Len(batches) : \E i \in 1 .. Len(batches[b]) : IsPath(claim, batches, b, i)
        BY <2>1, <2>2 DEF InclusionInv, ClaimOK, Computed
      <3>2. PICK i \in 1 .. Len(batches[b]) : IsPath(claim, batches, b, i)
        BY <3>1
      <3>3. b \in 1 .. Len(batches') /\ batches'[b] = batches[b]
        BY <1>3
      <3>4. IsPath(claim, batches', b, i)
        BY <3>2, <3>3 DEF IsPath
      <3>5. QED
        BY <3>3, <3>4 DEF Computed
    <2>3. QED
      BY <2>1, <2>2 DEF ClaimOK
  <1>7. QED
    BY <1>4, <1>5, <1>6 DEF InclusionInv

LEMMA ComputeStep ==
  ASSUME InclusionInv, NEW b \in DOMAIN batches, Compute(b)
  PROVE  InclusionInv'
  <1>1. b \in 1 .. Len(batches) /\ b # 0
    BY DEF InclusionInv, BatchesOK
  <1>2. PICK i \in 1 .. Len(batches[b]) :
           claim' = [NoClaim EXCEPT !.leaf = batches[b][i], !.index = i - 1, !.from = b,
                                    !.siblings = ComputeInclusionPath(batches[b], i - 1)]
    BY DEF Compute
  <1>3. IsPath(claim', batches, b, i) /\ claim'.at = 0
    BY <1>2 DEF NoClaim, IsPath
  <1>4. Computed(claim', batches)
    BY <1>1, <1>3 DEF Computed
  <1>5. ClaimOK'
    BY <1>3, <1>4 DEF ClaimOK, Compute
  <1>6. QED
    BY <1>5 DEF InclusionInv, BatchesOK, RootOK, Compute

LEMMA VerifyStep ==
  ASSUME InclusionInv, Verify
  PROVE  InclusionInv'
  <1>1. claim.at = 0 /\ claim.from # 0 /\ BatchesOK /\ RootOK
    BY DEF Verify, InclusionInv
  <1>2. PICK b \in 1 .. Len(batches) : \E i \in 1 .. Len(batches[b]) : IsPath(claim, batches, b, i)
    BY <1>1 DEF InclusionInv, ClaimOK, Computed
  <1>3. PICK i \in 1 .. Len(batches[b]) : IsPath(claim, batches, b, i)
    BY <1>2
  <1> DEFINE n == Len(batches)
             ok == VerifyInclusionPath(claim.leaf, claim.index, claim.siblings, root)
  <1>4. claim' = [claim EXCEPT !.at = n, !.ok = ok] /\ batches' = batches /\ root' = root
    BY DEF Verify
  <1>5. n \in 1 .. n /\ n \in DOMAIN batches /\ b \in DOMAIN batches /\ batches # <<>>
    BY <1>1, <1>2 DEF BatchesOK
  <1>6. Batch(batches[n]) /\ Batch(batches[b]) /\ root = ComputeInclusionRoot(batches[n])
    BY <1>1, <1>5 DEF BatchesOK, RootOK, Last
  <1>7. /\ claim.from = b /\ claim.leaf = batches[b][i] /\ claim.index = i - 1
        /\ claim.siblings = ComputeInclusionPath(batches[b], i - 1)
    BY <1>3 DEF IsPath
  <1>8. claim.index \in Nat
    BY <1>6, <1>7 DEF Batch
  <1>9. \E W : claim.siblings \in Seq(W)
    <2>1. Fits(Len(batches[b]))
      BY <1>6 DEF Batch, Fits
    <2>2. \E W : ComputeInclusionPath(batches[b], claim.index) \in Seq(W)
      BY <1>8, <2>1, PathSeq
    <2>3. QED
      BY <1>7, <2>2
  <1>10. ok => Shows(batches[n], claim.leaf, claim.index, claim.siblings)
    BY <1>6, <1>8, <1>9, VerifiedShows DEF Batch
  <1>11. b = n => ok
    <2>1. b = n => VerifyInclusionPath(batches[n][i], i - 1, ComputeInclusionPath(batches[n], i - 1),
                                       ComputeInclusionRoot(batches[n]))
      BY <1>6, PathVerifies DEF Batch
    <2>2. QED
      BY <1>6, <1>7, <2>1
  <1> HIDE DEF n, ok
  <1>12. /\ claim'.from = b /\ claim'.leaf = claim.leaf /\ claim'.index = claim.index
         /\ claim'.siblings = claim.siblings
    BY <1>4, <1>7
  <1>13. claim'.at = n /\ claim'.ok = ok
    BY <1>4
  <1>14. ClaimOK'
    BY <1>1, <1>4, <1>5, <1>7, <1>10, <1>11, <1>12, <1>13 DEF ClaimOK, Right, n
  <1>15. QED
    BY <1>1, <1>14 DEF InclusionInv, BatchesOK, RootOK, Verify

LEMMA ClaimedStep ==
  ASSUME InclusionInv, Claimed
  PROVE  InclusionInv'
  <1>1. BatchesOK /\ RootOK /\ batches # <<>> /\ MaxBatches \in Nat
    BY InclusionAssumption DEF Claimed, InclusionInv
  <1> DEFINE n == Len(batches)
             W == Words
  <1>2. PICK l \in W, i \in 0 .. 2^MaxDepth - 1, k \in 0 .. MaxDepth :
           \E s \in [1 .. k -> W] :
              claim' = [leaf |-> l, index |-> i, siblings |-> s, from |-> MaxBatches + 1,
                        at |-> n, ok |-> VerifyInclusionPath(l, i, s, root)]
    BY DEF Claimed
  <1>3. PICK s \in [1 .. k -> W] :
           claim' = [leaf |-> l, index |-> i, siblings |-> s, from |-> MaxBatches + 1,
                     at |-> n, ok |-> VerifyInclusionPath(l, i, s, root)]
    BY <1>2
  <1> HIDE DEF W
  <1>4. n \in 1 .. n /\ n \in DOMAIN batches /\ n <= MaxBatches /\ n \in Nat
    BY <1>1 DEF BatchesOK
  <1>5. Batch(batches[n]) /\ root = ComputeInclusionRoot(batches[n])
    BY <1>1, <1>4 DEF BatchesOK, RootOK, Last
  <1>6. i \in Nat /\ k \in Nat
    <2>1. MaxDepth \in Nat
      BY InclusionAssumption
    <2>2. 2^MaxDepth \in Nat
      BY <2>1, PowerOfTwo
    <2>3. QED
      BY <1>2, <2>1, <2>2
  <1>7. s \in Seq(W)
    BY <1>3, <1>6
  <1>8. VerifyInclusionPath(l, i, s, root) => Shows(batches[n], l, i, s)
    BY <1>5, <1>6, <1>7, VerifiedShows DEF Batch
  <1> HIDE DEF n
  <1>9. /\ claim'.leaf = l /\ claim'.index = i /\ claim'.siblings = s /\ claim'.at = n
        /\ claim'.from = MaxBatches + 1 /\ claim'.ok = VerifyInclusionPath(l, i, s, root)
    BY <1>3
  <1>10. claim'.from # 0 /\ claim'.from # claim'.at /\ claim'.at # 0
    BY <1>1, <1>4, <1>9
  <1>11. ClaimOK'
    <2>1. batches' = batches
      BY DEF Claimed
    <2>2. QED
      BY <1>4, <1>8, <1>9, <1>10, <2>1 DEF ClaimOK, Right, n
  <1>12. QED
    BY <1>1, <1>11 DEF InclusionInv, BatchesOK, RootOK, Claimed

LEMMA InclusionNext == InclusionInv /\ [Next]_vars => InclusionInv'
  <1> SUFFICES ASSUME InclusionInv, [Next]_vars  PROVE InclusionInv'
    OBVIOUS
  <1>1. CASE Submit
    BY <1>1, SubmitStep
  <1>2. CASE RunBatch
    BY <1>2, RunBatchStep
  <1>3. CASE Verify
    BY <1>3, VerifyStep
  <1>4. CASE Claimed
    BY <1>4, ClaimedStep
  <1>5. CASE \E b \in DOMAIN batches : Compute(b)
    BY <1>5, ComputeStep
  <1>6. CASE UNCHANGED vars
    BY <1>6 DEF vars, InclusionInv, BatchesOK, RootOK, ClaimOK
  <1>7. QED
    BY <1>1, <1>2, <1>3, <1>4, <1>5, <1>6 DEF Next

(***************************************************************************)
(* The roots that merkle_root_sha256 and computeInclusionRoot compute are  *)
(* the same.  A claim that verifyInclusionPath accepts, whatever the word, *)
(* index and siblings, is of the word at the claimed place and level of    *)
(* the batch's tree: of an order that took part when the path has the      *)
(* tree's depth, and of no order with any other path.  The path that       *)
(* computeInclusionPath makes for that batch is accepted.                  *)
(***************************************************************************)
THEOREM InclusionSoundCorrect == Spec => []InclusionSound
  <1>1. Spec => []InclusionInv
    BY InclusionInit, InclusionNext, PTL DEF Spec
  <1>2. QED
    BY <1>1, SoundFollows, PTL
=============================================================================
