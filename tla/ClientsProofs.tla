---------------------------- MODULE ClientsProofs ---------------------------
(***************************************************************************)
(* The tree algorithms compute the root of the leaves, for every depth,    *)
(* and the clients that deposit and withdraw get what they need from them, *)
(* for any number of clients, transactions and resets and any ring.        *)
(***************************************************************************)
EXTENDS NoteClients, MathProofs, SequenceTheorems

-----------------------------------------------------------------------------
(***************************************************************************)
(* The recursive functions of the algorithms exist: each satisfies its own *)
(* equation.                                                               *)
(***************************************************************************)

LEMMA DepthFact == Depth \in Nat /\ Depth >= 1 /\ Levels = 0 .. Depth - 1
  BY DepthAssumption DEF Levels

\* compute_zero_subtree_roots
LEMMA ZerosFact ==
  /\ Zeros[0] = ZeroWord
  /\ \A d \in Levels : Zeros[d + 1] = poseidon2(Zeros[d], Zeros[d])
  <1> DEFINE Z(f, n) == f = [d \in 0 .. n |-> IF d = 0 THEN ZeroWord ELSE poseidon2(f[d - 1], f[d - 1])]
             S == {n \in Nat : \E f : Z(f, n)}
  <1>1. 0 \in S
    <2>1. Z([d \in 0 .. 0 |-> ZeroWord], 0)
      OBVIOUS
    <2>2. QED
      BY <2>1
  <1>2. ASSUME NEW n \in 0 .. Depth - 1, n \in S  PROVE n + 1 \in S
    <2>1. PICK f : Z(f, n)
      BY <1>2
    <2> DEFINE g == [d \in 0 .. n + 1 |-> IF d <= n THEN f[d] ELSE poseidon2(f[n], f[n])]
    <2>2. n \in Nat
      BY DepthFact
    <2>3. \A d \in 0 .. n : f[d] = IF d = 0 THEN ZeroWord ELSE poseidon2(f[d - 1], f[d - 1])
      BY <2>1
    <2>4. ASSUME NEW d \in 0 .. n + 1
          PROVE  g[d] = IF d = 0 THEN ZeroWord ELSE poseidon2(g[d - 1], g[d - 1])
      <3>1. CASE d <= n
        <4>1. d \in 0 .. n /\ g[d] = f[d] /\ (d # 0 => g[d - 1] = f[d - 1])
          BY <2>2, <3>1
        <4>2. QED
          BY <2>3, <4>1
      <3>2. CASE d = n + 1
        BY <2>2, <3>2
      <3>3. QED
        BY <2>2, <3>1, <3>2
    <2>5. g = [d \in 0 .. n + 1 |-> IF d = 0 THEN ZeroWord ELSE poseidon2(g[d - 1], g[d - 1])]
      BY <2>4
    <2>6. Z(g, n + 1)
      BY <2>5
    <2> HIDE DEF g, Z
    <2>7. QED
      BY <2>2, <2>6
  <1> HIDE DEF S
  <1>3. Depth \in S
    BY <1>1, <1>2, DepthFact, Induction
  <1>4. \E f : Z(f, Depth)
    BY <1>3 DEF S
  <1>5. Z(Zeros, Depth)
    BY <1>4 DEF Zeros
  <1>6. \A d \in 0 .. Depth : Zeros[d] = IF d = 0 THEN ZeroWord ELSE poseidon2(Zeros[d - 1], Zeros[d - 1])
    BY <1>5
  <1>7. 0 \in 0 .. Depth
    BY DepthFact
  <1>8. ASSUME NEW d \in Levels  PROVE Zeros[d + 1] = poseidon2(Zeros[d], Zeros[d])
    <2>1. PICK e \in 0 .. Depth : e = d + 1 /\ e # 0 /\ e - 1 = d
      BY DepthFact
    <2>2. Zeros[e] = poseidon2(Zeros[e - 1], Zeros[e - 1])
      BY <1>6, <2>1
    <2>3. QED
      BY <2>1, <2>2
  <1>9. QED
    BY <1>6, <1>7, <1>8

\* The reference nodes: Ref(leaves, d, i) is the i-th node of level d.
Ref(leaves, d, i) == ReferenceNodes(leaves)[d][i]

LEMMA RefFact ==
  ASSUME NEW leaves
  PROVE  /\ \A i \in Nat : Ref(leaves, 0, i) = IF i < Len(leaves) THEN leaves[i + 1] ELSE ZeroWord
         /\ \A d \in Levels, i \in Nat :
               Ref(leaves, d + 1, i) = poseidon2(Ref(leaves, d, 2 * i), Ref(leaves, d, 2 * i + 1))
  <1> DEFINE Row(f, d) == [i \in Nat |->
                             IF d = 0 THEN IF i < Len(leaves) THEN leaves[i + 1] ELSE ZeroWord
                                      ELSE poseidon2(f[d - 1][2 * i], f[d - 1][2 * i + 1])]
             Z(f, n) == f = [d \in 0 .. n |-> Row(f, d)]
             S == {n \in Nat : \E f : Z(f, n)}
  <1>1. 0 \in S
    <2> DEFINE f == [d \in 0 .. 0 |-> [i \in Nat |-> IF i < Len(leaves) THEN leaves[i + 1] ELSE ZeroWord]]
    <2>1. Z(f, 0)
      OBVIOUS
    <2>2. QED
      BY <2>1
  <1>2. ASSUME NEW n \in 0 .. Depth - 1, n \in S  PROVE n + 1 \in S
    <2>1. PICK f : Z(f, n)
      BY <1>2
    <2> DEFINE g == [d \in 0 .. n + 1 |-> IF d <= n THEN f[d] ELSE Row(f, n + 1)]
    <2>2. n \in Nat
      BY DepthFact
    <2>3. \A d \in 0 .. n : f[d] = Row(f, d)
      BY <2>1
    <2>4. ASSUME NEW d \in 0 .. n + 1  PROVE g[d] = Row(g, d)
      <3>1. d # 0 => g[d - 1] = f[d - 1]
        BY <2>2
      <3>2. Row(g, d) = Row(f, d)
        BY <3>1
      <3>3. g[d] = Row(f, d)
        <4> HIDE DEF Row
        <4>1. CASE d <= n
          <5>1. d \in 0 .. n /\ g[d] = f[d]
            BY <2>2, <4>1
          <5>2. QED
            BY <2>3, <5>1
        <4>2. CASE d = n + 1
          BY <2>2, <4>2
        <4>3. QED
          BY <2>2, <4>1, <4>2
      <3>4. QED
        BY <3>2, <3>3
    <2>5. g = [d \in 0 .. n + 1 |-> Row(g, d)]
      <3> HIDE DEF Row
      <3>1. QED
        BY <2>4
    <2>6. Z(g, n + 1)
      BY <2>5
    <2> HIDE DEF g, Z
    <2>7. QED
      BY <2>2, <2>6
  <1> HIDE DEF S
  <1>3. Depth \in S
    BY <1>1, <1>2, DepthFact, Induction
  <1>4. \E f : Z(f, Depth)
    BY <1>3 DEF S
  <1>5. Z(ReferenceNodes(leaves), Depth)
    BY <1>4 DEF ReferenceNodes
  <1>6. ASSUME NEW d \in 0 .. Depth, NEW i \in Nat
        PROVE  Ref(leaves, d, i) =
                 IF d = 0 THEN IF i < Len(leaves) THEN leaves[i + 1] ELSE ZeroWord
                          ELSE poseidon2(Ref(leaves, d - 1, 2 * i), Ref(leaves, d - 1, 2 * i + 1))
    <2>1. ReferenceNodes(leaves)[d] = Row(ReferenceNodes(leaves), d)
      <3> HIDE DEF Row
      <3>1. QED
        BY <1>5
    <2>2. ReferenceNodes(leaves)[d][i] = Row(ReferenceNodes(leaves), d)[i]
      BY <2>1
    <2>3. QED
      BY <2>2 DEF Ref
  <1>7. 0 \in 0 .. Depth
    BY DepthFact
  <1>8. ASSUME NEW d \in Levels, NEW i \in Nat
        PROVE  Ref(leaves, d + 1, i) = poseidon2(Ref(leaves, d, 2 * i), Ref(leaves, d, 2 * i + 1))
    <2>1. PICK e \in 0 .. Depth : e = d + 1 /\ e # 0 /\ e - 1 = d
      BY DepthFact
    <2>2. Ref(leaves, e, i) = poseidon2(Ref(leaves, e - 1, 2 * i), Ref(leaves, e - 1, 2 * i + 1))
      BY <1>6, <2>1
    <2>3. QED
      BY <2>1, <2>2
  <1>9. QED
    BY <1>6, <1>7, <1>8

-----------------------------------------------------------------------------
\* The bits of an index are the parities of the nodes on its path.

LEMMA ShiftFact ==
  ASSUME NEW i \in Nat
  PROVE  /\ Sh(i, 0) = i
         /\ \A d \in Nat : /\ Sh(i, d) \in Nat /\ Sh(i, d + 1) = Sh(i, d) \div 2
                           /\ Bit(i, d) = Sh(i, d) % 2 /\ Bit(i, d) \in {0, 1}
  <1>1. \A d \in Nat : Bit(i, d) = Sh(i, d) % 2
    BY DEF Sh, Bit
  <1>2. QED
    BY <1>1, ShiftStep

\* The path of the next leaf is the same or the next node of each level.
LEMMA ShiftNext ==
  ASSUME NEW i \in Nat, NEW d \in Nat
  PROVE  Sh(i + 1, d) = Sh(i, d) \/ Sh(i + 1, d) = Sh(i, d) + 1
  <1> DEFINE S == {n \in Nat : Sh(i + 1, n) = Sh(i, n) \/ Sh(i + 1, n) = Sh(i, n) + 1}
  <1>1. i + 1 \in Nat
    OBVIOUS
  <1>2. 0 \in S
    BY <1>1, ShiftFact
  <1>3. ASSUME NEW n \in 0 .. d - 1, n \in S  PROVE n + 1 \in S
    <2>1. n \in Nat /\ n + 1 \in Nat
      OBVIOUS
    <2>2. /\ Sh(i, n) \in Nat /\ Sh(i, n + 1) = Sh(i, n) \div 2
          /\ Sh(i + 1, n) \in Nat /\ Sh(i + 1, n + 1) = Sh(i + 1, n) \div 2
      BY <1>1, <2>1, ShiftFact
    <2>3. QED
      BY <1>3, <2>1, <2>2
  <1> HIDE DEF S
  <1>4. d \in S
    BY <1>2, <1>3, Induction
  <1>5. QED
    BY <1>4 DEF S

-----------------------------------------------------------------------------
(***************************************************************************)
(* The reference nodes: empty subtrees, and subtrees that two sequences of *)
(* leaves have in common.                                                  *)
(***************************************************************************)

LEMMA RefZero ==
  ASSUME NEW leaves, Len(leaves) \in Nat, NEW d \in 0 .. Depth, NEW i \in Nat,
         Len(leaves) = 0 \/ i > Sh(Len(leaves) - 1, d)
  PROVE  Ref(leaves, d, i) = Zeros[d]
  <1> DEFINE Empty(n, j) == Len(leaves) = 0 \/ j > Sh(Len(leaves) - 1, n)
             S == {n \in Nat : \A j \in Nat : Empty(n, j) => Ref(leaves, n, j) = Zeros[n]}
  <1>1. 0 \in S
    <2>1. ASSUME NEW j \in Nat, Empty(0, j)  PROVE ~(j < Len(leaves))
      <3>1. CASE Len(leaves) = 0
        BY <3>1
      <3>2. CASE Len(leaves) # 0
        <4>1. Len(leaves) - 1 \in Nat
          BY <3>2
        <4>2. Sh(Len(leaves) - 1, 0) = Len(leaves) - 1
          BY <4>1, ShiftFact
        <4>3. QED
          BY <2>1, <3>2, <4>2
      <3>3. QED
        BY <3>1, <3>2
    <2>2. QED
      BY <2>1, RefFact, ZerosFact
  <1>2. ASSUME NEW n \in 0 .. Depth - 1, n \in S  PROVE n + 1 \in S
    <2>1. n \in Levels /\ n \in Nat
      BY DepthFact
    <2>2. ASSUME NEW j \in Nat, Empty(n + 1, j)  PROVE Ref(leaves, n + 1, j) = Zeros[n + 1]
      <3>1. Empty(n, 2 * j) /\ Empty(n, 2 * j + 1)
        <4>1. CASE Len(leaves) # 0
          <5>1. Len(leaves) - 1 \in Nat
            BY <4>1
          <5>2. /\ Sh(Len(leaves) - 1, n) \in Nat
                /\ Sh(Len(leaves) - 1, n + 1) = Sh(Len(leaves) - 1, n) \div 2
            BY <2>1, <5>1, ShiftFact
          <5>3. QED
            BY <2>2, <4>1, <5>2
        <4>2. QED
          BY <4>1
      <3>2. 2 * j \in Nat /\ 2 * j + 1 \in Nat
        OBVIOUS
      <3>3. Ref(leaves, n, 2 * j) = Zeros[n] /\ Ref(leaves, n, 2 * j + 1) = Zeros[n]
        <4> HIDE DEF Empty
        <4>1. QED
          BY <1>2, <3>1, <3>2
      <3>4. QED
        BY <2>1, <3>3, RefFact, ZerosFact
    <2> HIDE DEF Empty
    <2>3. QED
      BY <2>1, <2>2
  <1> HIDE DEF S
  <1>3. d \in S
    BY <1>1, <1>2, DepthFact, Induction
  <1>4. QED
    BY <1>3 DEF S

\* Two sequences of leaves that agree up to n have the nodes left of n's path
\* in common.
Agree(k, l, n) ==
    /\ Len(k) \in Nat /\ Len(l) \in Nat /\ n <= Len(k) /\ n <= Len(l)
    /\ \A j \in 1 .. n : k[j] = l[j]
LEMMA RefSame ==
  ASSUME NEW k, NEW l, NEW n \in Nat, Agree(k, l, n),
         NEW d \in 0 .. Depth, NEW i \in Nat, i < Sh(n, d)
  PROVE  Ref(k, d, i) = Ref(l, d, i)
  <1> DEFINE S == {m \in Nat : \A j \in Nat : j < Sh(n, m) => Ref(k, m, j) = Ref(l, m, j)}
  <1>1. 0 \in S
    <2>1. ASSUME NEW j \in Nat, j < Sh(n, 0)  PROVE Ref(k, 0, j) = Ref(l, 0, j)
      <3>1. j < n
        BY <2>1, ShiftFact
      <3>2. j + 1 \in 1 .. n /\ j < Len(k) /\ j < Len(l)
        BY <3>1 DEF Agree
      <3>3. QED
        BY <3>2, RefFact DEF Agree
    <2>2. QED
      BY <2>1
  <1>2. ASSUME NEW m \in 0 .. Depth - 1, m \in S  PROVE m + 1 \in S
    <2>1. m \in Levels /\ m \in Nat
      BY DepthFact
    <2>2. ASSUME NEW j \in Nat, j < Sh(n, m + 1)  PROVE Ref(k, m + 1, j) = Ref(l, m + 1, j)
      <3>1. Sh(n, m) \in Nat /\ Sh(n, m + 1) = Sh(n, m) \div 2
        BY <2>1, ShiftFact
      <3>2. 2 * j \in Nat /\ 2 * j + 1 \in Nat /\ 2 * j < Sh(n, m) /\ 2 * j + 1 < Sh(n, m)
        BY <2>2, <3>1
      <3>3. Ref(k, m, 2 * j) = Ref(l, m, 2 * j) /\ Ref(k, m, 2 * j + 1) = Ref(l, m, 2 * j + 1)
        BY <1>2, <3>2
      <3>4. /\ Ref(k, m + 1, j) = poseidon2(Ref(k, m, 2 * j), Ref(k, m, 2 * j + 1))
            /\ Ref(l, m + 1, j) = poseidon2(Ref(l, m, 2 * j), Ref(l, m, 2 * j + 1))
        BY <2>1, RefFact
      <3>5. QED
        BY <3>3, <3>4
    <2>3. QED
      BY <2>1, <2>2
  <1> HIDE DEF S
  <1>3. d \in S
    BY <1>1, <1>2, DepthFact, Induction
  <1>4. QED
    BY <1>3 DEF S

-----------------------------------------------------------------------------
(***************************************************************************)
(* append_leaf.                                                            *)
(***************************************************************************)

\* A climb from a leaf: at each level the node and a sibling are combined.
Climb(leaf, siblings, indices) ==
    CHOOSE up : up = [d \in 0 .. Depth |->
        IF d = 0 THEN leaf
        ELSE IF indices[d - 1] = 0 THEN poseidon2(up[d - 1], siblings[d - 1])
                                   ELSE poseidon2(siblings[d - 1], up[d - 1])]

LEMMA ClimbFact ==
  ASSUME NEW leaf, NEW siblings, NEW indices
  PROVE  LET up == Climb(leaf, siblings, indices)
         IN  /\ up[0] = leaf
             /\ \A d \in Levels :
                  up[d + 1] = IF indices[d] = 0 THEN poseidon2(up[d], siblings[d])
                                                ELSE poseidon2(siblings[d], up[d])
  <1> DEFINE Up(f, d) == IF indices[d] = 0 THEN poseidon2(f[d], siblings[d])
                                           ELSE poseidon2(siblings[d], f[d])
             Z(f, n) == f = [d \in 0 .. n |-> IF d = 0 THEN leaf ELSE Up(f, d - 1)]
             S == {n \in Nat : \E f : Z(f, n)}
  <1>1. 0 \in S
    <2>1. Z([d \in 0 .. 0 |-> leaf], 0)
      OBVIOUS
    <2>2. QED
      BY <2>1
  <1>2. ASSUME NEW n \in 0 .. Depth - 1, n \in S  PROVE n + 1 \in S
    <2>1. PICK f : Z(f, n)
      BY <1>2
    <2> DEFINE g == [d \in 0 .. n + 1 |-> IF d <= n THEN f[d] ELSE Up(f, n)]
    <2>2. n \in Nat
      BY DepthFact
    <2>3. \A d \in 0 .. n : f[d] = IF d = 0 THEN leaf ELSE Up(f, d - 1)
      BY <2>1
    <2>4. ASSUME NEW d \in 0 .. n + 1  PROVE g[d] = IF d = 0 THEN leaf ELSE Up(g, d - 1)
      <3>1. d # 0 => g[d - 1] = f[d - 1]
        BY <2>2
      <3>2. d # 0 => Up(g, d - 1) = Up(f, d - 1)
        BY <3>1
      <3> HIDE DEF Up
      <3>3. CASE d <= n
        <4>1. d \in 0 .. n /\ g[d] = f[d]
          BY <2>2, <3>3
        <4>2. QED
          BY <2>3, <3>2, <4>1
      <3>4. CASE d = n + 1
        <4>1. d # 0 /\ d - 1 = n /\ g[d] = Up(f, n)
          BY <2>2, <3>4
        <4>2. QED
          BY <3>2, <4>1
      <3>5. QED
        BY <2>2, <3>3, <3>4
    <2>5. Z(g, n + 1)
      <3> HIDE DEF Up
      <3>1. QED
        BY <2>4
    <2> HIDE DEF g, Z
    <2>6. QED
      BY <2>2, <2>5
  <1> HIDE DEF S
  <1>3. Depth \in S
    BY <1>1, <1>2, DepthFact, Induction
  <1>4. \E f : Z(f, Depth)
    BY <1>3 DEF S
  <1> DEFINE up == Climb(leaf, siblings, indices)
  <1>5. Z(up, Depth)
    BY <1>4 DEF Climb
  <1> HIDE DEF up
  <1>6. \A d \in 0 .. Depth : up[d] = IF d = 0 THEN leaf ELSE Up(up, d - 1)
    <2> HIDE DEF Up
    <2>1. QED
      BY <1>5
  <1>7. up[0] = leaf
    BY <1>6, DepthFact
  <1>8. ASSUME NEW d \in Levels  PROVE up[d + 1] = Up(up, d)
    <2>1. PICK e \in 0 .. Depth : e = d + 1 /\ e # 0 /\ e - 1 = d
      BY DepthFact
    <2>2. up[e] = Up(up, e - 1)
      BY <1>6, <2>1
    <2> HIDE DEF Up
    <2>3. QED
      BY <2>1, <2>2
  <1>9. QED
    BY <1>7, <1>8 DEF up

LEMMA VerifiesClimb ==
  ASSUME NEW w, NEW leaf
  PROVE  Verifies(w, leaf) <=> Climb(leaf, w.siblings, w.indices)[Depth] = w.root
  BY DEF Verifies, Climb

\* The loop of append_leaf is a climb with the witness that a client derives
\* from the right path before the call.
LEMMA NodesClimb ==
  ASSUME NEW leaf, NEW i \in Nat, NEW path
  PROVE  LET w == WitnessFromPriorRightPath(leaf, i, path)
             up == Climb(leaf, w.siblings, w.indices)
         IN  /\ Nodes(leaf, i, path)[0] = leaf
             /\ \A d \in Levels : Nodes(leaf, i, path)[d + 1] = Combined(i, d, Nodes(leaf, i, path)[d], path)
             /\ up[Depth] = Nodes(leaf, i, path)[Depth]
  <1> DEFINE w == WitnessFromPriorRightPath(leaf, i, path)
             up == Climb(leaf, w.siblings, w.indices)
             N(f) == f = [d \in 0 .. Depth |-> IF d = 0 THEN leaf ELSE Combined(i, d - 1, f[d - 1], path)]
             g == [d \in 0 .. Depth |-> up[d]]
             nodes == Nodes(leaf, i, path)
             S == {n \in Nat : up[n] = nodes[n]}
  <1>1. up[0] = leaf /\ \A d \in Levels : up[d + 1] = Combined(i, d, up[d], path)
    <2>1. ASSUME NEW d \in Levels  PROVE up[d + 1] = Combined(i, d, up[d], path)
      <3>1. /\ w.indices[d] = Bit(i, d)
            /\ w.siblings[d] = IF Bit(i, d) = 0 THEN Zeros[d] ELSE path[d]
        BY DEF WitnessFromPriorRightPath
      <3>2. Bit(i, d) \in {0, 1}
        BY DepthFact, ShiftFact
      <3>3. up[d + 1] = IF w.indices[d] = 0 THEN poseidon2(up[d], w.siblings[d])
                                            ELSE poseidon2(w.siblings[d], up[d])
        BY ClimbFact
      <3> HIDE DEF up, w
      <3>4. QED
        BY <3>1, <3>2, <3>3 DEF Combined
    <2>2. up[0] = leaf
      BY ClimbFact
    <2>3. QED
      BY <2>1, <2>2
  <1> HIDE DEF up, w
  <1>2. N(g)
    <2>1. ASSUME NEW d \in 0 .. Depth  PROVE g[d] = IF d = 0 THEN leaf ELSE Combined(i, d - 1, g[d - 1], path)
      <3>1. CASE d # 0
        <4> DEFINE e == d - 1
        <4>1. e \in Levels /\ d = e + 1 /\ g[e] = up[e]
          BY <3>1, DepthFact
        <4>2. g[d] = up[d]
          OBVIOUS
        <4> HIDE DEF e, g
        <4>3. g[d] = Combined(i, e, g[e], path)
          BY <1>1, <4>1, <4>2
        <4>4. QED
          BY <3>1, <4>3 DEF e
      <3>2. QED
        BY <1>1, <3>1
    <2>2. QED
      BY <2>1
  <1>3. N(nodes)
    <2>1. \E f : N(f)
      BY <1>2
    <2>2. QED
      BY <2>1 DEF Nodes
  <1> HIDE DEF g, nodes
  <1>4. nodes[0] = leaf /\ \A d \in Levels : nodes[d + 1] = Combined(i, d, nodes[d], path)
    <2>1. \A d \in 0 .. Depth : nodes[d] = IF d = 0 THEN leaf ELSE Combined(i, d - 1, nodes[d - 1], path)
      BY <1>3
    <2>2. ASSUME NEW d \in Levels  PROVE nodes[d + 1] = Combined(i, d, nodes[d], path)
      <3>1. PICK e \in 0 .. Depth : e = d + 1 /\ e # 0 /\ e - 1 = d
        BY DepthFact
      <3>2. nodes[e] = Combined(i, e - 1, nodes[e - 1], path)
        BY <2>1, <3>1
      <3>3. QED
        BY <3>1, <3>2
    <2>3. QED
      BY <2>1, <2>2, DepthFact
  <1>5. 0 \in S
    BY <1>1, <1>4
  <1>6. ASSUME NEW n \in 0 .. Depth - 1, n \in S  PROVE n + 1 \in S
    <2>1. n \in Levels /\ n + 1 \in Nat
      BY DepthFact
    <2>2. QED
      BY <1>1, <1>4, <1>6, <2>1
  <1> HIDE DEF S
  <1>7. Depth \in S
    BY <1>5, <1>6, DepthFact, Induction
  <1>8. QED
    BY <1>4, <1>7 DEF S, up, w, nodes

\* A client's witness from the right path always leads from its leaf to the
\* root it computes: what is in question is whether the vault knows that root.
LEMMA PriorPathVerifies ==
  ASSUME NEW leaf, NEW i \in Nat, NEW path
  PROVE  Verifies(WitnessFromPriorRightPath(leaf, i, path), leaf)
  <1> DEFINE w == WitnessFromPriorRightPath(leaf, i, path)
  <1>1. w.root = Nodes(leaf, i, path)[Depth]
    BY DEF WitnessFromPriorRightPath, NewRoot
  <1>2. Climb(leaf, w.siblings, w.indices)[Depth] = Nodes(leaf, i, path)[Depth]
    BY NodesClimb
  <1> HIDE DEF w
  <1>3. Verifies(w, leaf)
    BY <1>1, <1>2, VerifiesClimb
  <1>4. QED
    BY <1>3 DEF w

\* What right_path holds: where the path of the next leaf is a right child, the
\* full subtree to its left.
PathOf(leaves, path) ==
    \A d \in Levels : Bit(Len(leaves), d) = 1 => path[d] = Ref(leaves, d, Sh(Len(leaves), d) - 1)

\* The nodes that append_leaf computes are those of the path of the new leaf.
LEMMA NodesRef ==
  ASSUME NEW S, NEW leaves \in Seq(S), NEW x \in S, NEW path, PathOf(leaves, path),
         NEW d \in 0 .. Depth
  PROVE  Nodes(x, Len(leaves), path)[d] = Ref(Append(leaves, x), d, Sh(Len(leaves), d))
  <1> DEFINE n == Len(leaves)
             l == Append(leaves, x)
             nodes == Nodes(x, n, path)
             C == {m \in Nat : nodes[m] = Ref(l, m, Sh(n, m))}
  <1>1. n \in Nat /\ Len(l) = n + 1 /\ l[n + 1] = x /\ \A j \in 1 .. n : l[j] = leaves[j]
    OBVIOUS
  <1>2. /\ nodes[0] = x
        /\ \A m \in Levels : nodes[m + 1] = Combined(n, m, nodes[m], path)
    BY <1>1, NodesClimb
  <1>3. \A m \in Levels : Bit(n, m) = 1 => path[m] = Ref(leaves, m, Sh(n, m) - 1)
    BY DEF PathOf
  <1> HIDE DEF n, l, nodes
  <1>4. 0 \in C
    <2>1. Sh(n, 0) = n /\ n < Len(l)
      BY <1>1, ShiftFact
    <2>2. Ref(l, 0, n) = x
      BY <1>1, <2>1, RefFact
    <2>3. QED
      BY <1>2, <2>1, <2>2
  <1>5. ASSUME NEW m \in 0 .. Depth - 1, m \in C  PROVE m + 1 \in C
    <2>1. m \in Levels /\ m \in Nat /\ m + 1 \in Nat /\ m \in 0 .. Depth
      BY DepthFact
    <2>2. /\ Sh(n, m) \in Nat /\ Sh(n, m + 1) = Sh(n, m) \div 2
          /\ Bit(n, m) = Sh(n, m) % 2 /\ Bit(n, m) \in {0, 1}
      BY <1>1, <2>1, ShiftFact
    <2>3. Sh(n, m + 1) \in Nat
      BY <1>1, <2>1, ShiftFact
    <2>4. Ref(l, m + 1, Sh(n, m + 1)) =
             poseidon2(Ref(l, m, 2 * Sh(n, m + 1)), Ref(l, m, 2 * Sh(n, m + 1) + 1))
      BY <2>1, <2>3, RefFact
    <2>5. nodes[m] = Ref(l, m, Sh(n, m))
      BY <1>5
    <2>6. CASE Bit(n, m) = 1
      <3>1. 2 * Sh(n, m + 1) = Sh(n, m) - 1 /\ 2 * Sh(n, m + 1) + 1 = Sh(n, m)
        BY <2>2, <2>3, <2>6
      <3>2. path[m] = Ref(leaves, m, Sh(n, m) - 1)
        BY <1>3, <2>1, <2>6
      <3>3. Sh(n, m) - 1 \in Nat /\ Sh(n, m) - 1 < Sh(n, m)
        <4>1. \A a, b \in Nat : 2 * b + 1 = a => a - 1 \in Nat /\ a - 1 < a
          OBVIOUS
        <4>2. QED
          BY <2>2, <2>3, <3>1, <4>1
      <3>4. Ref(leaves, m, Sh(n, m) - 1) = Ref(l, m, Sh(n, m) - 1)
        <4>1. Agree(leaves, l, n)
          BY <1>1 DEF n, Agree
        <4>2. QED
          BY <1>1, <2>1, <3>3, <4>1, RefSame
      <3>5. QED
        BY <1>2, <2>1, <2>4, <2>5, <2>6, <3>1, <3>2, <3>4 DEF Combined
    <2>7. CASE Bit(n, m) = 0
      <3>1. 2 * Sh(n, m + 1) = Sh(n, m) /\ 2 * Sh(n, m + 1) + 1 = Sh(n, m) + 1
        BY <2>2, <2>3, <2>7
      <3>2. Ref(l, m, Sh(n, m) + 1) = Zeros[m]
        <4>1. Sh(n, m) + 1 \in Nat /\ Sh(n, m) + 1 > Sh(Len(l) - 1, m) /\ Len(l) \in Nat
          BY <1>1, <2>2
        <4>2. QED
          BY <2>1, <4>1, RefZero
      <3>3. QED
        BY <1>2, <2>1, <2>4, <2>5, <2>7, <3>1, <3>2 DEF Combined
    <2>8. QED
      BY <2>2, <2>6, <2>7
  <1> HIDE DEF C
  <1>6. d \in C
    BY <1>4, <1>5, DepthFact, Induction
  <1>7. QED
    BY <1>6 DEF C, n, l, nodes

\* append_leaf computes the root of the leaves and keeps right_path right.
LEMMA AppendRef ==
  ASSUME NEW S, NEW leaves \in Seq(S), NEW x \in S, NEW path, PathOf(leaves, path),
         Len(leaves) < 2^Depth
  PROVE  /\ NewRoot(x, Len(leaves), path) = ReferenceRoot(Append(leaves, x))
         /\ PathOf(Append(leaves, x), NewPath(x, Len(leaves), path))
  <1> DEFINE n == Len(leaves)
             l == Append(leaves, x)
             nodes == Nodes(x, n, path)
  <1>1. n \in Nat /\ Len(l) = n + 1 /\ \A j \in 1 .. n : l[j] = leaves[j]
    OBVIOUS
  <1>2. \A m \in 0 .. Depth : nodes[m] = Ref(l, m, Sh(n, m))
    BY NodesRef
  <1>3. \A m \in Levels : Bit(n, m) = 1 => path[m] = Ref(leaves, m, Sh(n, m) - 1)
    BY DEF PathOf
  <1>4. NewRoot(x, n, path) = ReferenceRoot(l)
    <2>1. Sh(n, Depth) = 0
      BY <1>1, DepthFact, ShiftTop
    <2>2. nodes[Depth] = Ref(l, Depth, 0)
      BY <1>2, <2>1, DepthFact
    <2>3. QED
      BY <2>2 DEF NewRoot, ReferenceRoot, Ref
  <1>5. ASSUME NEW m \in Levels, Bit(n + 1, m) = 1
        PROVE  NewPath(x, n, path)[m] = Ref(l, m, Sh(n + 1, m) - 1)
    <2>1. m \in Nat /\ m \in 0 .. Depth /\ n + 1 \in Nat
      BY <1>1, DepthFact
    <2>2. /\ Sh(n, m) \in Nat /\ Bit(n, m) = Sh(n, m) % 2 /\ Bit(n, m) \in {0, 1}
          /\ Sh(n + 1, m) \in Nat /\ Bit(n + 1, m) = Sh(n + 1, m) % 2
      BY <1>1, <2>1, ShiftFact
    <2>3. Sh(n + 1, m) = Sh(n, m) \/ Sh(n + 1, m) = Sh(n, m) + 1
      BY <1>1, <2>1, ShiftNext
    <2>4. NewPath(x, n, path)[m] = IF Bit(n, m) = 0 THEN nodes[m] ELSE path[m]
      BY DEF NewPath
    <2> HIDE DEF n, l, nodes
    <2>5. CASE Bit(n, m) = 0
      <3>1. Sh(n + 1, m) - 1 = Sh(n, m)
        BY <1>5, <2>2, <2>3, <2>5
      <3>2. QED
        BY <1>2, <2>1, <2>4, <2>5, <3>1
    <2>6. CASE Bit(n, m) = 1
      <3>1. Sh(n + 1, m) = Sh(n, m)
        BY <1>5, <2>2, <2>3, <2>6
      <3>2. Sh(n, m) - 1 \in Nat /\ Sh(n, m) - 1 < Sh(n, m)
        BY <2>2, <2>6
      <3>3. Ref(leaves, m, Sh(n, m) - 1) = Ref(l, m, Sh(n, m) - 1)
        <4>1. Agree(leaves, l, n)
          BY <1>1 DEF n, Agree
        <4>2. QED
          BY <1>1, <2>1, <3>2, <4>1, RefSame
      <3>4. QED
        BY <1>3, <2>4, <2>6, <3>1, <3>3
    <2>7. QED
      BY <2>2, <2>5, <2>6
  <1>6. QED
    BY <1>1, <1>4, <1>5 DEF PathOf

-----------------------------------------------------------------------------
(***************************************************************************)
(* The Merkle shadow.                                                      *)
(***************************************************************************)

\* A row of m nodes of level d.
RowIs(row, leaves, d, m) ==
    Len(row) = m /\ \A j \in 1 .. m : row[j] = Ref(leaves, d, j - 1)

LEMMA TupleLength ==
  ASSUME NEW k \in Nat, NEW f, f = [j \in 1 .. k |-> f[j]]
  PROVE  Len(f) = k
  OBVIOUS

LEMMA ParentsRow ==
  ASSUME NEW leaves, NEW d \in Levels, NEW m \in Nat, NEW row, NEW pad,
         RowIs(row, leaves, d, m), m % 2 = 1 => pad = Ref(leaves, d, m)
  PROVE  RowIs(Parents(row, pad), leaves, d + 1, (m + 1) \div 2)
  <1> DEFINE k == (m + 1) \div 2
             up == Parents(row, pad)
  <1>1. k \in Nat /\ Len(row) = m /\ \A j \in 1 .. m : row[j] = Ref(leaves, d, j - 1)
    BY DEF RowIs
  <1>2. up = [j \in 1 .. k |-> poseidon2(row[2 * j - 1], IF 2 * j <= m THEN row[2 * j] ELSE pad)]
    BY <1>1 DEF Parents
  <1>3. Len(up) = k
    BY <1>1, <1>2, TupleLength
  <1>4. ASSUME NEW j \in 1 .. k  PROVE up[j] = Ref(leaves, d + 1, j - 1)
    <2>1. j - 1 \in Nat /\ 2 * j - 1 \in 1 .. m /\ (2 * j - 1) - 1 = 2 * (j - 1)
      BY <1>1
    <2>2. row[2 * j - 1] = Ref(leaves, d, 2 * (j - 1))
      <3>1. row[2 * j - 1] = Ref(leaves, d, (2 * j - 1) - 1)
        BY <1>1, <2>1
      <3>2. QED
        BY <2>1, <3>1
    <2>3. (IF 2 * j <= m THEN row[2 * j] ELSE pad) = Ref(leaves, d, 2 * (j - 1) + 1)
      <3>1. CASE 2 * j <= m
        <4>1. 2 * j \in 1 .. m /\ 2 * j - 1 = 2 * (j - 1) + 1
          BY <1>1, <3>1
        <4>2. row[2 * j] = Ref(leaves, d, 2 * j - 1)
          BY <1>1, <4>1
        <4>3. QED
          BY <3>1, <4>1, <4>2
      <3>2. CASE ~(2 * j <= m)
        <4>1. m % 2 = 1 /\ 2 * (j - 1) + 1 = m
          BY <3>2
        <4>2. QED
          BY <3>2, <4>1
      <3>3. QED
        BY <3>1, <3>2
    <2>4. Ref(leaves, d + 1, j - 1) = poseidon2(Ref(leaves, d, 2 * (j - 1)), Ref(leaves, d, 2 * (j - 1) + 1))
      BY <2>1, RefFact
    <2>5. QED
      BY <1>2, <2>2, <2>3, <2>4
  <1>5. QED
    BY <1>3, <1>4 DEF RowIs

\* The rows that the shadow goes through, padded at level d with pad[d].
Rows(row, pad, n) ==
    CHOOSE up : up = [d \in 0 .. n |-> IF d = 0 THEN row ELSE Parents(up[d - 1], pad[d - 1])]

LEMMA RowsFact ==
  ASSUME NEW row, NEW pad, NEW N \in Nat
  PROVE  LET up == Rows(row, pad, N)
         IN  /\ up = [d \in 0 .. N |-> IF d = 0 THEN row ELSE Parents(up[d - 1], pad[d - 1])]
             /\ up[0] = row
             /\ \A d \in 0 .. N - 1 : up[d + 1] = Parents(up[d], pad[d])
  <1> DEFINE Up(f, d) == Parents(f[d], pad[d])
             Z(f, n) == f = [d \in 0 .. n |-> IF d = 0 THEN row ELSE Up(f, d - 1)]
             S == {n \in Nat : \E f : Z(f, n)}
  <1>1. 0 \in S
    <2>1. Z([d \in 0 .. 0 |-> row], 0)
      OBVIOUS
    <2>2. QED
      BY <2>1
  <1>2. ASSUME NEW n \in 0 .. N - 1, n \in S  PROVE n + 1 \in S
    <2>1. PICK f : Z(f, n)
      BY <1>2
    <2> DEFINE g == [d \in 0 .. n + 1 |-> IF d <= n THEN f[d] ELSE Up(f, n)]
    <2>2. n \in Nat
      OBVIOUS
    <2>3. \A d \in 0 .. n : f[d] = IF d = 0 THEN row ELSE Up(f, d - 1)
      BY <2>1
    <2>4. ASSUME NEW d \in 0 .. n + 1  PROVE g[d] = IF d = 0 THEN row ELSE Up(g, d - 1)
      <3>1. d # 0 => g[d - 1] = f[d - 1]
        BY <2>2
      <3>2. d # 0 => Up(g, d - 1) = Up(f, d - 1)
        BY <3>1
      <3> HIDE DEF Up
      <3>3. CASE d <= n
        <4>1. d \in 0 .. n /\ g[d] = f[d]
          BY <2>2, <3>3
        <4>2. QED
          BY <2>3, <3>2, <4>1
      <3>4. CASE d = n + 1
        <4>1. d # 0 /\ d - 1 = n /\ g[d] = Up(f, n)
          BY <2>2, <3>4
        <4>2. QED
          BY <3>2, <4>1
      <3>5. QED
        BY <2>2, <3>3, <3>4
    <2>5. Z(g, n + 1)
      <3> HIDE DEF Up
      <3>1. QED
        BY <2>4
    <2> HIDE DEF g, Z
    <2>6. QED
      BY <2>2, <2>5
  <1> HIDE DEF S
  <1>3. N \in S
    <2>1. N \in 0 .. N
      OBVIOUS
    <2>2. QED
      BY <1>1, <1>2, <2>1, Induction
  <1>4. \E f : Z(f, N)
    BY <1>3 DEF S
  <1> DEFINE up == Rows(row, pad, N)
  <1>5. Z(up, N)
    BY <1>4 DEF Rows
  <1> HIDE DEF up
  <1>6. \A d \in 0 .. N : up[d] = IF d = 0 THEN row ELSE Up(up, d - 1)
    <2> HIDE DEF Up
    <2>1. QED
      BY <1>5
  <1>7. up[0] = row
    BY <1>6
  <1>8. ASSUME NEW d \in 0 .. N - 1  PROVE up[d + 1] = Up(up, d)
    <2> DEFINE e == d + 1
    <2>1. e \in 0 .. N /\ e # 0 /\ e - 1 = d
      OBVIOUS
    <2> HIDE DEF Up, e
    <2>2. up[e] = Up(up, d)
      BY <1>6, <2>1
    <2>3. QED
      BY <2>2 DEF e
  <1>9. QED
    BY <1>5, <1>7, <1>8 DEF up

\* MerkleShadow.computeRoot
LEMMA ComputeRootRef ==
  ASSUME NEW S, NEW leaves \in Seq(S)
  PROVE  ComputeRoot(leaves) = ReferenceRoot(leaves)
  <1> DEFINE n == Len(leaves)
             up == Rows(leaves, Zeros, Depth)
             C == {d \in Nat : RowIs(up[d], leaves, d, Sh(n - 1, d) + 1)}
  <1>1. n \in Nat /\ (leaves = <<>> <=> n = 0)
    OBVIOUS
  <1>2. ComputeRoot(leaves) = IF leaves = <<>> THEN Zeros[Depth] ELSE up[Depth][1]
    BY DEF ComputeRoot, Rows
  <1>3. up[0] = leaves /\ \A d \in 0 .. Depth - 1 : up[d + 1] = Parents(up[d], Zeros[d])
    BY DepthFact, RowsFact
  <1> HIDE DEF n, up
  <1>4. CASE n = 0
    <2>1. Ref(leaves, Depth, 0) = Zeros[Depth]
      BY <1>1, <1>4, DepthFact, RefZero DEF n
    <2>2. QED
      BY <1>1, <1>2, <1>4, <2>1 DEF Ref, ReferenceRoot
  <1>5. CASE n # 0
    <2>1. n - 1 \in Nat
      BY <1>1, <1>5
    <2>2. 0 \in C
      <3>1. Sh(n - 1, 0) + 1 = n
        BY <2>1, <1>1, ShiftFact
      <3>2. ASSUME NEW j \in 1 .. n  PROVE leaves[j] = Ref(leaves, 0, j - 1)
        <4>1. j - 1 \in Nat /\ j - 1 < Len(leaves) /\ (j - 1) + 1 = j
          BY <1>1 DEF n
        <4>2. QED
          BY <4>1, RefFact
      <3>3. QED
        BY <1>3, <3>1, <3>2 DEF RowIs, n
    <2>3. ASSUME NEW d \in 0 .. Depth - 1, d \in C  PROVE d + 1 \in C
      <3> DEFINE m == Sh(n - 1, d) + 1
      <3>1. d \in Levels /\ d \in Nat /\ d + 1 \in Nat /\ d \in 0 .. Depth
        BY DepthFact
      <3>2. Sh(n - 1, d) \in Nat /\ Sh(n - 1, d + 1) = Sh(n - 1, d) \div 2
        BY <2>1, <3>1, ShiftFact
      <3>3. m \in Nat /\ (m + 1) \div 2 = Sh(n - 1, d + 1) + 1 /\ m > Sh(n - 1, d)
        BY <3>2
      <3>4. Zeros[d] = Ref(leaves, d, m)
        BY <1>1, <3>1, <3>3, RefZero DEF n
      <3>5. RowIs(up[d], leaves, d, m)
        BY <2>3
      <3> HIDE DEF m
      <3>6. RowIs(Parents(up[d], Zeros[d]), leaves, d + 1, (m + 1) \div 2)
        BY <3>1, <3>3, <3>4, <3>5, ParentsRow
      <3>7. QED
        BY <1>3, <3>1, <3>3, <3>6
    <2> HIDE DEF C
    <2>4. Depth \in C
      <3>1. Depth \in Nat /\ Depth \in 0 .. Depth
        BY DepthFact
      <3>2. QED
        BY ONLY <2>2, <2>3, <3>1, Induction
    <2>5. Sh(n - 1, Depth) \in Nat
      BY <2>1, DepthFact, ShiftFact
    <2>6. up[Depth][1] = Ref(leaves, Depth, 0)
      <3>1. 1 \in 1 .. Sh(n - 1, Depth) + 1 /\ 1 - 1 = 0
        BY <2>5
      <3>2. up[Depth][1] = Ref(leaves, Depth, 1 - 1)
        BY <2>4, <3>1 DEF C, RowIs
      <3>3. QED
        BY <3>1, <3>2
    <2>7. QED
      BY <1>1, <1>2, <1>5, <2>6 DEF Ref, ReferenceRoot
  <1>6. QED
    BY <1>4, <1>5

LEMMA ShiftAbove ==
  ASSUME NEW k \in Nat, NEW i \in Nat, i < 2^k, NEW d \in Nat, k <= d
  PROVE  Sh(i, d) = 0
  <1> DEFINE S == {m \in Nat : Sh(i, k + m) = 0}
  <1>1. 0 \in S
    BY ShiftTop
  <1>2. ASSUME NEW m \in 0 .. (d - k) - 1, m \in S  PROVE m + 1 \in S
    <2>1. m \in Nat /\ k + m \in Nat /\ k + (m + 1) = (k + m) + 1
      OBVIOUS
    <2>2. Sh(i, (k + m) + 1) = Sh(i, k + m) \div 2
      BY <2>1, ShiftFact
    <2>3. Sh(i, k + m) = 0
      BY <1>2
    <2>4. Sh(i, (k + m) + 1) = 0
      BY <2>2, <2>3
    <2>5. QED
      BY <2>1, <2>4
  <1> HIDE DEF S
  <1>3. d - k \in Nat /\ d - k \in 0 .. d - k /\ k + (d - k) = d
    OBVIOUS
  <1>4. d - k \in S
    BY ONLY <1>1, <1>2, <1>3, Induction
  <1>5. QED
    BY <1>3, <1>4 DEF S

\* The smallest full tree has room for the leaves.
LEMMA SmallDepthFact ==
  ASSUME NEW n \in Nat, n <= 2^Depth
  PROVE  SmallDepth(n) \in 1 .. Depth /\ n <= 2^SmallDepth(n)
  <1> DEFINE C == {k \in 1 .. Depth : 2^k >= n}
             P(k) == 2^k >= n /\ (k = 1 \/ 2^(k - 1) < n)
  <1>1. C \in SUBSET Nat /\ Depth \in C
    BY DepthFact
  <1>2. PICK k \in C : \A j \in C : k <= j
    <2> HIDE DEF C
    <2>1. QED
      BY <1>1, SmallestNumber
  <1>3. k \in 1 .. Depth /\ P(k)
    <2>1. k \in 1 .. Depth /\ 2^k >= n /\ k \in Nat
      BY <1>2, DepthFact
    <2>2. CASE k # 1
      <3>1. k - 1 \in 1 .. Depth /\ ~(k <= k - 1) /\ k - 1 \in Nat
        BY <2>1, <2>2, DepthFact
      <3>2. k - 1 \notin C
        BY <1>2, <3>1
      <3>3. ~(2^(k - 1) >= n) /\ 2^(k - 1) \in Nat
        BY <3>1, <3>2, PowerOfTwo
      <3>4. 2^(k - 1) < n
        BY ONLY n \in Nat, <3>3
      <3>5. QED
        BY <2>1, <3>4
    <2>3. QED
      BY <2>1, <2>2
  <1>4. SmallDepth(n) = CHOOSE j \in 1 .. Depth : P(j)
    BY DEF SmallDepth
  <1>5. SmallDepth(n) \in 1 .. Depth /\ P(SmallDepth(n))
    <2> HIDE DEF P
    <2>1. QED
      BY <1>3, <1>4
  <1>6. SmallDepth(n) \in Nat
    BY <1>5, DepthFact
  <1>7. 2^SmallDepth(n) \in Nat
    BY <1>6, PowerOfTwo
  <1>8. QED
    BY <1>5, <1>7

\* MerkleShadow.witness, part by part.
Padded(leaves) ==
    [j \in 1 .. 2^SmallDepth(Len(leaves)) |-> IF j <= Len(leaves) THEN leaves[j] ELSE ZeroWord]
SmallRows(leaves) ==
    CHOOSE up : up = [d \in 0 .. SmallDepth(Len(leaves)) |->
        IF d = 0 THEN Padded(leaves) ELSE Parents(up[d - 1], ZeroWord)]
Top(leaves) ==
    CHOOSE top : top = [d \in SmallDepth(Len(leaves)) .. Depth |->
        IF d = SmallDepth(Len(leaves)) THEN SmallRows(leaves)[SmallDepth(Len(leaves))][1]
                                       ELSE poseidon2(top[d - 1], Zeros[d - 1])]
Sibling(i, d) == IF Sh(i, d) % 2 = 0 THEN Sh(i, d) + 1 ELSE Sh(i, d) - 1

LEMMA WitnessParts ==
  ASSUME NEW leaves, NEW i \in Nat
  PROVE  LET w == Witness(leaves, i)
             small == SmallDepth(Len(leaves))
         IN  /\ w.root = Top(leaves)[Depth]
             /\ \A d \in Levels :
                   /\ w.siblings[d] = IF d < small THEN SmallRows(leaves)[d][Sibling(i, d) + 1] ELSE Zeros[d]
                   /\ w.indices[d] = IF d < small THEN Sh(i, d) % 2 ELSE 0
  BY DEF Witness, Padded, SmallRows, Top, Sibling, Sh

LEMMA SmallRowsRef ==
  ASSUME NEW S, NEW leaves \in Seq(S), Len(leaves) <= 2^Depth, NEW d \in 0 .. SmallDepth(Len(leaves))
  PROVE  RowIs(SmallRows(leaves)[d], leaves, d, 2^(SmallDepth(Len(leaves)) - d))
  <1> DEFINE n == Len(leaves)
             small == SmallDepth(n)
             pad == [e \in Nat |-> ZeroWord]
             rows == Rows(Padded(leaves), pad, small)
             up == SmallRows(leaves)
             Z(f) == f = [e \in 0 .. small |-> IF e = 0 THEN Padded(leaves) ELSE Parents(f[e - 1], ZeroWord)]
             C == {e \in Nat : e <= small /\ RowIs(up[e], leaves, e, 2^(small - e))}
  <1>1. n \in Nat /\ small \in Nat /\ small <= Depth /\ n <= 2^small /\ small >= 1
    BY SmallDepthFact, DepthFact
  <1>2. Z(rows)
    <2>1. rows = [e \in 0 .. small |-> IF e = 0 THEN Padded(leaves) ELSE Parents(rows[e - 1], pad[e - 1])]
      <3> HIDE DEF pad, small, n
      <3>1. QED
        BY ONLY <1>1, RowsFact
    <2>2. \A e \in 0 .. small : e # 0 => pad[e - 1] = ZeroWord
      BY <1>1
    <2> HIDE DEF rows, pad, n, small
    <2>3. \A e \in 0 .. small : rows[e] = IF e = 0 THEN Padded(leaves) ELSE Parents(rows[e - 1], ZeroWord)
      BY <2>1, <2>2
    <2>4. rows = [e \in 0 .. small |-> rows[e]]
      BY <2>1
    <2>5. QED
      BY <2>3, <2>4
  <1>3. Z(up)
    <2>1. \E f : Z(f)
      BY <1>2
    <2>2. QED
      BY <2>1 DEF SmallRows
  <1> HIDE DEF rows, up, small
  <1>4. \A e \in 0 .. small : up[e] = IF e = 0 THEN Padded(leaves) ELSE Parents(up[e - 1], ZeroWord)
    BY <1>3
  <1>5. 0 \in C
    <2>1. up[0] = Padded(leaves) /\ 2^(small - 0) = 2^small /\ 2^small \in Nat
      <3>1. small - 0 = small
        BY <1>1
      <3>2. QED
        BY <1>1, <1>4, <3>1, PowerOfTwo
    <2> DEFINE m == 2^small
    <2>2. Padded(leaves) = [j \in 1 .. m |-> IF j <= n THEN leaves[j] ELSE ZeroWord]
      BY DEF Padded, small
    <2> HIDE DEF m
    <2>3. m \in Nat
      BY <2>1 DEF m
    <2>4. Len(Padded(leaves)) = m
      BY <2>2, <2>3, TupleLength
    <2>5. ASSUME NEW j \in 1 .. m  PROVE Padded(leaves)[j] = Ref(leaves, 0, j - 1)
      <3>1. j - 1 \in Nat /\ (j - 1 < n <=> j <= n) /\ (j - 1) + 1 = j
        BY <1>1, <2>3
      <3>2. QED
        BY <2>2, <3>1, RefFact
    <2>6. QED
      BY <1>1, <2>1, <2>4, <2>5 DEF RowIs, m
  <1>6. ASSUME NEW e \in 0 .. small - 1, e \in C  PROVE e + 1 \in C
    <2>1. e \in Nat /\ e \in Levels /\ e + 1 \in 0 .. small /\ e + 1 # 0 /\ (e + 1) - 1 = e
      BY <1>1, DepthFact
    <2> DEFINE p == 2^(small - (e + 1))
               m == 2^(small - e)
    <2>2. p \in Nat /\ m = 2 * p
      <3>1. small - (e + 1) \in Nat /\ (small - (e + 1)) + 1 = small - e
        BY <1>1, <2>1
      <3>2. QED
        BY <3>1, PowerOfTwo
    <2>3. RowIs(up[e], leaves, e, m)
      BY <1>6
    <2>4. up[e + 1] = Parents(up[e], ZeroWord)
      <3> DEFINE f == e + 1
      <3>1. f \in 0 .. small /\ f # 0 /\ f - 1 = e
        BY <2>1
      <3> HIDE DEF f
      <3>2. up[f] = Parents(up[e], ZeroWord)
        BY <1>4, <3>1
      <3>3. QED
        BY <3>2 DEF f
    <2> HIDE DEF m, p
    <2>5. m \in Nat /\ ~(m % 2 = 1) /\ (m + 1) \div 2 = p
      BY <2>2
    <2>6. RowIs(Parents(up[e], ZeroWord), leaves, e + 1, (m + 1) \div 2)
      BY <2>1, <2>3, <2>5, ParentsRow
    <2>7. QED
      BY <2>1, <2>4, <2>5, <2>6 DEF p
  <1> HIDE DEF C
  <1>7. d \in C
    <2>1. d \in 0 .. small
      BY DEF small
    <2>2. QED
      BY ONLY <1>1, <1>5, <1>6, <2>1, Induction
  <1>8. QED
    BY <1>7 DEF C, up, small

LEMMA TopRef ==
  ASSUME NEW S, NEW leaves \in Seq(S), Len(leaves) \in 1 .. 2^Depth
  PROVE  Top(leaves)[Depth] = Ref(leaves, Depth, 0)
  <1> DEFINE n == Len(leaves)
             small == SmallDepth(n)
             base == SmallRows(leaves)[small][1]
             Z(f) == f = [d \in small .. Depth |-> IF d = small THEN base ELSE poseidon2(f[d - 1], Zeros[d - 1])]
             g == [d \in small .. Depth |-> Ref(leaves, d, 0)]
             top == Top(leaves)
             C == {e \in Nat : top[small + e] = Ref(leaves, small + e, 0)}
  <1>0. 2^Depth \in Nat
    BY DepthFact, PowerOfTwo
  <1>1. n \in Nat /\ n >= 1 /\ small \in Nat /\ small <= Depth /\ n <= 2^small /\ 2^small \in Nat
    <2>1. n \in Nat /\ n >= 1 /\ n <= 2^Depth
      BY <1>0
    <2>2. small \in Nat /\ small <= Depth /\ n <= 2^small
      BY <2>1, SmallDepthFact, DepthFact
    <2>3. QED
      BY <2>1, <2>2, PowerOfTwo
  <1>2. base = Ref(leaves, small, 0)
    <2>1. small \in 0 .. small /\ small - small = 0
      BY <1>1
    <2>2. RowIs(SmallRows(leaves)[small], leaves, small, 2^(small - small))
      BY <1>0, <1>1, <2>1, SmallRowsRef
    <2>3. 2^(small - small) = 1
      <3>1. 2^0 = 1
        OBVIOUS
      <3> HIDE DEF small
      <3>2. QED
        BY ONLY <2>1, <3>1
    <2>4. 1 \in 1 .. 2^(small - small) /\ 1 - 1 = 0
      BY <2>3
    <2> HIDE DEF small
    <2>5. base = Ref(leaves, small, 1 - 1)
      BY <2>2, <2>4 DEF RowIs
    <2>6. QED
      BY <2>4, <2>5
  <1> HIDE DEF base, small
  <1>3. ASSUME NEW d \in small .. Depth - 1
        PROVE  Ref(leaves, d + 1, 0) = poseidon2(Ref(leaves, d, 0), Zeros[d])
    <2>1. d \in Nat /\ d \in Levels /\ d \in 0 .. Depth /\ small <= d
      BY <1>1, DepthFact
    <2>2. n - 1 \in Nat /\ n - 1 < 2^small
      BY <1>1
    <2>3. Sh(n - 1, d) = 0
      BY <1>1, <2>1, <2>2, ShiftAbove
    <2>4. Ref(leaves, d, 1) = Zeros[d]
      <3>1. 1 \in Nat /\ 1 > Sh(n - 1, d)
        BY <2>3
      <3>2. QED
        BY <1>1, <2>1, <3>1, RefZero
    <2>5. 0 \in Nat /\ 2 * 0 = 0 /\ 2 * 0 + 1 = 1
      OBVIOUS
    <2>6. Ref(leaves, d + 1, 0) = poseidon2(Ref(leaves, d, 2 * 0), Ref(leaves, d, 2 * 0 + 1))
      BY <2>1, RefFact
    <2>7. QED
      BY <2>4, <2>5, <2>6
  <1>4. Z(g)
    <2>1. ASSUME NEW d \in small .. Depth
          PROVE  g[d] = IF d = small THEN base ELSE poseidon2(g[d - 1], Zeros[d - 1])
      <3>1. CASE d = small
        BY <1>2, <3>1
      <3>2. CASE d # small
        <4> DEFINE e == d - 1
        <4>1. e \in small .. Depth - 1 /\ e \in small .. Depth /\ e + 1 = d
          BY <1>1, <3>2, DepthFact
        <4>2. g[e] = Ref(leaves, e, 0) /\ g[d] = Ref(leaves, d, 0)
          BY <4>1
        <4> HIDE DEF e
        <4>3. g[d] = poseidon2(g[e], Zeros[e])
          BY <1>3, <4>1, <4>2
        <4>4. QED
          BY <3>2, <4>3 DEF e
      <3>3. QED
        BY <3>1, <3>2
    <2>2. g = [d \in small .. Depth |-> g[d]]
      OBVIOUS
    <2> HIDE DEF g
    <2>3. QED
      BY <2>1, <2>2
  <1>5. Z(top)
    <2>1. \E f : Z(f)
      BY <1>4
    <2>2. QED
      BY <2>1 DEF Top, small, base
  <1> HIDE DEF top, g
  <1>6. \A d \in small .. Depth : top[d] = IF d = small THEN base ELSE poseidon2(top[d - 1], Zeros[d - 1])
    BY <1>5
  <1>7. 0 \in C
    <2>1. small + 0 = small /\ small \in small .. Depth
      BY <1>1, DepthFact
    <2>2. QED
      BY <1>2, <1>6, <2>1
  <1>8. ASSUME NEW e \in 0 .. (Depth - small) - 1, e \in C  PROVE e + 1 \in C
    <2> DEFINE d == small + e
               f == d + 1
    <2>1. /\ e \in Nat /\ d \in small .. Depth - 1 /\ f \in small .. Depth
          /\ f # small /\ f - 1 = d /\ small + (e + 1) = f /\ f = d + 1
      BY <1>1, DepthFact
    <2>2. top[d] = Ref(leaves, d, 0)
      BY <1>8
    <2> HIDE DEF d, f
    <2>3. top[f] = poseidon2(top[d], Zeros[d])
      BY <1>6, <2>1
    <2>4. top[f] = Ref(leaves, f, 0)
      BY <1>3, <2>1, <2>2, <2>3
    <2>5. QED
      BY <2>1, <2>4
  <1> HIDE DEF C
  <1>9. Depth - small \in Nat /\ Depth - small \in 0 .. Depth - small /\ small + (Depth - small) = Depth
    BY <1>1, DepthFact
  <1>10. Depth - small \in C
    BY ONLY <1>7, <1>8, <1>9, Induction
  <1>11. QED
    BY <1>9, <1>10 DEF C, top

\* The witness of the shadow has the root of the leaves and leads to it.
LEMMA WitnessRef ==
  ASSUME NEW S, NEW leaves \in Seq(S), Len(leaves) \in 1 .. 2^Depth, NEW i \in 0 .. Len(leaves) - 1
  PROVE  /\ Witness(leaves, i).root = ReferenceRoot(leaves)
         /\ Verifies(Witness(leaves, i), leaves[i + 1])
  <1> DEFINE n == Len(leaves)
             small == SmallDepth(n)
             w == Witness(leaves, i)
             leaf == leaves[i + 1]
             up == Climb(leaf, w.siblings, w.indices)
             C == {d \in Nat : up[d] = Ref(leaves, d, Sh(i, d))}
  <1>0. 2^Depth \in Nat
    BY DepthFact, PowerOfTwo
  <1>1. /\ n \in Nat /\ n >= 1 /\ small \in Nat /\ small <= Depth /\ n <= 2^small /\ 2^small \in Nat
        /\ i \in Nat /\ i < n /\ n <= 2^Depth
    <2>1. n \in Nat /\ n >= 1 /\ n <= 2^Depth /\ i \in Nat /\ i < n
      BY <1>0
    <2>2. small \in Nat /\ small <= Depth /\ n <= 2^small
      BY <2>1, SmallDepthFact, DepthFact
    <2>3. QED
      BY <2>1, <2>2, PowerOfTwo
  <1>2. w.root = ReferenceRoot(leaves)
    BY <1>1, WitnessParts, TopRef DEF ReferenceRoot, Ref
  <1>3. ASSUME NEW d \in Levels
        PROVE  w.indices[d] = Sh(i, d) % 2 /\ w.siblings[d] = Ref(leaves, d, Sibling(i, d))
    <2>1. d \in Nat /\ d \in 0 .. Depth /\ Sh(i, d) \in Nat
      <3>1. d \in Nat /\ d \in 0 .. Depth /\ i \in Nat
        BY ONLY <1>1, DepthFact, d \in Levels
      <3>2. QED
        BY ONLY <3>1, ShiftFact
    <2>2. /\ w.siblings[d] = IF d < small THEN SmallRows(leaves)[d][Sibling(i, d) + 1] ELSE Zeros[d]
          /\ w.indices[d] = IF d < small THEN Sh(i, d) % 2 ELSE 0
      BY <1>1, WitnessParts
    <2>3. CASE d < small
      <3> DEFINE m == 2^(small - d)
                 p == 2^((small - d) - 1)
                 b == Sibling(i, d)
      <3>1. p \in Nat /\ m = 2 * p
        <4>1. (small - d) - 1 \in Nat /\ ((small - d) - 1) + 1 = small - d
          BY <1>1, <2>1, <2>3
        <4>2. QED
          BY <4>1, PowerOfTwo
      <3>2. Sh(i, d) < m
        <4>1. small \in Nat /\ i \in Nat /\ i < 2^small /\ d \in 0 .. small
          BY ONLY <1>1, <2>1, <2>3
        <4>2. QED
          BY ONLY <4>1, ShiftBelow
      <3>3. RowIs(SmallRows(leaves)[d], leaves, d, m)
        <4>1. d \in 0 .. small
          BY <1>1, <2>1, <2>3
        <4>2. QED
          BY <1>1, <4>1, SmallRowsRef
      <3> HIDE DEF m, p
      <3>4. b + 1 \in 1 .. m /\ (b + 1) - 1 = b
        BY <2>1, <3>1, <3>2 DEF Sibling
      <3> HIDE DEF b
      <3>5. SmallRows(leaves)[d][b + 1] = Ref(leaves, d, (b + 1) - 1)
        BY <3>3, <3>4 DEF RowIs
      <3>6. QED
        BY <2>2, <2>3, <3>4, <3>5 DEF b
    <2>4. CASE ~(d < small)
      <3>1. small <= d /\ i < 2^small /\ n - 1 \in Nat /\ n - 1 < 2^small
        BY <1>1, <2>1, <2>4
      <3>2. Sh(i, d) = 0 /\ Sh(n - 1, d) = 0
        BY <1>1, <2>1, <3>1, ShiftAbove
      <3>3. Sibling(i, d) = 1 /\ Sh(i, d) % 2 = 0
        BY <3>2 DEF Sibling
      <3>4. Ref(leaves, d, 1) = Zeros[d]
        <4>1. 1 \in Nat /\ 1 > Sh(n - 1, d)
          BY <3>2
        <4>2. QED
          BY <1>1, <2>1, <4>1, RefZero
      <3>5. QED
        BY <2>2, <2>4, <3>3, <3>4
    <2>5. QED
      BY <2>3, <2>4
  <1>4. /\ up[0] = leaf
        /\ \A d \in Levels : up[d + 1] = IF w.indices[d] = 0 THEN poseidon2(up[d], w.siblings[d])
                                                            ELSE poseidon2(w.siblings[d], up[d])
    BY ClimbFact
  <1> HIDE DEF up, w, small
  <1>5. 0 \in C
    <2>1. Sh(i, 0) = i /\ i < Len(leaves)
      BY <1>1, ShiftFact
    <2>2. QED
      BY <1>1, <1>4, <2>1, RefFact
  <1>6. ASSUME NEW d \in 0 .. Depth - 1, d \in C  PROVE d + 1 \in C
    <2> DEFINE a == Sh(i, d)
               b == Sh(i, d + 1)
    <2>1. d \in Nat /\ d + 1 \in Nat /\ d \in Levels
      BY DepthFact
    <2>2. a \in Nat /\ b \in Nat /\ b = a \div 2
      BY <1>1, <2>1, ShiftFact
    <2>3. up[d] = Ref(leaves, d, a)
      BY <1>6
    <2>4. w.indices[d] = a % 2 /\ w.siblings[d] = Ref(leaves, d, IF a % 2 = 0 THEN a + 1 ELSE a - 1)
      BY <1>3, <2>1 DEF Sibling
    <2> HIDE DEF a, b
    <2>5. Ref(leaves, d + 1, b) = poseidon2(Ref(leaves, d, 2 * b), Ref(leaves, d, 2 * b + 1))
      BY <2>1, <2>2, RefFact
    <2>6. CASE a % 2 = 0
      <3>1. 2 * b = a /\ 2 * b + 1 = a + 1
        BY <2>2, <2>6
      <3>2. up[d + 1] = Ref(leaves, d + 1, b)
        BY <1>4, <2>1, <2>3, <2>4, <2>5, <2>6, <3>1
      <3>3. QED
        BY <2>1, <3>2 DEF b
    <2>7. CASE a % 2 # 0
      <3>1. 2 * b = a - 1 /\ 2 * b + 1 = a
        BY <2>2, <2>7
      <3>2. up[d + 1] = Ref(leaves, d + 1, b)
        BY <1>4, <2>1, <2>3, <2>4, <2>5, <2>7, <3>1
      <3>3. QED
        BY <2>1, <3>2 DEF b
    <2>8. QED
      BY <2>6, <2>7
  <1> HIDE DEF C
  <1>7. Depth \in C
    <2>1. Depth \in Nat /\ Depth \in 0 .. Depth
      BY DepthFact
    <2>2. QED
      BY ONLY <1>5, <1>6, <2>1, Induction
  <1>8. up[Depth] = w.root
    <2>1. Sh(i, Depth) = 0
      <3>1. i < 2^Depth
        BY <1>0, <1>1
      <3>2. QED
        BY <1>1, <3>1, DepthFact, ShiftTop
    <2>2. QED
      BY <1>2, <1>7, <2>1 DEF C, Ref, ReferenceRoot
  <1>9. QED
    BY <1>2, <1>8, VerifiesClimb DEF up, w

-----------------------------------------------------------------------------
(***************************************************************************)
(* Two sequences of leaves with the same root are the same.                *)
(***************************************************************************)

\* Equal nodes have equal leaves under them.
LEMMA NodeLeaves ==
  ASSUME NEW k, NEW l, NEW n \in 0 .. Depth, NEW i \in Nat, Ref(k, n, i) = Ref(l, n, i),
         NEW j \in Nat, Sh(j, n) = i
  PROVE  Ref(k, 0, j) = Ref(l, 0, j)
  <1> DEFINE Same(d) == Ref(k, d, Sh(j, d)) = Ref(l, d, Sh(j, d))
             C == {e \in Nat : Same(n - e)}
  <1>1. n \in Nat /\ n <= Depth
    BY DepthFact
  <1>2. 0 \in C
    <2>1. n - 0 = n
      BY <1>1
    <2>2. QED
      BY <2>1
  <1>3. ASSUME NEW e \in 0 .. n - 1, e \in C  PROVE e + 1 \in C
    <2> DEFINE d == n - (e + 1)
               m == Sh(j, d)
               p == Sh(j, n - e)
    <2>1. d \in Nat /\ d \in Levels /\ d + 1 = n - e /\ e \in Nat
      BY <1>1, DepthFact
    <2>2. m \in Nat /\ p = m \div 2
      <3>1. Sh(j, d) \in Nat /\ Sh(j, d + 1) = Sh(j, d) \div 2
        BY <2>1, ShiftFact
      <3>2. QED
        BY <2>1, <3>1
    <2>3. Ref(k, d + 1, p) = Ref(l, d + 1, p)
      BY <1>3, <2>1
    <2> HIDE DEF d, m, p
    <2>4. p \in Nat /\ (m = 2 * p \/ m = 2 * p + 1)
      BY <2>2
    <2>5. /\ Ref(k, d + 1, p) = <<Ref(k, d, 2 * p), Ref(k, d, 2 * p + 1)>>
          /\ Ref(l, d + 1, p) = <<Ref(l, d, 2 * p), Ref(l, d, 2 * p + 1)>>
      BY <2>1, <2>4, RefFact DEF poseidon2
    <2>6. Ref(k, d, 2 * p) = Ref(l, d, 2 * p) /\ Ref(k, d, 2 * p + 1) = Ref(l, d, 2 * p + 1)
      BY <2>3, <2>5
    <2>7. Ref(k, d, m) = Ref(l, d, m)
      BY <2>4, <2>6
    <2>8. QED
      BY <2>1, <2>7 DEF d, m
  <1> HIDE DEF C
  <1>4. n \in C
    <2>1. n \in 0 .. n
      BY <1>1
    <2>2. QED
      BY ONLY <1>1, <1>2, <1>3, <2>1, Induction
  <1>5. n - n = 0 /\ Sh(j, 0) = j
    BY <1>1, ShiftFact
  <1>6. Same(n - n)
    BY <1>4 DEF C
  <1>7. QED
    BY <1>5, <1>6

LEMMA RootInjective ==
  ASSUME NEW S, ZeroWord \notin S, NEW k \in Seq(S), NEW l \in Seq(S),
         Len(k) <= 2^Depth, Len(l) <= 2^Depth, ReferenceRoot(k) = ReferenceRoot(l)
  PROVE  k = l
  <1> DEFINE At(s, j) == IF j < Len(s) THEN s[j + 1] ELSE ZeroWord
  <1>0. 2^Depth \in Nat /\ Depth \in Nat /\ Depth \in 0 .. Depth
    BY DepthFact, PowerOfTwo
  <1>1. ASSUME NEW j \in Nat, j < 2^Depth  PROVE At(k, j) = At(l, j)
    <2>1. Sh(j, Depth) = 0
      BY <1>0, <1>1, ShiftTop
    <2>2. Ref(k, Depth, 0) = Ref(l, Depth, 0)
      BY DEF ReferenceRoot, Ref
    <2>3. Ref(k, 0, j) = Ref(l, 0, j)
      BY <1>0, <2>1, <2>2, NodeLeaves
    <2>4. QED
      BY <2>3, RefFact
  <1>2. Len(k) \in Nat /\ Len(l) \in Nat
    OBVIOUS
  <1>3. ASSUME Len(k) < Len(l)  PROVE FALSE
    <2>1. At(k, Len(k)) = At(l, Len(k))
      BY <1>0, <1>1, <1>2, <1>3
    <2>2. l[Len(k) + 1] \in S
      BY <1>2, <1>3
    <2>3. QED
      BY <1>2, <1>3, <2>1, <2>2
  <1>4. ASSUME Len(l) < Len(k)  PROVE FALSE
    <2>1. At(k, Len(l)) = At(l, Len(l))
      BY <1>0, <1>1, <1>2, <1>4
    <2>2. k[Len(l) + 1] \in S
      BY <1>2, <1>4
    <2>3. QED
      BY <1>2, <1>4, <2>1, <2>2
  <1>5. Len(k) = Len(l)
    BY <1>2, <1>3, <1>4
  <1>6. ASSUME NEW p \in 1 .. Len(k)  PROVE k[p] = l[p]
    <2>1. p - 1 \in Nat /\ p - 1 < 2^Depth /\ p - 1 < Len(k) /\ (p - 1) + 1 = p
      BY <1>0, <1>2
    <2>2. At(k, p - 1) = At(l, p - 1)
      BY <1>1, <2>1
    <2>3. QED
      BY <1>5, <2>1, <2>2
  <1>7. QED
    BY <1>5, <1>6

-----------------------------------------------------------------------------
(***************************************************************************)
(* The inductive invariant of the clients.                                 *)
(***************************************************************************)

\* The clients whose transaction may have landed, and the leaves of the
\* transactions that may have landed.
Landers(cl) == {c \in Client : cl[c].pc \notin {"idle", "placed"}}
Landed(cl, n) ==
    {Own(c) : c \in Landers(cl)}
      \cup {<<c, "settle", j>> : c \in Landers(cl), j \in Nat}
      \cup {<<"other", m, j>> : m \in 0 .. n - 1, j \in Nat}

\* The header t of the vault is that of the abstract tree a.
TreeRel(t, a, S) ==
    /\ a \in A!Tree(S) /\ A!RingExact(a) /\ Len(a.leaves) <= TreeCapacity
    /\ t.leafCount = Len(a.leaves)
    /\ PathOf(a.leaves, t.rightPath)
    /\ DOMAIN t.rightPath = Levels /\ \A d \in Levels : IsWord(t.rightPath[d])
    /\ t.current = WordOf(a.current)
    /\ t.head = a.head
    /\ DOMAIN t.roots = RingSlots
    /\ \A i \in RingSlots : t.roots[i] = WordOf(a.roots[i])

\* The leaves of the tree are those of the transactions after the b-th, where
\* the tree was last empty; its first leaf occurs only once in the history.
Hist(h, l, b, off) ==
    /\ \A k \in 0 .. b : off[k] = 0
    /\ \A k \in b + 1 .. Len(h) :
          /\ off[k] = off[k - 1] + Len(h[k])
          /\ \A j \in 1 .. Len(h[k]) : h[k][j] = l[off[k - 1] + j]
    /\ off[Len(h)] = Len(l)
Once(h, l, b) ==
    Len(l) > 0 =>
       /\ \A k \in 1 .. b : \A j \in 1 .. Len(h[k]) : h[k][j] # l[1]
       /\ \A p \in 2 .. Len(l) : l[p] # l[1]
History(h, l) ==
    \E b \in 0 .. Len(h), off \in [0 .. Len(h) -> Nat] : Hist(h, l, b, off) /\ Once(h, l, b)

Prefix(l, n) == SubSeq(l, 1, n)

\* What a client that read the tree r.age leaves ago knows of it.
ReadOK(r, l) ==
    /\ r.count \in 1 .. TreeCapacity
    /\ r.age <= RootHistorySize =>
          /\ r.age <= Len(l) /\ r.count = Len(l) - r.age
          /\ ReferenceRoot(Prefix(l, r.count)) \in r.roots
          /\ \A w \in r.roots : \E m \in 0 .. r.count : w = ReferenceRoot(Prefix(l, m))
ReplayOK(r, l) ==
    (r.age <= RootHistorySize /\ Len(r.leaves) > 0 /\ r.leaves[1] = l[1]) =>
       Len(r.leaves) <= Len(l) /\ r.leaves = Prefix(l, Len(r.leaves))
PreparedOK(r, l, c) ==
    /\ Verifies(r.witness, Own(c))
    /\ r.age <= RootHistorySize =>
          r.age <= Len(l) /\ r.witness.root = ReferenceRoot(Prefix(l, Len(l) - r.age))

ClientOK(r, l, S, c) ==
    /\ r = [pc |-> r.pc, index |-> r.index, path |-> r.path, count |-> r.count,
            roots |-> r.roots, leaves |-> r.leaves, witness |-> r.witness, age |-> r.age]
    /\ r.pc \in {"idle", "placed", "owned", "reading", "replayed", "prepared", "withdrawn"}
    /\ r.index \in 0 .. TreeCapacity
    /\ r.leaves \in Seq(S)
    /\ r.age \in 0 .. Old
    /\ r.pc \in {"reading", "replayed"} => ReadOK(r, l)
    /\ r.pc = "replayed" => ReplayOK(r, l)
    /\ r.pc = "prepared" => PreparedOK(r, l, c)

ClientsInv ==
    LET S == Landed(client, others)
    IN  /\ TreeRel(tree, ideal, S)
        /\ txs \in Seq(Seq(S)) /\ History(txs, ideal.leaves)
        /\ DOMAIN client = Client
        /\ \A c \in Client : ClientOK(client[c], ideal.leaves, S, c)
        /\ others \in 0 .. MaxOthers /\ resets \in 0 .. MaxResets

-----------------------------------------------------------------------------
(***************************************************************************)
(* The vault's header and the abstract tree.                               *)
(***************************************************************************)

LEMMA RingFact == RootHistorySize \in Nat /\ RootHistorySize >= 1 /\ RingSlots = 0 .. RootHistorySize - 1
  BY ClientsAssumption DEF RingSlots

LEMMA CapacityFact == TreeCapacity \in Nat /\ TreeCapacity >= 1 /\ TreeCapacity = 2^Depth
  BY DepthFact, PowerOfTwo DEF TreeCapacity

LEMMA HeadNext ==
  ASSUME NEW h \in 0 .. RootHistorySize - 1
  PROVE  /\ (h + 1) % RootHistorySize = IF h + 1 = RootHistorySize THEN 0 ELSE h + 1
         /\ (h + 1) % RootHistorySize \in 0 .. RootHistorySize - 1
  <1>1. CASE h + 1 = RootHistorySize
    BY <1>1, RingFact
  <1>2. CASE h + 1 < RootHistorySize
    BY <1>2, RingFact
  <1>3. QED
    BY <1>1, <1>2, RingFact

\* append_leaf keeps the abstract tree well formed and its ring exact: it
\* overwrites the oldest slot, and every other slot is one step older.
LEMMA AppendTree ==
  ASSUME NEW S, NEW a \in A!Tree(S), NEW x \in S, A!RingExact(a)
  PROVE  /\ A!AppendLeaf(a, x) \in A!Tree(S) /\ A!RingExact(A!AppendLeaf(a, x))
  <1> DEFINE u == A!AppendLeaf(a, x)
             N == Len(a.leaves)
  <1>1. /\ u = [leaves |-> u.leaves, current |-> u.current, roots |-> u.roots, head |-> u.head]
        /\ u.leaves = Append(a.leaves, x)
        /\ u.current = A!RootOf(u.leaves)
        /\ u.roots = [a.roots EXCEPT ![a.head] = a.current]
        /\ u.head = (a.head + 1) % RootHistorySize
    BY DEF A!AppendLeaf, A!PushedRoots, A!PushedHead
  <1> HIDE DEF u
  <1>2. /\ a.head \in 0 .. RootHistorySize - 1
        /\ a.leaves \in Seq(S) /\ N \in Nat /\ a.current \in A!Root(S)
        /\ a.roots \in [0 .. RootHistorySize - 1 -> A!Root(S)]
    BY DEF A!Tree
  <1>3. u.head = IF a.head + 1 = RootHistorySize THEN 0 ELSE a.head + 1
    BY <1>1, <1>2, HeadNext
  <1>4. Len(u.leaves) = N + 1 /\ u.leaves \in Seq(S)
    BY <1>1, <1>2
  <1>5. ASSUME NEW k \in 0 .. N
        PROVE  SubSeq(u.leaves, 1, k) = SubSeq(a.leaves, 1, k)
    BY <1>1, <1>2, <1>5
  <1>6. SubSeq(a.leaves, 1, N) = a.leaves
    BY <1>2
  <1>7. ASSUME NEW i \in 0 .. RootHistorySize - 1
        PROVE  u.roots[A!SlotBack(u, i)] =
                 IF i < N + 1 THEN A!RootOf(SubSeq(u.leaves, 1, N - i)) ELSE A!ZeroRoot
    <2>1. CASE i = 0
      <3>1. A!SlotBack(u, 0) = a.head
        BY <1>2, <1>3, RingFact DEF A!SlotBack
      <3>2. u.roots[a.head] = A!RootOf(a.leaves)
        BY <1>1, <1>2 DEF A!RingExact
      <3>3. SubSeq(u.leaves, 1, N) = a.leaves
        BY <1>2, <1>5, <1>6
      <3>4. N - i = N /\ i < N + 1
        BY <2>1, <1>2
      <3>5. QED
        BY <2>1, <3>1, <3>2, <3>3, <3>4
    <2>2. CASE i # 0
      <3>1. i - 1 \in 0 .. RootHistorySize - 1
        BY <2>2, RingFact
      <3>2. /\ A!SlotBack(u, i) = A!SlotBack(a, i - 1)
            /\ A!SlotBack(u, i) \in 0 .. RootHistorySize - 1
            /\ A!SlotBack(u, i) # a.head
        <4> DEFINE R == RootHistorySize
                   h == a.head
                   g == u.head
                   slot(k, n) == IF n < k THEN k - 1 - n ELSE k - 1 - n + R
        <4>1. R \in Nat /\ h \in 0 .. R - 1 /\ i \in 0 .. R - 1 /\ g = IF h + 1 = R THEN 0 ELSE h + 1
          BY <1>2, <1>3, RingFact
        <4>2. A!SlotBack(u, i) = slot(g, i) /\ A!SlotBack(a, i - 1) = slot(h, i - 1)
          BY DEF A!SlotBack
        <4> HIDE DEF R, h, g
        <4>3. slot(g, i) = slot(h, i - 1) /\ slot(g, i) \in 0 .. R - 1 /\ slot(g, i) # h
          BY <2>2, <4>1
        <4>4. QED
          BY <4>2, <4>3 DEF R, h
      <3>3. u.roots[A!SlotBack(u, i)] = a.roots[A!SlotBack(a, i - 1)]
        BY <3>2, <1>1, <1>2
      <3>4. a.roots[A!SlotBack(a, i - 1)] =
              IF i - 1 < N THEN A!RootOf(SubSeq(a.leaves, 1, N - 1 - (i - 1))) ELSE A!ZeroRoot
        BY <3>1 DEF A!RingExact
      <3>5. N - 1 - (i - 1) = N - i /\ (i - 1 < N <=> i < N + 1)
        BY <1>2, RingFact
      <3>6. i < N + 1 => SubSeq(u.leaves, 1, N - i) = SubSeq(a.leaves, 1, N - i)
        BY <1>2, <1>5, RingFact
      <3>7. QED
        BY <3>3, <3>4, <3>5, <3>6
    <2>3. QED
      BY <2>1, <2>2
  <1>8. A!RingExact(u)
    <2>1. ASSUME NEW i \in 0 .. RootHistorySize - 1
          PROVE  u.roots[A!SlotBack(u, i)] =
                   IF i < Len(u.leaves) THEN A!RootOf(SubSeq(u.leaves, 1, Len(u.leaves) - 1 - i))
                                        ELSE A!ZeroRoot
      <3>1. Len(u.leaves) - 1 - i = N - i
        BY <1>2, <1>4, RingFact
      <3>2. QED
        BY <1>4, <1>7, <3>1
    <2>2. QED
      BY <1>1, <2>1 DEF A!RingExact
  <1>9. u \in A!Tree(S)
    <2>1. u.current \in A!Root(S)
      BY <1>1, <1>4 DEF A!Root, A!RootOf
    <2>2. u.roots \in [0 .. RootHistorySize - 1 -> A!Root(S)]
      BY <1>1, <1>2
    <2>3. u.head \in 0 .. RootHistorySize - 1
      BY <1>1, <1>2, HeadNext
    <2>4. QED
      BY <1>1, <1>4, <2>1, <2>2, <2>3 DEF A!Tree
  <1>10. QED
    BY <1>1, <1>8, <1>9 DEF u

\* The slots of the ring, and what contains_root finds there.
LEMMA RingSlotOf ==
  ASSUME NEW S, NEW a \in A!Tree(S), A!RingExact(a), NEW s \in RingSlots
  PROVE  \/ a.roots[s] = A!ZeroRoot
         \/ \E m \in 0 .. Len(a.leaves) : a.roots[s] = A!RootOf(SubSeq(a.leaves, 1, m))
  <1> DEFINE N == Len(a.leaves)
             i == IF s < a.head THEN a.head - 1 - s ELSE a.head - 1 - s + RootHistorySize
  <1>1. a.head \in 0 .. RootHistorySize - 1 /\ N \in Nat
    BY DEF A!Tree
  <1>2. i \in 0 .. RootHistorySize - 1 /\ A!SlotBack(a, i) = s
    BY <1>1, RingFact DEF A!SlotBack
  <1> HIDE DEF i
  <1>3. a.roots[s] = IF i < N THEN A!RootOf(SubSeq(a.leaves, 1, N - 1 - i)) ELSE A!ZeroRoot
    BY <1>2 DEF A!RingExact
  <1>4. i < N => N - 1 - i \in 0 .. N
    BY <1>1, <1>2, RingFact
  <1>5. QED
    BY <1>3, <1>4

LEMMA RingPrefix ==
  ASSUME NEW S, NEW a \in A!Tree(S), A!RingExact(a),
         NEW k \in 1 .. RootHistorySize, k <= Len(a.leaves)
  PROVE  \E s \in RingSlots : a.roots[s] = A!RootOf(SubSeq(a.leaves, 1, Len(a.leaves) - k))
  <1> DEFINE N == Len(a.leaves)
             i == k - 1
             s == A!SlotBack(a, i)
  <1>1. a.head \in 0 .. RootHistorySize - 1 /\ N \in Nat
    BY DEF A!Tree
  <1>2. i \in 0 .. RootHistorySize - 1 /\ i < N /\ N - 1 - i = N - k
    BY <1>1, RingFact
  <1>3. s \in RingSlots
    BY <1>1, <1>2, RingFact DEF A!SlotBack
  <1>4. a.roots[s] = IF i < N THEN A!RootOf(SubSeq(a.leaves, 1, N - 1 - i)) ELSE A!ZeroRoot
    BY <1>2 DEF A!RingExact
  <1>5. QED
    BY <1>2, <1>3, <1>4

\* Roots are pairs, so that none of them is the zero word.
LEMMA RootPair ==
  ASSUME NEW l
  PROVE  /\ ReferenceRoot(l) # ZeroWord
         /\ IsWord(ReferenceRoot(l))
  <1> DEFINE d == Depth - 1
  <1>1. d \in Levels /\ d + 1 = Depth
    BY DepthFact
  <1> HIDE DEF d
  <1>2. Ref(l, d + 1, 0) = <<Ref(l, d, 2 * 0), Ref(l, d, 2 * 0 + 1)>>
    BY <1>1, RefFact DEF poseidon2
  <1>3. PICK x, y : ReferenceRoot(l) = <<x, y>>
    BY <1>1, <1>2 DEF ReferenceRoot, Ref
  <1>4. Len(<<x, y>>) = 2 /\ <<x, y>> # <<>>
    OBVIOUS
  <1>5. QED
    BY <1>3, <1>4 DEF IsWord, ZeroWord

\* The words that append_leaf stores are words.
LEMMA NodesWord ==
  ASSUME NEW x, IsWord(x), NEW i \in Nat, NEW path, NEW d \in 0 .. Depth
  PROVE  IsWord(Nodes(x, i, path)[d])
  <1> DEFINE nodes == Nodes(x, i, path)
  <1>1. nodes[0] = x /\ \A m \in Levels : nodes[m + 1] = Combined(i, m, nodes[m], path)
    BY NodesClimb
  <1> HIDE DEF nodes
  <1>2. CASE d = 0
    BY <1>1, <1>2 DEF nodes
  <1>3. CASE d # 0
    <2>1. PICK m \in Levels : d = m + 1
      <3>1. d - 1 \in Levels /\ d = (d - 1) + 1
        BY <1>3, DepthFact
      <3>2. QED
        BY <3>1
    <2>2. PICK y, z : nodes[d] = <<y, z>>
      BY <1>1, <2>1 DEF Combined, poseidon2
    <2>3. Len(<<y, z>>) = 2
      OBVIOUS
    <2>4. QED
      BY <2>2, <2>3 DEF nodes, IsWord
  <1>4. QED
    BY <1>2, <1>3

\* The empty vault.
LEMMA EmptyRel == \A S : TreeRel(EmptyConfig, A!EmptyTree, S)
  <1> SUFFICES ASSUME NEW S  PROVE TreeRel(EmptyConfig, A!EmptyTree, S)
    OBVIOUS
  <1> DEFINE t == EmptyConfig
             a == A!EmptyTree
  <1>1. /\ a.leaves = <<>> /\ a.current = A!RootOf(<<>>) /\ a.head = 0
        /\ a.roots = [i \in 0 .. RootHistorySize - 1 |-> A!ZeroRoot]
    BY DEF A!EmptyTree
  <1>2. /\ t.leafCount = 0 /\ t.rightPath = [d \in Levels |-> ZeroWord] /\ t.current = Zeros[Depth]
        /\ t.roots = [i \in RingSlots |-> ZeroWord] /\ t.head = 0
    BY DEF EmptyConfig
  <1>3. a \in A!Tree(S)
    BY RingFact DEF A!EmptyTree, A!Tree, A!Root, A!RootOf, A!ZeroRoot
  <1>4. A!RingExact(a)
    <2>1. ASSUME NEW i \in 0 .. RootHistorySize - 1
          PROVE  A!SlotBack(a, i) \in 0 .. RootHistorySize - 1 /\ ~(i < Len(a.leaves))
      BY <1>1, RingFact DEF A!SlotBack
    <2>2. QED
      BY <1>1, <2>1 DEF A!RingExact
  <1> HIDE DEF t, a
  <1>5. Len(a.leaves) = 0 /\ Len(a.leaves) <= TreeCapacity
    BY <1>1, CapacityFact
  <1>6. PathOf(a.leaves, t.rightPath)
    <2>1. ASSUME NEW d \in Levels  PROVE Bit(0, d) # 1
      <3>1. d \in Nat /\ 2^d \in Nat \ {0}
        BY DepthFact, PowerOfTwo
      <3>2. 0 \div 2^d = 0 /\ 0 % 2 = 0
        BY <3>1
      <3>3. QED
        BY <3>2 DEF Bit
    <2>2. QED
      BY <1>5, <2>1 DEF PathOf
  <1>7. IsWord(ZeroWord)
    BY DEF IsWord, ZeroWord
  <1>8. t.current = WordOf(a.current)
    <2>1. Ref(<<>>, Depth, 0) = Zeros[Depth]
      <3>1. Len(<<>>) = 0 /\ Depth \in 0 .. Depth /\ 0 \in Nat
        BY DepthFact
      <3>2. QED
        BY <3>1, RefZero
    <2>2. QED
      BY <1>1, <1>2, <2>1 DEF WordOf, A!RootOf, ReferenceRoot, Ref
  <1>9. \A i \in RingSlots : t.roots[i] = WordOf(a.roots[i])
    BY <1>1, <1>2 DEF RingSlots, WordOf, A!ZeroRoot
  <1>10. TreeRel(t, a, S)
    BY <1>1, <1>2, <1>3, <1>4, <1>5, <1>6, <1>7, <1>8, <1>9 DEF TreeRel
  <1>11. QED
    BY <1>10 DEF t, a

\* append_leaf with push_root, on both.
LEMMA AppendRel ==
  ASSUME NEW S, NEW t, NEW a, TreeRel(t, a, S), NEW x \in S, IsWord(x),
         Len(a.leaves) < TreeCapacity
  PROVE  TreeRel(Appended(t, x), A!AppendLeaf(a, x), S)
  <1> DEFINE u == Appended(t, x)
             b == A!AppendLeaf(a, x)
             N == Len(a.leaves)
  <1>1. /\ b \in A!Tree(S) /\ A!RingExact(b) /\ b.leaves = Append(a.leaves, x)
        /\ b.current = A!RootOf(Append(a.leaves, x))
        /\ b.roots = [a.roots EXCEPT ![a.head] = a.current]
        /\ b.head = (a.head + 1) % RootHistorySize
    <2>1. a \in A!Tree(S) /\ A!RingExact(a)
      BY DEF TreeRel
    <2>2. b \in A!Tree(S) /\ A!RingExact(b)
      BY ONLY <2>1, x \in S, AppendTree
    <2>3. QED
      BY <2>2 DEF A!AppendLeaf, A!PushedRoots, A!PushedHead
  <1>2. /\ u.leafCount = t.leafCount + 1
        /\ u.rightPath = NewPath(x, t.leafCount, t.rightPath)
        /\ u.current = NewRoot(x, t.leafCount, t.rightPath)
        /\ u.roots = [t.roots EXCEPT ![t.head] = t.current]
        /\ u.head = (t.head + 1) % RootHistorySize
    BY DEF Appended
  <1> HIDE DEF u, b
  <1>3. /\ a.leaves \in Seq(S) /\ a.head \in RingSlots /\ N \in Nat
        /\ a.roots \in [RingSlots -> A!Root(S)]
    BY DEF TreeRel, A!Tree, RingSlots
  <1>4. Len(b.leaves) = N + 1 /\ Len(b.leaves) <= TreeCapacity
    BY <1>1, <1>3, CapacityFact
  <1>5. t.leafCount = N /\ t.head = a.head /\ DOMAIN t.roots = RingSlots
    BY DEF TreeRel
  <1>6. /\ NewRoot(x, N, t.rightPath) = ReferenceRoot(Append(a.leaves, x))
        /\ PathOf(Append(a.leaves, x), NewPath(x, N, t.rightPath))
    <2>1. PathOf(a.leaves, t.rightPath) /\ N < 2^Depth
      BY CapacityFact DEF TreeRel
    <2>2. QED
      BY <1>3, <2>1, AppendRef
  <1>7. DOMAIN u.rightPath = Levels /\ \A d \in Levels : IsWord(u.rightPath[d])
    <2>1. ASSUME NEW d \in Levels  PROVE IsWord(Nodes(x, N, t.rightPath)[d])
      <3>1. d \in 0 .. Depth
        BY DepthFact
      <3>2. QED
        BY <1>3, <3>1, NodesWord
    <2>2. \A d \in Levels : IsWord(t.rightPath[d])
      BY DEF TreeRel
    <2>3. QED
      BY <1>2, <1>5, <2>1, <2>2 DEF NewPath
  <1>8. u.current = WordOf(b.current)
    BY <1>1, <1>2, <1>5, <1>6 DEF WordOf, A!RootOf
  <1>9. ASSUME NEW i \in RingSlots  PROVE u.roots[i] = WordOf(b.roots[i])
    <2>1. t.roots[i] = WordOf(a.roots[i]) /\ t.current = WordOf(a.current)
      BY DEF TreeRel
    <2>2. QED
      BY <1>1, <1>2, <1>3, <1>5, <2>1
  <1>10. TreeRel(u, b, S)
    BY <1>1, <1>2, <1>4, <1>5, <1>6, <1>7, <1>8, <1>9 DEF TreeRel
  <1>11. QED
    BY <1>10 DEF u, b

\* contains_root finds the root of every tree of the last RootHistorySize
\* appends.
LEMMA ContainsPrefix ==
  ASSUME NEW S, TreeRel(tree, ideal, S), NEW k \in 0 .. RootHistorySize, k <= Len(ideal.leaves)
  PROVE  ContainsRoot(ReferenceRoot(Prefix(ideal.leaves, Len(ideal.leaves) - k)))
  <1> DEFINE N == Len(ideal.leaves)
  <1>1. /\ ideal \in A!Tree(S) /\ A!RingExact(ideal) /\ ideal.leaves \in Seq(S) /\ N \in Nat
        /\ ideal.current = A!RootOf(ideal.leaves)
    BY DEF TreeRel, A!Tree, A!RingExact
  <1>2. CASE k = 0
    <2>1. N - k = N /\ Prefix(ideal.leaves, N) = ideal.leaves
      BY <1>1, <1>2 DEF Prefix
    <2>2. tree.current = ReferenceRoot(ideal.leaves)
      BY <1>1 DEF TreeRel, WordOf, A!RootOf
    <2>3. QED
      BY <2>1, <2>2 DEF ContainsRoot
  <1>3. CASE k # 0
    <2>1. k \in 1 .. RootHistorySize
      BY <1>3, RingFact
    <2>2. PICK s \in RingSlots : ideal.roots[s] = A!RootOf(SubSeq(ideal.leaves, 1, N - k))
      BY <1>1, <2>1, RingPrefix
    <2>3. tree.roots[s] = ReferenceRoot(Prefix(ideal.leaves, N - k))
      <3>1. tree.roots[s] = WordOf(ideal.roots[s])
        BY DEF TreeRel
      <3>2. WordOf(ideal.roots[s]) = ReferenceRoot(SubSeq(ideal.leaves, 1, N - k))
        BY <2>2 DEF WordOf, A!RootOf
      <3>3. QED
        BY <3>1, <3>2 DEF Prefix
    <2>4. QED
      BY <2>3 DEF ContainsRoot
  <1>4. QED
    BY <1>2, <1>3

\* The words that a client reads as known roots are roots of prefixes.
LEMMA KnownRoots ==
  ASSUME NEW S, TreeRel(tree, ideal, S),
         NEW w \in {tree.current} \cup ({tree.roots[i] : i \in RingSlots} \ {ZeroWord})
  PROVE  \E m \in 0 .. Len(ideal.leaves) : w = ReferenceRoot(Prefix(ideal.leaves, m))
  <1> DEFINE N == Len(ideal.leaves)
  <1>1. /\ ideal \in A!Tree(S) /\ A!RingExact(ideal) /\ ideal.leaves \in Seq(S) /\ N \in Nat
        /\ ideal.current = A!RootOf(ideal.leaves)
    BY DEF TreeRel, A!Tree, A!RingExact
  <1>2. CASE w = tree.current
    <2>1. N \in 0 .. N /\ Prefix(ideal.leaves, N) = ideal.leaves
      BY <1>1 DEF Prefix
    <2>2. tree.current = ReferenceRoot(ideal.leaves)
      BY <1>1 DEF TreeRel, WordOf, A!RootOf
    <2>3. QED
      BY <1>2, <2>1, <2>2
  <1>3. CASE w # tree.current
    <2>1. PICK i \in RingSlots : w = tree.roots[i] /\ w # ZeroWord
      BY <1>3
    <2>2. w = WordOf(ideal.roots[i])
      BY <2>1 DEF TreeRel
    <2>3. ideal.roots[i] # A!ZeroRoot
      BY <2>1, <2>2 DEF WordOf, A!ZeroRoot
    <2>4. PICK m \in 0 .. N : ideal.roots[i] = A!RootOf(SubSeq(ideal.leaves, 1, m))
      BY <1>1, <2>3, RingSlotOf
    <2>5. w = ReferenceRoot(Prefix(ideal.leaves, m))
      BY <2>2, <2>4 DEF WordOf, A!RootOf, Prefix
    <2>6. QED
      BY <2>5
  <1>4. QED
    BY <1>2, <1>3

-----------------------------------------------------------------------------
(***************************************************************************)
(* A transaction that appends several leaves.                              *)
(***************************************************************************)

TreeAfter(ls) ==
    CHOOSE after : after = [n \in 0 .. Len(ls) |-> IF n = 0 THEN tree ELSE Appended(after[n - 1], ls[n])]

LEMMA AppendedAllFact ==
  ASSUME NEW ls, Len(ls) \in Nat
  PROVE  /\ TreeAfter(ls)[0] = tree
         /\ \A n \in 0 .. Len(ls) - 1 : TreeAfter(ls)[n + 1] = Appended(TreeAfter(ls)[n], ls[n + 1])
         /\ AppendedAll(ls) = TreeAfter(ls)[Len(ls)]
  <1> DEFINE N == Len(ls)
             Step(f, k) == IF k = 0 THEN tree ELSE Appended(f[k - 1], ls[k])
             Z(f, n) == f = [k \in 0 .. n |-> Step(f, k)]
             S == {n \in Nat : \E f : Z(f, n)}
  <1>1. 0 \in S
    <2>1. Z([k \in 0 .. 0 |-> tree], 0)
      OBVIOUS
    <2>2. QED
      BY <2>1
  <1>2. ASSUME NEW n \in 0 .. N - 1, n \in S  PROVE n + 1 \in S
    <2>1. PICK f : Z(f, n)
      BY <1>2
    <2> DEFINE g == [k \in 0 .. n + 1 |-> IF k <= n THEN f[k] ELSE Step(f, n + 1)]
    <2>2. n \in Nat
      OBVIOUS
    <2>3. \A k \in 0 .. n : f[k] = Step(f, k)
      BY <2>1
    <2>4. ASSUME NEW k \in 0 .. n + 1  PROVE g[k] = Step(g, k)
      <3>1. k # 0 => g[k - 1] = f[k - 1]
        BY <2>2
      <3>2. Step(g, k) = Step(f, k)
        BY <3>1
      <3> HIDE DEF Step
      <3>3. CASE k <= n
        <4>1. k \in 0 .. n /\ g[k] = f[k]
          BY <2>2, <3>3
        <4>2. QED
          BY <2>3, <3>2, <4>1
      <3>4. CASE k = n + 1
        BY <2>2, <3>2, <3>4
      <3>5. QED
        BY <2>2, <3>3, <3>4
    <2>5. g = [k \in 0 .. n + 1 |-> Step(g, k)]
      <3> HIDE DEF Step
      <3>1. QED
        BY <2>4
    <2>6. Z(g, n + 1)
      BY <2>5
    <2> HIDE DEF g, Z
    <2>7. QED
      BY <2>2, <2>6
  <1> HIDE DEF S
  <1>3. N \in S
    <2>1. N \in Nat /\ N \in 0 .. N
      OBVIOUS
    <2>2. QED
      BY ONLY <1>1, <1>2, <2>1, Induction
  <1>4. \E f : Z(f, N)
    BY <1>3 DEF S
  <1> DEFINE after == TreeAfter(ls)
  <1>5. Z(after, N)
    BY <1>4 DEF TreeAfter
  <1>6. AppendedAll(ls) = after[N]
    BY DEF AppendedAll, TreeAfter
  <1> HIDE DEF after
  <1>7. \A k \in 0 .. N : after[k] = Step(after, k)
    BY <1>5
  <1>8. after[0] = tree
    BY <1>7
  <1>9. ASSUME NEW n \in 0 .. N - 1  PROVE after[n + 1] = Appended(after[n], ls[n + 1])
    <2>1. PICK k \in 0 .. N : k = n + 1 /\ k # 0 /\ k - 1 = n
      OBVIOUS
    <2>2. after[k] = Appended(after[k - 1], ls[k])
      BY <1>7, <2>1
    <2>3. QED
      BY <2>1, <2>2
  <1>10. QED
    BY <1>6, <1>8, <1>9 DEF after

IdealAfter(ls) ==
    CHOOSE after : after = [n \in 0 .. Len(ls) |-> IF n = 0 THEN ideal ELSE A!AppendLeaf(after[n - 1], ls[n])]

LEMMA IdealAppendedAllFact ==
  ASSUME NEW ls, Len(ls) \in Nat
  PROVE  /\ IdealAfter(ls)[0] = ideal
         /\ \A n \in 0 .. Len(ls) - 1 : IdealAfter(ls)[n + 1] = A!AppendLeaf(IdealAfter(ls)[n], ls[n + 1])
         /\ IdealAppendedAll(ls) = IdealAfter(ls)[Len(ls)]
  <1> DEFINE N == Len(ls)
             Step(f, k) == IF k = 0 THEN ideal ELSE A!AppendLeaf(f[k - 1], ls[k])
             Z(f, n) == f = [k \in 0 .. n |-> Step(f, k)]
             S == {n \in Nat : \E f : Z(f, n)}
  <1>1. 0 \in S
    <2>1. Z([k \in 0 .. 0 |-> ideal], 0)
      OBVIOUS
    <2>2. QED
      BY <2>1
  <1>2. ASSUME NEW n \in 0 .. N - 1, n \in S  PROVE n + 1 \in S
    <2>1. PICK f : Z(f, n)
      BY <1>2
    <2> DEFINE g == [k \in 0 .. n + 1 |-> IF k <= n THEN f[k] ELSE Step(f, n + 1)]
    <2>2. n \in Nat
      OBVIOUS
    <2>3. \A k \in 0 .. n : f[k] = Step(f, k)
      BY <2>1
    <2>4. ASSUME NEW k \in 0 .. n + 1  PROVE g[k] = Step(g, k)
      <3>1. k # 0 => g[k - 1] = f[k - 1]
        BY <2>2
      <3>2. Step(g, k) = Step(f, k)
        BY <3>1
      <3> HIDE DEF Step
      <3>3. CASE k <= n
        <4>1. k \in 0 .. n /\ g[k] = f[k]
          BY <2>2, <3>3
        <4>2. QED
          BY <2>3, <3>2, <4>1
      <3>4. CASE k = n + 1
        BY <2>2, <3>2, <3>4
      <3>5. QED
        BY <2>2, <3>3, <3>4
    <2>5. g = [k \in 0 .. n + 1 |-> Step(g, k)]
      <3> HIDE DEF Step
      <3>1. QED
        BY <2>4
    <2>6. Z(g, n + 1)
      BY <2>5
    <2> HIDE DEF g, Z
    <2>7. QED
      BY <2>2, <2>6
  <1> HIDE DEF S
  <1>3. N \in S
    <2>1. N \in Nat /\ N \in 0 .. N
      OBVIOUS
    <2>2. QED
      BY ONLY <1>1, <1>2, <2>1, Induction
  <1>4. \E f : Z(f, N)
    BY <1>3 DEF S
  <1> DEFINE after == IdealAfter(ls)
  <1>5. Z(after, N)
    BY <1>4 DEF IdealAfter
  <1>6. IdealAppendedAll(ls) = after[N]
    BY DEF IdealAppendedAll, IdealAfter
  <1> HIDE DEF after
  <1>7. \A k \in 0 .. N : after[k] = Step(after, k)
    BY <1>5
  <1>8. after[0] = ideal
    BY <1>7
  <1>9. ASSUME NEW n \in 0 .. N - 1  PROVE after[n + 1] = A!AppendLeaf(after[n], ls[n + 1])
    <2>1. PICK k \in 0 .. N : k = n + 1 /\ k # 0 /\ k - 1 = n
      OBVIOUS
    <2>2. after[k] = A!AppendLeaf(after[k - 1], ls[k])
      BY <1>7, <2>1
    <2>3. QED
      BY <2>1, <2>2
  <1>10. QED
    BY <1>6, <1>8, <1>9 DEF after

LEMMA ConcatStep ==
  ASSUME NEW S, NEW p \in Seq(S), NEW q \in Seq(S), NEW n \in 0 .. Len(q) - 1
  PROVE  /\ Append(p \o SubSeq(q, 1, n), q[n + 1]) = p \o SubSeq(q, 1, n + 1)
         /\ Len(p \o SubSeq(q, 1, n)) = Len(p) + n
  <1>1. n \in Nat /\ q[n + 1] \in S
    OBVIOUS
  <1>2. /\ SubSeq(q, 1, n) \in Seq(S) /\ Len(SubSeq(q, 1, n)) = n
        /\ SubSeq(q, 1, n + 1) \in Seq(S) /\ Len(SubSeq(q, 1, n + 1)) = n + 1
    BY <1>1
  <1>3. /\ \A j \in 1 .. n : SubSeq(q, 1, n)[j] = q[j]
        /\ \A j \in 1 .. n + 1 : SubSeq(q, 1, n + 1)[j] = q[j]
    BY <1>1
  <1> DEFINE u == SubSeq(q, 1, n)
             v == SubSeq(q, 1, n + 1)
             x == q[n + 1]
             l == Append(p \o u, x)
             r == p \o v
  <1> HIDE DEF u, v, x
  <1>4. l \in Seq(S) /\ r \in Seq(S) /\ Len(p \o u) = Len(p) + n /\ Len(l) = Len(p) + n + 1 /\ Len(r) = Len(p) + n + 1
    BY <1>1, <1>2 DEF u, v, x
  <1>5. ASSUME NEW j \in 1 .. Len(p) + n + 1  PROVE l[j] = r[j]
    <2>1. CASE j <= Len(p)
      BY <1>1, <1>2, <2>1 DEF u, v
    <2>2. CASE j > Len(p) /\ j <= Len(p) + n
      <3>1. j - Len(p) \in 1 .. n /\ j - Len(p) \in 1 .. n + 1
        BY <1>1, <2>2
      <3>2. l[j] = u[j - Len(p)] /\ r[j] = v[j - Len(p)]
        BY <1>1, <1>2, <2>2 DEF u, v
      <3>3. QED
        BY <1>3, <3>1, <3>2 DEF u, v
    <2>3. CASE j = Len(p) + n + 1
      <3>1. l[j] = x /\ r[j] = v[n + 1]
        BY <1>1, <1>2, <1>4, <2>3 DEF u, v
      <3>2. v[n + 1] = x
        BY <1>1, <1>3 DEF v, x
      <3>3. QED
        BY <3>1, <3>2
    <2>4. Len(p) \in Nat /\ (j <= Len(p) \/ (j > Len(p) /\ j <= Len(p) + n) \/ j = Len(p) + n + 1)
      BY <1>1
    <2>5. QED
      BY ONLY <2>1, <2>2, <2>3, <2>4
  <1> HIDE DEF l, r
  <1>6. l = r
    BY <1>4, <1>5
  <1>7. QED
    BY <1>4, <1>6 DEF l, r, u, v, x

\* The tree and the abstract tree after a transaction with the leaves ls.
LEMMA LandRel ==
  ASSUME NEW S, TreeRel(tree, ideal, S), NEW ls \in Seq(S), \A x \in S : IsWord(x),
         Len(ideal.leaves) + Len(ls) <= TreeCapacity
  PROVE  /\ TreeRel(AppendedAll(ls), IdealAppendedAll(ls), S)
         /\ IdealAppendedAll(ls).leaves = ideal.leaves \o ls
  <1> DEFINE N == Len(ls)
             M == Len(ideal.leaves)
  <1>1. ideal.leaves \in Seq(S) /\ M \in Nat /\ N \in Nat
    BY DEF TreeRel, A!Tree
  <1> DEFINE f == TreeAfter(ls)
             g == IdealAfter(ls)
  <1>2. /\ f[0] = tree
        /\ \A n \in 0 .. N - 1 : f[n + 1] = Appended(f[n], ls[n + 1])
        /\ AppendedAll(ls) = f[N]
    BY <1>1, AppendedAllFact
  <1>3. /\ g[0] = ideal
        /\ \A n \in 0 .. N - 1 : g[n + 1] = A!AppendLeaf(g[n], ls[n + 1])
        /\ IdealAppendedAll(ls) = g[N]
    BY <1>1, IdealAppendedAllFact
  <1> HIDE DEF f, g
  <1> DEFINE C == {n \in Nat : /\ TreeRel(f[n], g[n], S)
                               /\ g[n].leaves = ideal.leaves \o SubSeq(ls, 1, n)}
  <1>4. 0 \in C
    <2>1. ideal.leaves \o SubSeq(ls, 1, 0) = ideal.leaves
      BY <1>1
    <2>2. QED
      BY <1>2, <1>3, <2>1
  <1>5. ASSUME NEW n \in 0 .. N - 1, n \in C  PROVE n + 1 \in C
    <2> DEFINE x == ls[n + 1]
               t == f[n]
               a == g[n]
    <2>1. n \in Nat /\ x \in S
      BY <1>1
    <2>2. TreeRel(t, a, S) /\ a.leaves = ideal.leaves \o SubSeq(ls, 1, n)
      BY <1>5
    <2>3. f[n + 1] = Appended(t, x) /\ g[n + 1] = A!AppendLeaf(a, x)
      BY <1>2, <1>3
    <2>4. Len(a.leaves) = M + n /\ Append(a.leaves, x) = ideal.leaves \o SubSeq(ls, 1, n + 1)
      <3> DEFINE l == ideal.leaves
      <3>1. Append(l \o SubSeq(ls, 1, n), ls[n + 1]) = l \o SubSeq(ls, 1, n + 1) /\ Len(l \o SubSeq(ls, 1, n)) = Len(l) + n
        <4>1. l \in Seq(S) /\ ls \in Seq(S) /\ n \in 0 .. Len(ls) - 1
          BY <1>1
        <4> HIDE DEF l
        <4>2. QED
          BY ONLY <4>1, ConcatStep
      <3>2. QED
        BY <2>2, <3>1
    <2> HIDE DEF x, t, a
    <2>5. Len(a.leaves) < TreeCapacity
      BY <1>1, <2>1, <2>4, CapacityFact
    <2>6. TreeRel(Appended(t, x), A!AppendLeaf(a, x), S)
      BY <2>1, <2>2, <2>5, AppendRel
    <2>7. A!AppendLeaf(a, x).leaves = Append(a.leaves, x)
      BY DEF A!AppendLeaf
    <2>8. TreeRel(f[n + 1], g[n + 1], S) /\ g[n + 1].leaves = ideal.leaves \o SubSeq(ls, 1, n + 1)
      BY <2>3, <2>4, <2>6, <2>7
    <2>9. n + 1 \in Nat
      BY <2>1
    <2>10. QED
      BY ONLY <2>8, <2>9
  <1> HIDE DEF C
  <1>6. N \in C
    <2>1. N \in 0 .. N
      BY <1>1
    <2>2. QED
      BY ONLY <1>1, <1>4, <1>5, <2>1, Induction
  <1>7. SubSeq(ls, 1, N) = ls
    OBVIOUS
  <1>8. TreeRel(f[N], g[N], S) /\ g[N].leaves = ideal.leaves \o SubSeq(ls, 1, N)
    BY <1>6 DEF C
  <1>9. QED
    BY <1>2, <1>3, <1>7, <1>8

-----------------------------------------------------------------------------
(***************************************************************************)
(* The history of transactions.                                            *)
(***************************************************************************)

LEMMA HistoryEmpty ==
  ASSUME NEW S, NEW h \in Seq(Seq(S))
  PROVE  History(h, <<>>)
  <1> DEFINE off == [k \in 0 .. Len(h) |-> 0]
             b == Len(h)
  <1>1. b \in Nat /\ b \in 0 .. Len(h) /\ off \in [0 .. Len(h) -> Nat]
    OBVIOUS
  <1>2. Hist(h, <<>>, b, off)
    <2>1. \A k \in 0 .. b : off[k] = 0
      OBVIOUS
    <2>2. b + 1 .. Len(h) = {}
      BY <1>1
    <2>3. off[Len(h)] = Len(<<>>)
      BY <1>1
    <2>4. QED
      BY <2>1, <2>2, <2>3 DEF Hist
  <1>3. Once(h, <<>>, b)
    BY DEF Once
  <1>4. QED
    BY <1>1, <1>2, <1>3 DEF History

\* The offsets stay within the tree.
LEMMA HistBound ==
  ASSUME NEW S, NEW h \in Seq(Seq(S)), NEW l \in Seq(S), NEW b \in 0 .. Len(h),
         NEW off \in [0 .. Len(h) -> Nat], Hist(h, l, b, off), NEW k \in b + 1 .. Len(h)
  PROVE  off[k] <= Len(l)
  <1> DEFINE N == Len(h)
             M == Len(l)
  <1>a. N \in Nat /\ M \in Nat /\ b \in Nat /\ b <= N /\ off[N] = M
    BY DEF Hist
  <1>b. \A i \in 1 .. N : Len(h[i]) \in Nat
    OBVIOUS
  <1>c. \A i \in b + 1 .. N : off[i] = off[i - 1] + Len(h[i])
    BY DEF Hist
  <1>d. off \in [0 .. N -> Nat] /\ k \in b + 1 .. N
    OBVIOUS
  <1> HIDE DEF N, M
  <1> DEFINE C == {e \in Nat : off[N - e] <= M}
  <1>2. 0 \in C
    <2>1. N - 0 = N
      BY <1>a
    <2>2. QED
      BY <1>a, <2>1
  <1>3. ASSUME NEW e \in 0 .. (N - k) - 1, e \in C  PROVE e + 1 \in C
    <2> DEFINE m == N - e
    <2>1. m \in b + 1 .. N /\ m - 1 = N - (e + 1) /\ e + 1 \in Nat /\ m \in 1 .. N /\ m - 1 \in 0 .. N /\ m \in 0 .. N
      BY <1>a, <1>d
    <2>2. off[m] <= M
      BY <1>3
    <2> HIDE DEF m
    <2>3. off[m] = off[m - 1] + Len(h[m])
      BY <1>c, <2>1
    <2>4. off[m] \in Nat /\ off[m - 1] \in Nat /\ Len(h[m]) \in Nat
      BY <1>b, <1>d, <2>1
    <2>5. off[m - 1] <= M
      <3> DEFINE x == off[m]
                 y == off[m - 1]
                 z == Len(h[m])
      <3>1. x \in Nat /\ y \in Nat /\ z \in Nat /\ M \in Nat /\ x = y + z /\ x <= M
        BY <1>a, <2>2, <2>3, <2>4
      <3> HIDE DEF x, y, z
      <3>2. y <= M
        BY ONLY <3>1
      <3>3. QED
        BY <3>2 DEF y
    <2>6. QED
      BY ONLY <2>1, <2>5
  <1> HIDE DEF C
  <1>4. N - k \in Nat /\ N - k \in 0 .. N - k /\ N - (N - k) = k
    BY <1>a, <1>d
  <1>5. N - k \in C
    BY ONLY <1>2, <1>3, <1>4, Induction
  <1>6. off[k] <= M
    BY <1>4, <1>5 DEF C
  <1>7. QED
    BY <1>6 DEF M

\* A transaction with new leaves lands.
LEMMA HistoryAppend ==
  ASSUME NEW S, NEW h \in Seq(Seq(S)), NEW l \in Seq(S), NEW ls \in Seq(S), History(h, l),
         Len(l) > 0 => \A j \in 1 .. Len(ls) : ls[j] # l[1],
         (Len(l) = 0 /\ Len(ls) > 0) =>
                       /\ \A j \in 2 .. Len(ls) : ls[j] # ls[1]
                       /\ \A k \in 1 .. Len(h) : \A j \in 1 .. Len(h[k]) : h[k][j] # ls[1]
  PROVE  History(Append(h, ls), l \o ls)
  <1> DEFINE H == Append(h, ls)
             L == l \o ls
             N == Len(h)
             M == Len(l)
  <1>1. PICK b \in 0 .. N, off \in [0 .. N -> Nat] : Hist(h, l, b, off) /\ Once(h, l, b)
    BY DEF History
  <1>2. /\ N \in Nat /\ M \in Nat /\ Len(ls) \in Nat /\ Len(H) = N + 1 /\ Len(L) = M + Len(ls)
        /\ b \in Nat /\ b <= N
    OBVIOUS
  <1>3. H[N + 1] = ls /\ \A k \in 1 .. N : H[k] = h[k]
    OBVIOUS
  <1>4. (\A p \in 1 .. M : L[p] = l[p]) /\ (\A j \in 1 .. Len(ls) : L[M + j] = ls[j])
    BY <1>2
  <1>h. \A k \in 1 .. N : Len(h[k]) \in Nat
    OBVIOUS
  <1> HIDE DEF H, L, N, M
  <1> DEFINE of2 == [k \in 0 .. N + 1 |-> IF k <= N THEN off[k] ELSE M + Len(ls)]
  <1>5. of2 \in [0 .. N + 1 -> Nat] /\ b \in 0 .. N + 1
    BY <1>2
  <1>6. (\A k \in 0 .. N : of2[k] = off[k]) /\ of2[N + 1] = M + Len(ls)
    BY <1>2
  <1> HIDE DEF of2
  <1>7. /\ \A k \in 0 .. b : off[k] = 0
        /\ off[N] = M
    BY <1>1 DEF Hist, N, M
  <1>8. ASSUME NEW k \in b + 1 .. N
        PROVE  /\ off[k] = off[k - 1] + Len(h[k]) /\ off[k] <= M
               /\ \A j \in 1 .. Len(h[k]) : h[k][j] = l[off[k - 1] + j]
    <2>1. /\ off[k] = off[k - 1] + Len(h[k])
          /\ \A j \in 1 .. Len(h[k]) : h[k][j] = l[off[k - 1] + j]
      BY <1>1 DEF Hist, N
    <2>2. off[k] <= M
      BY <1>1, HistBound DEF N, M
    <2>3. QED
      BY <2>1, <2>2
  <1>9. Hist(H, L, b, of2)
    <2>1. \A k \in 0 .. b : of2[k] = 0
      BY <1>2, <1>6, <1>7
    <2>2. ASSUME NEW k \in b + 1 .. N + 1
          PROVE  /\ of2[k] = of2[k - 1] + Len(H[k])
                 /\ \A j \in 1 .. Len(H[k]) : H[k][j] = L[of2[k - 1] + j]
      <3>1. CASE k <= N
        <4>1. k \in b + 1 .. N /\ k \in 1 .. N /\ k \in 0 .. N /\ k - 1 \in 0 .. N
          BY <1>2, <3>1
        <4>2. of2[k] = off[k] /\ of2[k - 1] = off[k - 1] /\ H[k] = h[k]
          BY <1>3, <1>6, <4>1
        <4>3. off[k] \in Nat /\ off[k - 1] \in Nat /\ off[k] = off[k - 1] + Len(h[k]) /\ off[k] <= M /\ Len(h[k]) \in Nat
          BY <1>8, <1>h, <4>1
        <4>4. ASSUME NEW j \in 1 .. Len(h[k])  PROVE h[k][j] = L[off[k - 1] + j]
          <5>1. off[k - 1] + j \in 1 .. M
            <6> DEFINE x == off[k]
                       y == off[k - 1]
                       z == Len(h[k])
            <6>1. x \in Nat /\ y \in Nat /\ z \in Nat /\ M \in Nat /\ x = y + z /\ x <= M /\ j \in 1 .. z
              BY <1>2, <4>3
            <6> HIDE DEF x, y, z
            <6>2. y + j \in 1 .. M
              BY ONLY <6>1
            <6>3. QED
              BY <6>2 DEF y
          <5>2. QED
            BY <1>4, <1>8, <4>1, <5>1
        <4>5. QED
          BY <4>2, <4>3, <4>4
      <3>2. CASE k = N + 1
        <4>1. k - 1 = N /\ N \in 0 .. N
          BY <1>2, <3>2
        <4>2. of2[k - 1] = M /\ of2[k] = M + Len(ls) /\ H[k] = ls
          BY <1>3, <1>6, <1>7, <3>2, <4>1
        <4>3. QED
          BY <1>4, <4>2
      <3>3. QED
        BY <1>2, <3>1, <3>2
    <2>3. of2[N + 1] = Len(L)
      BY <1>2, <1>6
    <2>4. QED
      BY <1>2, <2>1, <2>2, <2>3 DEF Hist
  <1>10. Once(H, L, b)
    <2>1. ASSUME Len(L) > 0, NEW k \in 1 .. b, NEW j \in 1 .. Len(H[k])  PROVE H[k][j] # L[1]
      <3>1. k \in 1 .. N /\ H[k] = h[k] /\ j \in 1 .. Len(h[k])
        BY <1>2, <1>3
      <3>2. CASE M = 0
        <4>1. M + 1 = 1 /\ 1 \in 1 .. Len(ls) /\ Len(ls) > 0
          BY <1>2, <2>1, <3>2
        <4>2. L[M + 1] = ls[1]
          BY <1>4, <4>1
        <4>3. QED
          BY <3>1, <3>2, <4>1, <4>2 DEF N, M
      <3>3. CASE M # 0
        <4>1. M > 0 /\ 1 \in 1 .. M
          BY <1>2, <3>3
        <4>2. L[1] = l[1]
          BY <1>4, <4>1
        <4>3. h[k][j] # l[1]
          BY <1>1, <3>1, <4>1 DEF Once, M
        <4>4. QED
          BY <3>1, <4>2, <4>3
      <3>4. QED
        BY <3>2, <3>3
    <2>2. ASSUME NEW p \in 2 .. Len(L)  PROVE L[p] # L[1]
      <3>1. CASE M = 0
        <4>1. M + 1 = 1 /\ 1 \in 1 .. Len(ls) /\ Len(ls) > 0 /\ p \in 2 .. Len(ls) /\ M + p = p /\ p \in 1 .. Len(ls)
          BY <1>2, <3>1
        <4>2. L[M + 1] = ls[1] /\ L[M + p] = ls[p]
          BY <1>4, <4>1
        <4>3. ls[p] # ls[1]
          BY <3>1, <4>1 DEF M
        <4>4. QED
          BY <4>1, <4>2, <4>3
      <3>2. CASE M # 0
        <4>1. M > 0 /\ 1 \in 1 .. M
          BY <1>2, <3>2
        <4>2. L[1] = l[1]
          BY <1>4, <4>1
        <4>3. CASE p <= M
          <5>1. p \in 2 .. M /\ p \in 1 .. M
            BY <1>2, <4>3
          <5>2. l[p] # l[1]
            BY <1>1, <4>1, <5>1 DEF Once, M
          <5>3. QED
            BY <1>4, <4>2, <5>1, <5>2
        <4>4. CASE p > M
          <5> DEFINE j == p - M
          <5>1. j \in 1 .. Len(ls) /\ M + j = p
            BY <1>2, <4>4
          <5> HIDE DEF j
          <5>2. L[p] = ls[j] /\ ls[j] # l[1]
            BY <1>4, <4>1, <5>1 DEF M
          <5>3. QED
            BY <4>2, <5>2
        <4>5. QED
          BY <1>2, <4>3, <4>4
      <3>3. QED
        BY <3>1, <3>2
    <2>3. QED
      BY <2>1, <2>2 DEF Once
  <1>11. QED
    BY <1>2, <1>5, <1>9, <1>10 DEF History, H, L

-----------------------------------------------------------------------------
(***************************************************************************)
(* Replaying the history.  What collectVaultLeavesOrdered returns is a     *)
(* prefix of the tree's leaves as soon as its first leaf is the tree's.    *)
(***************************************************************************)

First == IF Len(txs) > MaxSignatures THEN Len(txs) - MaxSignatures ELSE 0

ReplayAfter(count) ==
    CHOOSE after : after = [n \in First .. Len(txs) |->
        IF n = First THEN <<>> ELSE Extended(after[n - 1], txs[n], count)]

LEMMA FirstFact ==
  ASSUME Len(txs) \in Nat
  PROVE  First \in Nat /\ First <= Len(txs)
  BY ClientsAssumption DEF First

LEMMA ReplayFact ==
  ASSUME NEW count, Len(txs) \in Nat
  PROVE  /\ ReplayAfter(count)[First] = <<>>
         /\ \A n \in First .. Len(txs) - 1 :
               ReplayAfter(count)[n + 1] = Extended(ReplayAfter(count)[n], txs[n + 1], count)
         /\ Replay(count) = ReplayAfter(count)[Len(txs)]
  <1> DEFINE N == Len(txs)
             F == First
             Step(f, k) == IF k = F THEN <<>> ELSE Extended(f[k - 1], txs[k], count)
             Z(f, n) == f = [k \in F .. n |-> Step(f, k)]
             S == {e \in Nat : \E f : Z(f, F + e)}
  <1>0. N \in Nat /\ F \in Nat /\ F <= N
    BY FirstFact
  <1>6. Replay(count) = ReplayAfter(count)[N]
    BY DEF Replay, ReplayAfter, First
  <1> HIDE DEF N, F
  <1>1. 0 \in S
    <2>1. Z([k \in F .. F + 0 |-> <<>>], F + 0)
      BY <1>0
    <2>2. QED
      BY <2>1
  <1>2. ASSUME NEW e \in 0 .. (N - F) - 1, e \in S  PROVE e + 1 \in S
    <2> DEFINE n == F + e
    <2>1. PICK f : Z(f, n)
      BY <1>2
    <2>2. n \in Nat /\ F <= n /\ F + (e + 1) = n + 1 /\ e + 1 \in Nat
      BY <1>0
    <2> HIDE DEF n
    <2> DEFINE g == [k \in F .. n + 1 |-> IF k <= n THEN f[k] ELSE Step(f, n + 1)]
    <2>3. \A k \in F .. n : f[k] = Step(f, k)
      BY <2>1
    <2>4. ASSUME NEW k \in F .. n + 1  PROVE g[k] = Step(g, k)
      <3>1. k # F => g[k - 1] = f[k - 1]
        BY <1>0, <2>2
      <3>2. Step(g, k) = Step(f, k)
        BY <3>1
      <3> HIDE DEF Step
      <3>3. CASE k <= n
        <4>1. k \in F .. n /\ g[k] = f[k]
          BY <1>0, <2>2, <3>3
        <4>2. QED
          BY <2>3, <3>2, <4>1
      <3>4. CASE k = n + 1
        <4>1. g[k] = Step(f, n + 1)
          BY <1>0, <2>2, <3>4
        <4>2. QED
          BY <3>2, <3>4, <4>1
      <3>5. QED
        BY <1>0, <2>2, <3>3, <3>4
    <2>5. g = [k \in F .. n + 1 |-> Step(g, k)]
      <3> HIDE DEF Step
      <3>1. QED
        BY <2>4
    <2>6. Z(g, n + 1)
      BY <2>5
    <2> HIDE DEF g, Z
    <2>7. \E x : Z(x, F + (e + 1))
      BY <2>2, <2>6
    <2>8. QED
      BY ONLY <2>2, <2>7
  <1> HIDE DEF S
  <1>3. N - F \in S /\ F + (N - F) = N
    <2>1. N - F \in Nat /\ N - F \in 0 .. N - F /\ F + (N - F) = N
      BY <1>0
    <2>2. QED
      BY ONLY <1>1, <1>2, <2>1, Induction
  <1>4. \E f : Z(f, N)
    BY <1>3 DEF S
  <1> DEFINE after == ReplayAfter(count)
  <1>5. Z(after, N)
    BY <1>4 DEF ReplayAfter, N, F
  <1> HIDE DEF after
  <1>7. \A k \in F .. N : after[k] = Step(after, k)
    BY <1>5
  <1>8. after[F] = <<>>
    <2>1. F \in F .. N
      BY <1>0
    <2>2. QED
      BY <1>7, <2>1
  <1>9. ASSUME NEW n \in F .. N - 1  PROVE after[n + 1] = Extended(after[n], txs[n + 1], count)
    <2>1. PICK k \in F .. N : k = n + 1 /\ k # F /\ k - 1 = n
      BY <1>0
    <2>2. after[k] = Extended(after[k - 1], txs[k], count)
      BY <1>7, <2>1
    <2>3. QED
      BY <2>1, <2>2
  <1>10. QED
    BY <1>6, <1>8, <1>9 DEF after, N, F

LEMMA ReplayPrefix ==
  ASSUME NEW S, txs \in Seq(Seq(S)), NEW l \in Seq(S), History(txs, l), NEW count \in Nat
  PROVE  /\ Replay(count) \in Seq(S)
         /\ (Len(l) > 0 /\ Len(Replay(count)) > 0 /\ Replay(count)[1] = l[1]) =>
               Len(Replay(count)) <= Len(l) /\ Replay(count) = Prefix(l, Len(Replay(count)))
  <1> DEFINE N == Len(txs)
             M == Len(l)
             F == First
             after == ReplayAfter(count)
             Begins(r) == M > 0 /\ Len(r) > 0 /\ r[1] = l[1]
             Good(r, o) ==
               /\ r \in Seq(S)
               /\ Begins(r) => /\ Len(r) <= M
                               /\ \A j \in 1 .. Len(r) : r[j] = l[j]
                               /\ Len(r) = o \/ Len(r) >= count
  <1>1. PICK b \in 0 .. N, off \in [0 .. N -> Nat] : Hist(txs, l, b, off) /\ Once(txs, l, b)
    BY DEF History
  <1>2. /\ N \in Nat /\ M \in Nat /\ b \in Nat /\ b <= N /\ F \in Nat /\ F <= N
        /\ \A k \in 1 .. N : txs[k] \in Seq(S) /\ Len(txs[k]) \in Nat
    BY FirstFact
  <1>3. /\ after[F] = <<>>
        /\ \A n \in F .. N - 1 : after[n + 1] = Extended(after[n], txs[n + 1], count)
        /\ Replay(count) = after[N]
    BY <1>2, ReplayFact
  <1>4. \A k \in 0 .. b : off[k] = 0
    BY <1>1 DEF Hist
  <1>5. \A k \in b + 1 .. N : /\ off[k] = off[k - 1] + Len(txs[k]) /\ off[k] <= M
                              /\ \A j \in 1 .. Len(txs[k]) : txs[k][j] = l[off[k - 1] + j]
    BY <1>1, HistBound DEF Hist
  <1>6. M > 0 => /\ \A k \in 1 .. b : \A j \in 1 .. Len(txs[k]) : txs[k][j] # l[1]
                 /\ \A p \in 2 .. M : l[p] # l[1]
    BY <1>1 DEF Once
  <1> HIDE DEF N, M, F, after
  <1> DEFINE C == {e \in Nat : Good(after[F + e], off[F + e])}
  <1>7. 0 \in C
    <2>1. F + 0 = F
      BY <1>2
    <2>2. Good(<<>>, off[F])
      OBVIOUS
    <2> HIDE DEF Good
    <2>3. QED
      BY <1>3, <2>1, <2>2
  <1>8. ASSUME NEW e \in 0 .. (N - F) - 1, e \in C  PROVE e + 1 \in C
    <2> DEFINE n == F + e
               r == after[n]
               o == off[n]
               k == n + 1
               tx == txs[k]
               q == after[k]
               u == off[k]
    <2>1. /\ e + 1 \in Nat /\ F + (e + 1) = k /\ n \in Nat /\ n \in F .. N - 1 /\ k \in 1 .. N
          /\ k - 1 = n /\ n \in 0 .. N /\ k \in 0 .. N /\ (k <= b => n \in 0 .. b /\ k \in 0 .. b /\ k \in 1 .. b)
          /\ (~(k <= b) => k \in b + 1 .. N)
      BY <1>2
    <2>2. Good(r, o)
      BY <1>8
    <2>3. q = IF Len(r) >= count THEN r ELSE r \o tx
      BY <1>3, <2>1 DEF Extended
    <2>4. o \in Nat /\ u \in Nat /\ tx \in Seq(S) /\ Len(tx) \in Nat /\ r \in Seq(S) /\ Len(r) \in Nat
      BY <1>2, <2>1, <2>2
    <2>5. k <= b => o = 0 /\ u = 0 /\ \A j \in 1 .. Len(tx) : M > 0 => tx[j] # l[1]
      BY <1>4, <1>6, <2>1
    <2>6. ~(k <= b) => u = o + Len(tx) /\ u <= M /\ \A j \in 1 .. Len(tx) : tx[j] = l[o + j]
      <3>1. SUFFICES ASSUME ~(k <= b)
                     PROVE  u = o + Len(tx) /\ u <= M /\ \A j \in 1 .. Len(tx) : tx[j] = l[o + j]
        OBVIOUS
      <3>2. k \in b + 1 .. N /\ k - 1 = n
        BY <2>1, <3>1
      <3>3. /\ off[k] = off[k - 1] + Len(txs[k]) /\ off[k] <= M
            /\ \A j \in 1 .. Len(txs[k]) : txs[k][j] = l[off[k - 1] + j]
        BY ONLY <1>5, <3>2
      <3>4. QED
        BY ONLY <3>2, <3>3 DEF u, o, tx
    <2> HIDE DEF n, r, o, k, tx, q, u
    <2>7. Good(q, u)
      <3>1. CASE Len(r) >= count
        <4>1. q = r
          BY <2>3, <3>1
        <4>2. QED
          BY <2>2, <3>1, <4>1
      <3>2. CASE ~(Len(r) >= count)
        <4>1. q = r \o tx
          BY <2>3, <3>2
        <4>2. q \in Seq(S) /\ Len(q) = Len(r) + Len(tx)
          BY <2>4, <4>1
        <4>3. (\A j \in 1 .. Len(r) : q[j] = r[j]) /\ (\A j \in 1 .. Len(tx) : q[Len(r) + j] = tx[j])
          BY <2>4, <4>1
        <4>4. ASSUME Begins(q)
              PROVE  Len(q) <= M /\ (\A j \in 1 .. Len(q) : q[j] = l[j]) /\ Len(q) = u
          <5>1. CASE Len(tx) = 0
            <6>1. Len(q) = Len(r) /\ Len(r) > 0 /\ 1 \in 1 .. Len(r)
              BY <2>4, <4>2, <4>4, <5>1
            <6>2. Begins(r)
              BY <4>3, <4>4, <6>1
            <6>3. Len(r) <= M /\ Len(r) = o /\ \A j \in 1 .. Len(r) : r[j] = l[j]
              BY <2>2, <3>2, <6>2
            <6>4. u = o
              BY <2>4, <2>5, <2>6, <5>1
            <6>5. QED
              BY <4>3, <6>1, <6>3, <6>4
          <5>2. CASE Len(tx) # 0 /\ Len(r) = 0
            <6>1. 1 \in 1 .. Len(tx) /\ Len(q) = Len(tx) /\ \A j \in 1 .. Len(tx) : q[j] = tx[j]
              <7>1. \A j \in 1 .. Len(tx) : Len(r) + j = j
                BY <5>2
              <7>2. QED
                BY <2>4, <4>2, <4>3, <5>2, <7>1
            <6>2. tx[1] = l[1] /\ M > 0
              BY <4>4, <6>1
            <6>3. ~(k <= b)
              BY <2>5, <6>1, <6>2
            <6>4. u = o + Len(tx) /\ u <= M /\ tx[1] = l[o + 1]
              BY <2>6, <6>1, <6>3
            <6>5. o = 0
              <7>1. o + 1 \in 1 .. M
                BY <1>2, <2>4, <5>2, <6>4
              <7>2. o + 1 \notin 2 .. M
                BY <1>6, <6>2, <6>4
              <7>3. QED
                BY <1>2, <2>4, <7>1, <7>2
            <6>6. \A j \in 1 .. Len(tx) : o + j = j
              BY <6>5
            <6>7. QED
              BY <2>4, <2>6, <6>1, <6>3, <6>4, <6>5, <6>6
          <5>3. CASE Len(tx) # 0 /\ Len(r) # 0
            <6>1. Len(r) > 0 /\ 1 \in 1 .. Len(r)
              BY <2>4, <5>3
            <6>2. Begins(r)
              BY <4>3, <4>4, <6>1
            <6>3. Len(r) <= M /\ Len(r) = o /\ \A j \in 1 .. Len(r) : r[j] = l[j]
              BY <2>2, <3>2, <6>2
            <6>4. ~(k <= b)
              BY <2>5, <6>1, <6>3
            <6>5. u = o + Len(tx) /\ u <= M /\ \A j \in 1 .. Len(tx) : tx[j] = l[o + j]
              BY <2>6, <6>4
            <6>6. ASSUME NEW j \in 1 .. Len(q)  PROVE q[j] = l[j]
              <7>1. CASE j <= Len(r)
                <8>1. j \in 1 .. Len(r)
                  BY <2>4, <7>1
                <8>2. QED
                  BY <4>3, <6>3, <8>1
              <7>2. CASE j > Len(r)
                <8> DEFINE i == j - Len(r)
                <8>1. i \in 1 .. Len(tx) /\ Len(r) + i = j /\ o + i = j
                  BY <2>4, <4>2, <6>3, <7>2
                <8> HIDE DEF i
                <8>2. QED
                  BY <4>3, <6>5, <8>1
              <7>3. QED
                BY <2>4, <7>1, <7>2
            <6>7. QED
              BY <2>4, <4>2, <6>3, <6>5, <6>6
          <5>4. QED
            BY <5>1, <5>2, <5>3
        <4>5. QED
          BY <4>2, <4>4
      <3>3. QED
        BY <3>1, <3>2
    <2> HIDE DEF Good
    <2>8. Good(after[F + (e + 1)], off[F + (e + 1)])
      BY <2>1, <2>7 DEF q, u
    <2>9. e + 1 \in Nat
      BY <2>1
    <2>10. QED
      BY ONLY <2>8, <2>9
  <1> HIDE DEF C
  <1>9. N - F \in Nat /\ N - F \in 0 .. N - F /\ F + (N - F) = N
    BY <1>2
  <1>10. N - F \in C
    BY ONLY <1>7, <1>8, <1>9, Induction
  <1>11. Good(after[N], off[N])
    <2> HIDE DEF Good
    <2>1. QED
      BY <1>9, <1>10 DEF C
  <1> DEFINE R == Replay(count)
  <1>12. R \in Seq(S) /\ (Begins(R) => Len(R) <= M /\ \A j \in 1 .. Len(R) : R[j] = l[j])
    BY <1>3, <1>11
  <1> HIDE DEF R
  <1>13. ASSUME Begins(R)  PROVE Len(R) <= M /\ R = Prefix(l, Len(R))
    <2>1. Len(R) \in Nat /\ Len(R) <= M /\ \A j \in 1 .. Len(R) : R[j] = l[j]
      BY <1>12, <1>13
    <2> DEFINE P == Prefix(l, Len(R))
    <2>2. P \in Seq(S) /\ Len(P) = Len(R) /\ \A j \in 1 .. Len(R) : P[j] = l[j]
      BY <1>2, <2>1 DEF Prefix, M
    <2> HIDE DEF P
    <2>3. R \in Seq(S) /\ \A j \in 1 .. Len(R) : R[j] = P[j]
      BY <1>12, <2>1, <2>2
    <2>4. R = P
      BY ONLY <2>2, <2>3
    <2>5. QED
      BY <2>1, <2>4 DEF P
  <1>14. QED
    BY <1>12, <1>13 DEF R, M

-----------------------------------------------------------------------------
(***************************************************************************)
(* The leaves that have landed, and those that are new.                    *)
(***************************************************************************)

LEMMA ClientNames == "other" \notin Client
  BY ClientsAssumption DEF Client

LEMMA TupleFact ==
  ASSUME NEW a, NEW b, NEW c, NEW x, NEW y, NEW z
  PROVE  /\ <<a>> # <<x, y, z>> /\ <<a>> # <<>> /\ <<x, y, z>> # <<>>
         /\ Len(<<a>>) = 1 /\ Len(<<x, y, z>>) = 3
         /\ <<a>> = <<x>> => a = x
         /\ <<a, b, c>> = <<x, y, z>> => a = x /\ b = y /\ c = z
  OBVIOUS

\* The three kinds of leaves.
LEMMA LandedCases ==
  ASSUME NEW cl, NEW n, NEW x \in Landed(cl, n)
  PROVE  \/ \E c \in Landers(cl) : x = <<c>>
         \/ \E c \in Landers(cl), j \in Nat : x = <<c, "settle", j>>
         \/ \E m \in 0 .. n - 1, j \in Nat : x = <<"other", m, j>>
  BY DEF Landed, Own

LEMMA LandedWords ==
  ASSUME NEW cl, NEW n
  PROVE  ZeroWord \notin Landed(cl, n) /\ \A x \in Landed(cl, n) : IsWord(x)
  <1>1. ASSUME NEW x \in Landed(cl, n)  PROVE x # ZeroWord /\ Len(x) \in {1, 3}
    <2>1. (\E c : x = <<c>>) \/ (\E c, d, e : x = <<c, d, e>>)
      BY LandedCases
    <2>2. CASE \E c : x = <<c>>
      <3>1. PICK c : x = <<c>>
        BY <2>2
      <3>2. Len(<<c>>) = 1 /\ <<c>> # <<>>
        OBVIOUS
      <3>3. QED
        BY <3>1, <3>2 DEF ZeroWord
    <2>3. CASE \E c, d, e : x = <<c, d, e>>
      <3>1. PICK c, d, e : x = <<c, d, e>>
        BY <2>3
      <3>2. Len(<<c, d, e>>) = 3 /\ <<c, d, e>> # <<>>
        OBVIOUS
      <3>3. QED
        BY <3>1, <3>2 DEF ZeroWord
    <2>4. QED
      BY <2>1, <2>2, <2>3
  <1>2. QED
    BY <1>1 DEF IsWord

LEMMA LandedMonotone ==
  ASSUME NEW cl, NEW dl, Landers(cl) \subseteq Landers(dl), NEW m \in Nat, NEW n \in Nat, m <= n
  PROVE  Landed(cl, m) \subseteq Landed(dl, n)
  <1>1. 0 .. m - 1 \subseteq 0 .. n - 1
    OBVIOUS
  <1>2. QED
    BY <1>1 DEF Landed

\* A client's own leaves are new until its transaction lands ...
LEMMA OwnFresh ==
  ASSUME NEW cl, NEW n \in Nat, NEW c \in Client \ Landers(cl), NEW j
  PROVE  Own(c) \notin Landed(cl, n) /\ <<c, "settle", j>> \notin Landed(cl, n)
  <1>1. c # "other"
    BY ClientNames
  <1>2. ASSUME <<c>> \in Landed(cl, n)  PROVE FALSE
    BY <1>2, LandedCases, TupleFact
  <1>3. ASSUME <<c, "settle", j>> \in Landed(cl, n)  PROVE FALSE
    BY <1>1, <1>3, LandedCases, TupleFact
  <1>4. QED
    BY <1>2, <1>3 DEF Own

\* ... and another party's transaction has leaves of its own.
LEMMA OtherFresh ==
  ASSUME NEW cl, NEW n \in Nat, NEW j
  PROVE  <<"other", n, j>> \notin Landed(cl, n)
  <1>1. ASSUME <<"other", n, j>> \in Landed(cl, n)  PROVE FALSE
    <2>1. CASE \E c \in Landers(cl) : <<"other", n, j>> = <<c>>
      BY <2>1, TupleFact
    <2>2. CASE \E c \in Landers(cl), i \in Nat : <<"other", n, j>> = <<c, "settle", i>>
      <3>1. "other" \in Landers(cl)
        BY <2>2, TupleFact
      <3>2. QED
        BY <3>1, ClientNames DEF Landers
    <2>3. CASE \E m \in 0 .. n - 1, i \in Nat : <<"other", n, j>> = <<"other", m, i>>
      <3>1. n \in 0 .. n - 1
        BY <2>3, TupleFact
      <3>2. QED
        BY <3>1
    <2>4. QED
      BY <1>1, <2>1, <2>2, <2>3, LandedCases
  <1>2. QED
    BY <1>1

LEMMA TreeRelMonotone ==
  ASSUME NEW S, NEW T, S \subseteq T, NEW t, NEW a, TreeRel(t, a, S)
  PROVE  TreeRel(t, a, T)
  <1>1. Seq(S) \subseteq Seq(T)
    OBVIOUS
  <1>2. A!Root(S) \subseteq A!Root(T)
    BY <1>1 DEF A!Root
  <1>3. [0 .. RootHistorySize - 1 -> A!Root(S)] \subseteq [0 .. RootHistorySize - 1 -> A!Root(T)]
    BY <1>2
  <1>4. A!Tree(S) \subseteq A!Tree(T)
    BY <1>1, <1>2, <1>3 DEF A!Tree
  <1>5. QED
    BY <1>4 DEF TreeRel

-----------------------------------------------------------------------------
(***************************************************************************)
(* Ageing: what a client knows stays true of the tree as it was, r.age     *)
(* leaves ago, while other transactions land.                              *)
(***************************************************************************)

LEMMA PrefixFact ==
  ASSUME NEW S, NEW l \in Seq(S), NEW m \in 0 .. Len(l)
  PROVE  /\ Prefix(l, m) \in Seq(S) /\ Len(Prefix(l, m)) = m
         /\ \A j \in 1 .. m : Prefix(l, m)[j] = l[j]
         /\ Prefix(l, Len(l)) = l
         /\ \A k \in 0 .. m : Prefix(Prefix(l, m), k) = Prefix(l, k)
  <1>1. m \in Nat /\ Len(l) \in Nat
    OBVIOUS
  <1>2. /\ Prefix(l, m) \in Seq(S) /\ Len(Prefix(l, m)) = m
        /\ \A j \in 1 .. m : Prefix(l, m)[j] = l[j]
    BY <1>1 DEF Prefix
  <1>3. Prefix(l, Len(l)) = l
    BY DEF Prefix
  <1>4. ASSUME NEW k \in 0 .. m  PROVE Prefix(Prefix(l, m), k) = Prefix(l, k)
    <2> DEFINE p == Prefix(l, m)
               u == Prefix(p, k)
               v == Prefix(l, k)
    <2>1. k \in Nat /\ k <= m /\ k <= Len(l)
      BY <1>1
    <2>2. p \in Seq(S) /\ Len(p) = m /\ \A j \in 1 .. m : p[j] = l[j]
      BY <1>2
    <2> HIDE DEF p
    <2>3. u \in Seq(S) /\ Len(u) = k /\ \A j \in 1 .. k : u[j] = p[j]
      BY <1>1, <2>1, <2>2 DEF Prefix
    <2>4. v \in Seq(S) /\ Len(v) = k /\ \A j \in 1 .. k : v[j] = l[j]
      BY <1>1, <2>1 DEF Prefix
    <2> HIDE DEF u, v
    <2>5. \A j \in 1 .. k : u[j] = v[j]
      BY <1>1, <2>1, <2>2, <2>3, <2>4
    <2>6. u = v
      BY ONLY <2>3, <2>4, <2>5
    <2>7. QED
      BY <2>6 DEF u, v, p
  <1>5. QED
    BY <1>2, <1>3, <1>4

LEMMA PrefixConcat ==
  ASSUME NEW S, NEW l \in Seq(S), NEW q \in Seq(S), NEW m \in 0 .. Len(l)
  PROVE  Prefix(l \o q, m) = Prefix(l, m)
  <1> DEFINE k == l \o q
             u == Prefix(k, m)
             v == Prefix(l, m)
  <1>1. m \in Nat /\ Len(l) \in Nat /\ Len(q) \in Nat
    OBVIOUS
  <1>2. k \in Seq(S) /\ Len(k) = Len(l) + Len(q) /\ \A j \in 1 .. Len(l) : k[j] = l[j]
    OBVIOUS
  <1> HIDE DEF k
  <1>3. u \in Seq(S) /\ Len(u) = m /\ \A j \in 1 .. m : u[j] = k[j]
    BY <1>1, <1>2 DEF Prefix
  <1>4. v \in Seq(S) /\ Len(v) = m /\ \A j \in 1 .. m : v[j] = l[j]
    BY <1>1 DEF Prefix
  <1> HIDE DEF u, v
  <1>5. \A j \in 1 .. m : u[j] = v[j]
    BY <1>1, <1>2, <1>3, <1>4
  <1>6. u = v
    BY ONLY <1>3, <1>4, <1>5
  <1>7. QED
    BY <1>6 DEF u, v, k

LEMMA AgeFact ==
  ASSUME NEW r, NEW l, NEW S, NEW c, ClientOK(r, l, S, c), NEW n \in Nat
  PROVE  LET s == [r EXCEPT !.age = Older(@, n)]
         IN  /\ s = [pc |-> r.pc, index |-> r.index, path |-> r.path, count |-> r.count,
                     roots |-> r.roots, leaves |-> r.leaves, witness |-> r.witness, age |-> s.age]
             /\ s.age \in 0 .. Old /\ (s.age <= RootHistorySize => s.age = r.age + n)
             /\ n >= Old => s.age = Old
  <1> DEFINE s == [r EXCEPT !.age = Older(@, n)]
             R == [pc |-> r.pc, index |-> r.index, path |-> r.path, count |-> r.count,
                   roots |-> r.roots, leaves |-> r.leaves, witness |-> r.witness, age |-> r.age]
  <1>1. r = R /\ r.age \in 0 .. Old
    BY DEF ClientOK
  <1>2. [R EXCEPT !.age = Older(@, n)] =
          [pc |-> r.pc, index |-> r.index, path |-> r.path, count |-> r.count,
           roots |-> r.roots, leaves |-> r.leaves, witness |-> r.witness, age |-> Older(r.age, n)]
    OBVIOUS
  <1>3. s = [pc |-> r.pc, index |-> r.index, path |-> r.path, count |-> r.count,
             roots |-> r.roots, leaves |-> r.leaves, witness |-> r.witness, age |-> Older(r.age, n)]
    BY <1>1, <1>2
  <1> HIDE DEF s, R
  <1>4. s.age = Older(r.age, n)
    BY <1>3
  <1>5. /\ Older(r.age, n) \in 0 .. Old
        /\ Older(r.age, n) <= RootHistorySize => Older(r.age, n) = r.age + n
        /\ n >= Old => Older(r.age, n) = Old
    BY <1>1, RingFact DEF Older, Old
  <1>6. QED
    BY <1>3, <1>4, <1>5 DEF s

LEMMA ClientAges ==
  ASSUME NEW S, NEW l \in Seq(S), NEW ls \in Seq(S), NEW r, NEW c, ClientOK(r, l, S, c)
  PROVE  ClientOK([r EXCEPT !.age = Older(@, Len(ls))], l \o ls, S, c)
  <1> DEFINE n == Len(ls)
             s == [r EXCEPT !.age = Older(@, n)]
             k == l \o ls
             M == Len(l)
  <1>1. n \in Nat /\ M \in Nat /\ Len(k) = M + n
    OBVIOUS
  <1>2. \A m \in 0 .. M : Prefix(k, m) = Prefix(l, m)
    BY PrefixConcat
  <1>3. M > 0 => k[1] = l[1]
    OBVIOUS
  <1>4. /\ s = [pc |-> r.pc, index |-> r.index, path |-> r.path, count |-> r.count,
                roots |-> r.roots, leaves |-> r.leaves, witness |-> r.witness, age |-> s.age]
        /\ s.age \in 0 .. Old /\ (s.age <= RootHistorySize => s.age = r.age + n)
    BY <1>1, AgeFact
  <1>5. /\ r.pc \in {"idle", "placed", "owned", "reading", "replayed", "prepared", "withdrawn"}
        /\ r.index \in 0 .. TreeCapacity /\ r.leaves \in Seq(S) /\ r.age \in 0 .. Old
        /\ r.pc \in {"reading", "replayed"} => ReadOK(r, l)
        /\ r.pc = "replayed" => ReplayOK(r, l)
        /\ r.pc = "prepared" => PreparedOK(r, l, c)
    BY DEF ClientOK
  <1> HIDE DEF s, k, n, M
  <1>6. /\ s.pc = r.pc /\ s.index = r.index /\ s.path = r.path /\ s.count = r.count
        /\ s.roots = r.roots /\ s.leaves = r.leaves /\ s.witness = r.witness
    BY <1>4
  <1>7. ASSUME s.age <= RootHistorySize
        PROVE  r.age <= RootHistorySize /\ (r.age <= M => /\ s.age <= Len(k) /\ Len(k) - s.age = M - r.age
                                                         /\ M - r.age \in 0 .. M)
    <2>1. s.age = r.age + n /\ r.age \in Nat /\ RootHistorySize \in Nat
      BY <1>4, <1>5, <1>7, RingFact DEF Old
    <2>2. QED
      BY ONLY <1>1, <1>7, <2>1
  <1>8. ASSUME ReadOK(r, l)  PROVE ReadOK(s, k)
    <2>1. ASSUME s.age <= RootHistorySize
          PROVE  /\ s.age <= Len(k) /\ s.count = Len(k) - s.age
                 /\ ReferenceRoot(Prefix(k, s.count)) \in s.roots
                 /\ \A w \in s.roots : \E m \in 0 .. s.count : w = ReferenceRoot(Prefix(k, m))
      <3>1. /\ r.age <= M /\ r.count = M - r.age
            /\ ReferenceRoot(Prefix(l, r.count)) \in r.roots
            /\ \A w \in r.roots : \E m \in 0 .. r.count : w = ReferenceRoot(Prefix(l, m))
        BY <1>7, <1>8, <2>1 DEF ReadOK, M
      <3>2. s.age <= Len(k) /\ s.count = Len(k) - s.age /\ r.count \in 0 .. M
        BY <1>6, <1>7, <2>1, <3>1
      <3>3. \A m \in 0 .. r.count : Prefix(k, m) = Prefix(l, m)
        BY <1>1, <1>2, <3>2
      <3>4. r.count \in 0 .. r.count
        BY <1>1, <3>2
      <3>5. QED
        BY <1>6, <3>1, <3>2, <3>3, <3>4
    <2>2. QED
      BY <1>6, <1>8, <2>1 DEF ReadOK
  <1>9. ASSUME ReadOK(r, l), ReplayOK(r, l)  PROVE ReplayOK(s, k)
    <2>1. ASSUME s.age <= RootHistorySize, Len(s.leaves) > 0, s.leaves[1] = k[1]
          PROVE  Len(s.leaves) <= Len(k) /\ s.leaves = Prefix(k, Len(s.leaves))
      <3>1. r.count >= 1 /\ r.age <= RootHistorySize /\ r.age <= M /\ r.count = M - r.age /\ r.count \in Nat
        BY <1>7, <1>9, <2>1, CapacityFact DEF ReadOK, M
      <3>2. M > 0
        BY <1>1, <1>5, <3>1
      <3>3. Len(r.leaves) <= M /\ r.leaves = Prefix(l, Len(r.leaves))
        BY <1>3, <1>6, <1>9, <2>1, <3>1, <3>2 DEF ReplayOK, M
      <3>4. Len(r.leaves) \in 0 .. M
        BY <1>1, <1>5, <3>3
      <3>5. QED
        BY <1>1, <1>2, <1>6, <3>3, <3>4
    <2>2. QED
      BY <2>1 DEF ReplayOK
  <1>10. ASSUME PreparedOK(r, l, c)  PROVE PreparedOK(s, k, c)
    <2>1. ASSUME s.age <= RootHistorySize
          PROVE  s.age <= Len(k) /\ s.witness.root = ReferenceRoot(Prefix(k, Len(k) - s.age))
      <3>1. r.age <= M /\ r.witness.root = ReferenceRoot(Prefix(l, M - r.age))
        BY <1>7, <1>10, <2>1 DEF PreparedOK, M
      <3>2. QED
        BY <1>2, <1>6, <1>7, <2>1, <3>1
    <2>2. QED
      BY <1>6, <1>10, <2>1 DEF PreparedOK
  <1>11. ClientOK(s, k, S, c)
    BY <1>4, <1>5, <1>6, <1>8, <1>9, <1>10 DEF ClientOK
  <1>12. QED
    BY <1>11 DEF s, k, n

\* A reset makes every reading old.
LEMMA ClientReset ==
  ASSUME NEW S, NEW l, NEW r, NEW c, ClientOK(r, l, S, c)
  PROVE  ClientOK([r EXCEPT !.age = Older(@, Old)], <<>>, S, c)
  <1> DEFINE s == [r EXCEPT !.age = Older(@, Old)]
  <1>1. Old \in Nat /\ Old >= Old /\ ~(Old <= RootHistorySize)
    BY RingFact DEF Old
  <1>2. /\ s = [pc |-> r.pc, index |-> r.index, path |-> r.path, count |-> r.count,
                roots |-> r.roots, leaves |-> r.leaves, witness |-> r.witness, age |-> s.age]
        /\ s.age \in 0 .. Old /\ s.age = Old
    BY <1>1, AgeFact
  <1>3. /\ r.pc \in {"idle", "placed", "owned", "reading", "replayed", "prepared", "withdrawn"}
        /\ r.index \in 0 .. TreeCapacity /\ r.leaves \in Seq(S)
        /\ r.pc \in {"reading", "replayed"} => ReadOK(r, l)
        /\ r.pc = "prepared" => PreparedOK(r, l, c)
    BY DEF ClientOK
  <1> HIDE DEF s
  <1>4. /\ s.pc = r.pc /\ s.index = r.index /\ s.path = r.path /\ s.count = r.count
        /\ s.roots = r.roots /\ s.leaves = r.leaves /\ s.witness = r.witness
        /\ ~(s.age <= RootHistorySize)
    BY <1>1, <1>2
  <1>5. ReadOK(r, l) => ReadOK(s, <<>>)
    BY <1>4 DEF ReadOK
  <1>6. ReplayOK(s, <<>>)
    BY <1>4 DEF ReplayOK
  <1>7. PreparedOK(r, l, c) => PreparedOK(s, <<>>, c)
    BY <1>4 DEF PreparedOK
  <1>8. ClientOK(s, <<>>, S, c)
    BY <1>2, <1>3, <1>4, <1>5, <1>6, <1>7 DEF ClientOK
  <1>9. QED
    BY <1>8 DEF s

LEMMA ClientMonotone ==
  ASSUME NEW S, NEW T, S \subseteq T, NEW l, NEW r, NEW c, ClientOK(r, l, S, c)
  PROVE  ClientOK(r, l, T, c)
  <1>1. r.leaves \in Seq(T)
    BY DEF ClientOK
  <1>2. QED
    BY <1>1 DEF ClientOK

-----------------------------------------------------------------------------
(***************************************************************************)
(* The steps.  First the shape shared by the steps of one client.          *)
(***************************************************************************)

Record(pc, index, path, count, roots, leaves, witness, age) ==
    [pc |-> pc, index |-> index, path |-> path, count |-> count,
     roots |-> roots, leaves |-> leaves, witness |-> witness, age |-> age]

LEMMA RecordFact ==
  ASSUME NEW a, NEW b, NEW c, NEW d, NEW e, NEW f, NEW g, NEW h, NEW s,
         s = Record(a, b, c, d, e, f, g, h)
  PROVE  /\ s = [pc |-> s.pc, index |-> s.index, path |-> s.path, count |-> s.count,
                 roots |-> s.roots, leaves |-> s.leaves, witness |-> s.witness, age |-> s.age]
         /\ s.pc = a /\ s.index = b /\ s.path = c /\ s.count = d
         /\ s.roots = e /\ s.leaves = f /\ s.witness = g /\ s.age = h
  BY DEF Record

LEMMA InvFacts ==
  ASSUME ClientsInv
  PROVE  LET S == Landed(client, others)
         IN  /\ TreeRel(tree, ideal, S)
             /\ txs \in Seq(Seq(S)) /\ History(txs, ideal.leaves)
             /\ DOMAIN client = Client
             /\ \A c \in Client : ClientOK(client[c], ideal.leaves, S, c)
             /\ others \in 0 .. MaxOthers /\ resets \in 0 .. MaxResets
             /\ ideal.leaves \in Seq(S) /\ Len(ideal.leaves) \in 0 .. TreeCapacity
             /\ tree.leafCount = Len(ideal.leaves)
             /\ tree.current = ReferenceRoot(ideal.leaves)
  <1> DEFINE S == Landed(client, others)
  <1>1. /\ TreeRel(tree, ideal, S)
        /\ txs \in Seq(Seq(S)) /\ History(txs, ideal.leaves)
        /\ DOMAIN client = Client
        /\ \A c \in Client : ClientOK(client[c], ideal.leaves, S, c)
        /\ others \in 0 .. MaxOthers /\ resets \in 0 .. MaxResets
    BY DEF ClientsInv
  <1>2. ideal \in A!Tree(S) /\ tree.leafCount = Len(ideal.leaves) /\ Len(ideal.leaves) <= TreeCapacity
    BY <1>1 DEF TreeRel
  <1>3. ideal.leaves \in Seq(S)
    BY <1>2 DEF A!Tree
  <1> HIDE DEF S
  <1>4. Len(ideal.leaves) \in 0 .. TreeCapacity
    BY <1>2, <1>3, CapacityFact
  <1>5. tree.current = ReferenceRoot(ideal.leaves)
    <2>1. ideal.current = A!RootOf(ideal.leaves) /\ tree.current = WordOf(ideal.current)
      BY <1>1 DEF TreeRel, A!RingExact
    <2>2. QED
      BY <2>1 DEF WordOf, A!RootOf
  <1>6. QED
    BY <1>1, <1>2, <1>3, <1>4, <1>5 DEF S

LEMMA ClientFacts ==
  ASSUME ClientsInv, NEW c \in Client
  PROVE  LET r == client[c]
         IN  /\ r = Record(r.pc, r.index, r.path, r.count, r.roots, r.leaves, r.witness, r.age)
             /\ r.pc \in {"idle", "placed", "owned", "reading", "replayed", "prepared", "withdrawn"}
             /\ r.index \in 0 .. TreeCapacity /\ r.leaves \in Seq(Landed(client, others))
             /\ r.age \in 0 .. Old
             /\ r.pc \in {"reading", "replayed"} => ReadOK(r, ideal.leaves)
             /\ r.pc = "replayed" => ReplayOK(r, ideal.leaves)
             /\ r.pc = "prepared" => PreparedOK(r, ideal.leaves, c)
  <1>1. ClientOK(client[c], ideal.leaves, Landed(client, others), c)
    BY InvFacts
  <1>2. QED
    BY <1>1 DEF ClientOK, Record

\* A step of the client c that appends no leaf.
LEMMA OneClient ==
  ASSUME ClientsInv, NEW c \in Client, UNCHANGED <<tree, others, resets, ideal>>,
         txs' = txs \/ txs' = Append(txs, <<>>),
         DOMAIN client' = Client, \A d \in Client \ {c} : client'[d] = client[d],
         ClientOK(client'[c], ideal.leaves, Landed(client, others), c),
         client[c].pc \notin {"idle", "placed"} => client'[c].pc \notin {"idle", "placed"}
  PROVE  ClientsInv'
  <1> DEFINE S == Landed(client, others)
             T == Landed(client', others)
             l == ideal.leaves
  <1>1. /\ TreeRel(tree, ideal, S) /\ txs \in Seq(Seq(S)) /\ History(txs, l)
        /\ \A d \in Client : ClientOK(client[d], l, S, d)
        /\ others \in 0 .. MaxOthers /\ resets \in 0 .. MaxResets /\ l \in Seq(S)
    BY InvFacts
  <1>2. S \subseteq T
    <2>1. Landers(client) \subseteq Landers(client')
      BY DEF Landers
    <2>2. others \in Nat /\ others <= others
      BY <1>1, ClientsAssumption
    <2>3. QED
      BY <2>1, <2>2, LandedMonotone
  <1> HIDE DEF S, T, l
  <1>3. TreeRel(tree, ideal, T)
    BY <1>1, <1>2, TreeRelMonotone
  <1>4. Seq(S) \subseteq Seq(T) /\ <<>> \in Seq(S)
    BY <1>2
  <1>5. txs' \in Seq(Seq(S)) /\ History(txs', l)
    <2>1. CASE txs' = txs
      BY <1>1, <2>1
    <2>2. CASE txs' = Append(txs, <<>>)
      <3>1. History(Append(txs, <<>>), l \o <<>>)
        <4>1. ~(Len(<<>>) > 0) /\ 1 .. Len(<<>>) = {}
          OBVIOUS
        <4>2. QED
          BY <1>1, <1>4, <4>1, HistoryAppend
      <3>2. l \o <<>> = l
        BY <1>1
      <3>3. QED
        BY <1>1, <1>4, <2>2, <3>1, <3>2
    <2>3. QED
      BY <2>1, <2>2
  <1>6. txs' \in Seq(Seq(T))
    BY <1>4, <1>5
  <1>7. ASSUME NEW d \in Client  PROVE ClientOK(client'[d], l, T, d)
    <2>1. ClientOK(client'[d], l, S, d)
      <3>1. CASE d = c
        BY <3>1 DEF S, l
      <3>2. CASE d # c
        BY <1>1, <3>2
      <3>3. QED
        BY <3>1, <3>2
    <2>2. QED
      BY <1>2, <2>1, ClientMonotone
  <1>8. QED
    BY <1>1, <1>3, <1>5, <1>6, <1>7 DEF ClientsInv, T, l

\* A record with no obligation but its type.
LEMMA PlainOK ==
  ASSUME NEW S, NEW l, NEW c, NEW pc \in {"idle", "placed", "owned", "withdrawn"},
         NEW index \in 0 .. TreeCapacity, NEW path, NEW count, NEW roots,
         NEW leaves \in Seq(S), NEW witness, NEW age \in 0 .. Old
  PROVE  ClientOK(Record(pc, index, path, count, roots, leaves, witness, age), l, S, c)
  <1> DEFINE s == Record(pc, index, path, count, roots, leaves, witness, age)
  <1>1. /\ s = [pc |-> s.pc, index |-> s.index, path |-> s.path, count |-> s.count,
                roots |-> s.roots, leaves |-> s.leaves, witness |-> s.witness, age |-> s.age]
        /\ s.pc = pc /\ s.index = index /\ s.leaves = leaves /\ s.age = age
    BY RecordFact
  <1> HIDE DEF s
  <1>2. /\ s.pc \in {"idle", "placed", "owned", "reading", "replayed", "prepared", "withdrawn"}
        /\ s.pc \notin {"reading", "replayed"} /\ s.pc # "replayed" /\ s.pc # "prepared"
    BY <1>1
  <1>3. ClientOK(s, l, S, c)
    BY <1>1, <1>2 DEF ClientOK
  <1>4. QED
    BY <1>3 DEF s

LEMMA PreparedRecord ==
  ASSUME NEW S, NEW l, NEW c, NEW index \in 0 .. TreeCapacity, NEW path, NEW count, NEW roots,
         NEW leaves \in Seq(S), NEW w, NEW age \in 0 .. Old, Verifies(w, Own(c)),
         age <= RootHistorySize =>
            age <= Len(l) /\ w.root = ReferenceRoot(Prefix(l, Len(l) - age))
  PROVE  ClientOK(Record("prepared", index, path, count, roots, leaves, w, age), l, S, c)
  <1> DEFINE s == Record("prepared", index, path, count, roots, leaves, w, age)
  <1>1. /\ s = [pc |-> s.pc, index |-> s.index, path |-> s.path, count |-> s.count,
                roots |-> s.roots, leaves |-> s.leaves, witness |-> s.witness, age |-> s.age]
        /\ s.pc = "prepared" /\ s.index = index /\ s.leaves = leaves /\ s.witness = w /\ s.age = age
    BY RecordFact
  <1> HIDE DEF s
  <1>2. PreparedOK(s, l, c)
    BY <1>1 DEF PreparedOK
  <1>3. ClientOK(s, l, S, c)
    BY <1>1, <1>2 DEF ClientOK
  <1>4. QED
    BY <1>3 DEF s

\* private-deposit, merkle-position-fetch and leafBeforeSettle
LEMMA PlacedStep ==
  ASSUME ClientsInv, NEW c \in Client,
         PrivateDeposit(c) \/ MerklePositionFetch(c) \/ LeafBeforeSettle(c)
  PROVE  ClientsInv'
  <1> DEFINE r == client[c]
             s == client'[c]
  <1>1. /\ r = Record(r.pc, r.index, r.path, r.count, r.roots, r.leaves, r.witness, r.age)
        /\ r.leaves \in Seq(Landed(client, others)) /\ r.age \in 0 .. Old
    BY ClientFacts
  <1>2. /\ DOMAIN client = Client /\ tree.leafCount \in 0 .. TreeCapacity
    BY InvFacts
  <1>3. /\ UNCHANGED <<tree, txs, others, resets, ideal>> /\ DOMAIN client' = Client
        /\ \A d \in Client \ {c} : client'[d] = client[d]
        /\ r.pc = "idle"
    BY <1>2 DEF PrivateDeposit, MerklePositionFetch, LeafBeforeSettle
  <1>4. \E path : s = Record("placed", tree.leafCount, path, r.count, r.roots, r.leaves, r.witness, r.age)
    <2>1. CASE PrivateDeposit(c)
      <3>1. s = [r EXCEPT !.pc = "placed", !.index = tree.leafCount, !.path = tree.rightPath]
        BY <1>2, <2>1 DEF PrivateDeposit
      <3>2. s = Record("placed", tree.leafCount, tree.rightPath, r.count, r.roots, r.leaves, r.witness, r.age)
        BY <1>1, <3>1 DEF Record
      <3>3. QED
        BY <3>2
    <2>2. CASE MerklePositionFetch(c) \/ LeafBeforeSettle(c)
      <3>1. s = [r EXCEPT !.pc = "placed", !.index = tree.leafCount]
        BY <1>2, <2>2 DEF MerklePositionFetch, LeafBeforeSettle
      <3>2. s = Record("placed", tree.leafCount, r.path, r.count, r.roots, r.leaves, r.witness, r.age)
        BY <1>1, <3>1 DEF Record
      <3>3. QED
        BY <3>2
    <2>3. QED
      BY <2>1, <2>2
  <1> HIDE DEF r, s
  <1>5. PICK path : s = Record("placed", tree.leafCount, path, r.count, r.roots, r.leaves, r.witness, r.age)
    BY <1>4
  <1>6. ClientOK(s, ideal.leaves, Landed(client, others), c)
    BY <1>1, <1>2, <1>5, PlainOK
  <1>7. r.pc \in {"idle", "placed"}
    BY <1>3
  <1>8. QED
    BY <1>3, <1>6, <1>7, OneClient DEF r, s

LEMMA WithdrawPrepareStep ==
  ASSUME ClientsInv, NEW c \in Client, WithdrawPrepare(c)
  PROVE  ClientsInv'
  <1> DEFINE r == client[c]
             s == client'[c]
             l == ideal.leaves
             w == WitnessFromPriorRightPath(Own(c), r.index, r.path)
  <1>1. /\ r = Record(r.pc, r.index, r.path, r.count, r.roots, r.leaves, r.witness, r.age)
        /\ r.leaves \in Seq(Landed(client, others)) /\ r.index \in 0 .. TreeCapacity
    BY ClientFacts
  <1>2. DOMAIN client = Client /\ tree.current = ReferenceRoot(l) /\ Len(l) \in Nat
        /\ l \in Seq(Landed(client, others))
    BY InvFacts, CapacityFact
  <1>3. /\ UNCHANGED <<tree, txs, others, resets, ideal>> /\ w.root = tree.current
        /\ client' = [Prepare(c, w) EXCEPT ![c].age = 0]
    BY DEF WithdrawPrepare, LatestLeaf
  <1>4. Verifies(w, Own(c))
    <2>1. r.index \in Nat
      BY <1>1, CapacityFact
    <2>2. QED
      BY <2>1, PriorPathVerifies
  <1> HIDE DEF w
  <1>5. DOMAIN client' = Client /\ \A d \in Client \ {c} : client'[d] = client[d]
    BY <1>2, <1>3 DEF Prepare
  <1>6. s = [r EXCEPT !.pc = "prepared", !.witness = w, !.age = 0]
    BY <1>2, <1>3 DEF Prepare
  <1>7. s = Record("prepared", r.index, r.path, r.count, r.roots, r.leaves, w, 0)
    BY <1>1, <1>6 DEF Record
  <1> HIDE DEF r, s
  <1>8. ClientOK(s, l, Landed(client, others), c)
    <2>1. 0 \in 0 .. Old /\ 0 <= Len(l) /\ Len(l) - 0 = Len(l)
      BY <1>2, RingFact DEF Old
    <2>2. Prefix(l, Len(l)) = l
      BY <1>2 DEF Prefix
    <2>3. QED
      BY <1>1, <1>2, <1>3, <1>4, <1>7, <2>1, <2>2, PreparedRecord
  <1>9. s.pc \notin {"idle", "placed"}
    BY <1>7, RecordFact
  <1>10. QED
    BY <1>3, <1>5, <1>8, <1>9, OneClient DEF s

LEMMA MerkleProofFetchStep ==
  ASSUME ClientsInv, NEW c \in Client, MerkleProofFetch(c)
  PROVE  ClientsInv'
  <1> DEFINE r == client[c]
             s == client'[c]
             l == ideal.leaves
             w == Witness(l, r.index)
             S == Landed(client, others)
  <1>1. /\ r = Record(r.pc, r.index, r.path, r.count, r.roots, r.leaves, r.witness, r.age)
        /\ r.leaves \in Seq(S) /\ r.index \in 0 .. TreeCapacity
    BY ClientFacts
  <1>2. /\ DOMAIN client = Client /\ Len(l) \in 0 .. TreeCapacity /\ l \in Seq(S)
        /\ tree.leafCount = Len(l)
    BY InvFacts
  <1>3. /\ UNCHANGED <<tree, txs, others, resets, ideal>> /\ r.index < tree.leafCount
        /\ Verifies(w, Own(c))
        /\ client' = [Prepare(c, w) EXCEPT ![c].age = 0]
    BY DEF MerkleProofFetch
  <1> HIDE DEF S
  <1>4. w.root = ReferenceRoot(l)
    <2>1. Len(l) \in 1 .. 2^Depth /\ r.index \in 0 .. Len(l) - 1
      BY <1>1, <1>2, <1>3, CapacityFact
    <2>2. QED
      BY <1>2, <2>1, WitnessRef
  <1> HIDE DEF w
  <1>5. DOMAIN client' = Client /\ \A d \in Client \ {c} : client'[d] = client[d]
    BY <1>2, <1>3 DEF Prepare
  <1>6. s = [r EXCEPT !.pc = "prepared", !.witness = w, !.age = 0]
    BY <1>2, <1>3 DEF Prepare
  <1>7. s = Record("prepared", r.index, r.path, r.count, r.roots, r.leaves, w, 0)
    BY <1>1, <1>6 DEF Record
  <1> HIDE DEF r, s
  <1>8. ClientOK(s, l, S, c)
    <2>1. 0 \in 0 .. Old /\ 0 <= Len(l) /\ Len(l) - 0 = Len(l)
      BY <1>2, CapacityFact, RingFact DEF Old
    <2>2. Prefix(l, Len(l)) = l
      BY <1>2 DEF Prefix
    <2>3. QED
      BY <1>1, <1>2, <1>3, <1>4, <1>7, <2>1, <2>2, PreparedRecord
  <1>9. s.pc \notin {"idle", "placed"}
    BY <1>7, RecordFact
  <1>10. QED
    BY <1>3, <1>5, <1>8, <1>9, OneClient DEF s, S

LEMMA WithdrawStep ==
  ASSUME ClientsInv, NEW c \in Client, Withdraw(c)
  PROVE  ClientsInv'
  <1> DEFINE r == client[c]
             s == client'[c]
             l == ideal.leaves
             S == Landed(client, others)
  <1>1. /\ r = Record(r.pc, r.index, r.path, r.count, r.roots, r.leaves, r.witness, r.age)
        /\ r.leaves \in Seq(S) /\ r.index \in 0 .. TreeCapacity /\ r.age \in 0 .. Old
    BY ClientFacts
  <1>2. DOMAIN client = Client
    BY InvFacts
  <1>3. /\ UNCHANGED <<tree, others, resets, ideal>>
        /\ txs' = txs \/ txs' = Append(txs, <<>>)
        /\ \E pc \in {"owned", "withdrawn"} :
              client' = [client EXCEPT ![c].pc = pc, ![c].witness = NoWitness]
    BY DEF Withdraw
  <1>4. PICK pc \in {"owned", "withdrawn"} :
              client' = [client EXCEPT ![c].pc = pc, ![c].witness = NoWitness]
    BY <1>3
  <1>5. DOMAIN client' = Client /\ \A d \in Client \ {c} : client'[d] = client[d]
    BY <1>2, <1>4
  <1>6. s = [r EXCEPT !.pc = pc, !.witness = NoWitness]
    BY <1>2, <1>4
  <1>7. s = Record(pc, r.index, r.path, r.count, r.roots, r.leaves, NoWitness, r.age)
    BY <1>1, <1>6 DEF Record
  <1> HIDE DEF r, s, S
  <1>8. ClientOK(s, l, S, c)
    BY <1>1, <1>7, PlainOK
  <1>9. s.pc \notin {"idle", "placed"}
    BY <1>7, RecordFact
  <1>10. QED
    BY <1>3, <1>5, <1>8, <1>9, OneClient DEF s, S

\* A transaction with new leaves lands.
LEMMA LandStep ==
  ASSUME ClientsInv, NEW cl, DOMAIN cl = Client, NEW n \in Nat, others <= n, n <= MaxOthers,
         \A d \in Client : ClientOK(cl[d], ideal.leaves, Landed(client, others), d),
         Landers(client) \subseteq Landers(cl), NEW ls \in Seq(Landed(cl, n)),
         \A j \in 1 .. Len(ls) : ls[j] \notin Landed(client, others),
         \A j \in 2 .. Len(ls) : ls[j] # ls[1],
         Land(ls, cl), others' = n
  PROVE  ClientsInv'
  <1> DEFINE S == Landed(client, others)
             T == Landed(cl, n)
             l == ideal.leaves
             k == l \o ls
  <1>1. /\ TreeRel(tree, ideal, S) /\ txs \in Seq(Seq(S)) /\ History(txs, l)
        /\ others \in 0 .. MaxOthers /\ resets \in 0 .. MaxResets /\ l \in Seq(S)
    BY InvFacts
  <1>2. S \subseteq T
    <2>1. others \in Nat
      BY <1>1, ClientsAssumption
    <2>2. QED
      BY <2>1, LandedMonotone
  <1>3. \A x \in T : IsWord(x)
    BY LandedWords
  <1>4. /\ Len(l) + Len(ls) <= TreeCapacity
        /\ tree' = AppendedAll(ls) /\ ideal' = IdealAppendedAll(ls) /\ txs' = Append(txs, ls)
        /\ client' = Aged(cl, Len(ls)) /\ resets' = resets
    BY DEF Land
  <1>5. \A j \in 1 .. Len(ls) : ls[j] \notin S
    OBVIOUS
  <1>6. \A d \in Client : ClientOK(cl[d], l, S, d)
    OBVIOUS
  <1>7. Landed(client', others') = T
    <2>1. ASSUME NEW d \in Client  PROVE client'[d].pc = cl[d].pc
      <3>1. client'[d] = [cl[d] EXCEPT !.age = Older(@, Len(ls))]
        BY <1>4 DEF Aged
      <3>2. Len(ls) \in Nat
        OBVIOUS
      <3>3. QED
        BY <1>6, <3>1, <3>2, AgeFact
    <2>2. Landers(client') = Landers(cl)
      BY <2>1 DEF Landers
    <2>3. QED
      BY <2>2 DEF Landed
  <1> HIDE DEF S, T, l, k
  <1>8. ls \in Seq(T) /\ l \in Seq(T) /\ txs \in Seq(Seq(T)) /\ Seq(S) \subseteq Seq(T)
    <2>1. Seq(S) \subseteq Seq(T)
      BY <1>2
    <2>2. Seq(Seq(S)) \subseteq Seq(Seq(T))
      BY <2>1
    <2>3. ls \in Seq(T)
      BY DEF T
    <2>4. QED
      BY <1>1, <2>1, <2>2, <2>3
  <1>9. TreeRel(tree', ideal', T) /\ ideal'.leaves = k
    <2>1. TreeRel(tree, ideal, T)
      BY <1>1, <1>2, TreeRelMonotone
    <2>2. Len(ideal.leaves) + Len(ls) <= TreeCapacity
      BY <1>4 DEF l
    <2>3. QED
      BY <1>3, <1>4, <1>8, <2>1, <2>2, LandRel DEF k, l
  <1>10. txs' \in Seq(Seq(T))
    BY <1>4, <1>8
  <1>11. History(txs', k)
    <2>1. Len(l) > 0 => \A j \in 1 .. Len(ls) : ls[j] # l[1]
      <3>1. Len(l) > 0 => l[1] \in S
        BY <1>1
      <3>2. QED
        BY <1>5, <3>1
    <2>2. Len(ls) > 0 => \A i \in 1 .. Len(txs) : \A j \in 1 .. Len(txs[i]) : txs[i][j] # ls[1]
      <3>1. \A i \in 1 .. Len(txs) : \A j \in 1 .. Len(txs[i]) : txs[i][j] \in S
        <4>1. \A i \in 1 .. Len(txs) : txs[i] \in Seq(S)
          BY <1>1
        <4>2. QED
          BY <4>1
      <3>2. Len(ls) > 0 => ls[1] \notin S
        BY <1>5, <1>8
      <3>3. QED
        BY <3>1, <3>2
    <2>3. History(Append(txs, ls), l \o ls)
      BY <1>1, <1>8, <2>1, <2>2, HistoryAppend
    <2>4. QED
      BY <1>4, <2>3 DEF k
  <1>12. DOMAIN client' = Client
    BY <1>4 DEF Aged
  <1>13. ASSUME NEW d \in Client  PROVE ClientOK(client'[d], k, T, d)
    <2>1. ClientOK(cl[d], l, T, d)
      BY <1>2, <1>6, ClientMonotone
    <2>2. client'[d] = [cl[d] EXCEPT !.age = Older(@, Len(ls))]
      BY <1>4 DEF Aged
    <2>3. ClientOK([cl[d] EXCEPT !.age = Older(@, Len(ls))], l \o ls, T, d)
      BY <1>8, <2>1, ClientAges
    <2>4. QED
      BY <2>2, <2>3 DEF k
  <1>14. others' \in 0 .. MaxOthers /\ resets' \in 0 .. MaxResets
    BY <1>1, <1>4, ClientsAssumption
  <1>15. QED
    BY <1>7, <1>9, <1>10, <1>11, <1>12, <1>13, <1>14 DEF ClientsInv

\* What the clients' records are when c's transaction lands.
LEMMA OwnedRecords ==
  ASSUME ClientsInv, NEW c \in Client, client[c].pc = "placed"
  PROVE  LET cl == [client EXCEPT ![c].pc = "owned"]
         IN  /\ DOMAIN cl = Client
             /\ \A d \in Client : ClientOK(cl[d], ideal.leaves, Landed(client, others), d)
             /\ Landers(client) \subseteq Landers(cl) /\ c \in Landers(cl)
             /\ c \in Client \ Landers(client)
  <1> DEFINE r == client[c]
             cl == [client EXCEPT ![c].pc = "owned"]
             s == cl[c]
  <1>1. /\ r = Record(r.pc, r.index, r.path, r.count, r.roots, r.leaves, r.witness, r.age)
        /\ r.leaves \in Seq(Landed(client, others)) /\ r.index \in 0 .. TreeCapacity /\ r.age \in 0 .. Old
    BY ClientFacts
  <1>2. DOMAIN client = Client /\ \A d \in Client : ClientOK(client[d], ideal.leaves, Landed(client, others), d)
    BY InvFacts
  <1>3. DOMAIN cl = Client /\ \A d \in Client \ {c} : cl[d] = client[d]
    BY <1>2
  <1>4. s = [r EXCEPT !.pc = "owned"]
    BY <1>2
  <1>5. s = Record("owned", r.index, r.path, r.count, r.roots, r.leaves, r.witness, r.age)
    BY <1>1, <1>4 DEF Record
  <1> HIDE DEF r, s, cl
  <1>6. ClientOK(s, ideal.leaves, Landed(client, others), c)
    BY <1>1, <1>5, PlainOK
  <1>7. s.pc = "owned"
    BY <1>5, RecordFact
  <1>8. c \in Landers(cl) /\ Landers(client) \subseteq Landers(cl)
    BY <1>3, <1>7 DEF Landers, s
  <1>9. c \notin Landers(client)
    BY DEF Landers
  <1>10. \A d \in Client : ClientOK(cl[d], ideal.leaves, Landed(client, others), d)
    BY <1>2, <1>3, <1>6 DEF s
  <1>11. QED
    BY <1>3, <1>8, <1>9, <1>10 DEF cl

LEMMA DepositLandsStep ==
  ASSUME ClientsInv, NEW c \in Client, DepositLands(c)
  PROVE  ClientsInv'
  <1> DEFINE cl == [client EXCEPT ![c].pc = "owned"]
             ls == <<Own(c)>>
  <1>1. client[c].pc = "placed" /\ Land(ls, cl) /\ others' = others
    BY DEF DepositLands
  <1>2. /\ DOMAIN cl = Client
        /\ \A d \in Client : ClientOK(cl[d], ideal.leaves, Landed(client, others), d)
        /\ Landers(client) \subseteq Landers(cl) /\ c \in Landers(cl)
        /\ c \in Client \ Landers(client)
    BY <1>1, OwnedRecords
  <1>3. others \in Nat /\ others <= others /\ others <= MaxOthers
    BY InvFacts, ClientsAssumption
  <1> HIDE DEF cl
  <1>4. Own(c) \in Landed(cl, others) /\ Own(c) \notin Landed(client, others)
    BY <1>2, <1>3, OwnFresh DEF Landed
  <1>5. ls \in Seq(Landed(cl, others)) /\ Len(ls) = 1 /\ ls[1] = Own(c)
    BY <1>4
  <1> HIDE DEF ls
  <1>6. /\ \A j \in 1 .. Len(ls) : ls[j] \notin Landed(client, others)
        /\ \A j \in 2 .. Len(ls) : ls[j] # ls[1]
    BY <1>4, <1>5
  <1>7. QED
    BY <1>1, <1>2, <1>3, <1>5, <1>6, LandStep

LEMMA HeadTail ==
  ASSUME NEW S, NEW h \in Seq(S), NEW t \in Seq(S), Len(h) = 1
  PROVE  /\ h \o t \in Seq(S) /\ Len(h \o t) = Len(t) + 1 /\ (h \o t)[1] = h[1]
         /\ \A j \in 2 .. Len(t) + 1 : (h \o t)[j] = t[j - 1]
  <1>1. h \o t \in Seq(S) /\ Len(h \o t) = Len(t) + 1 /\ Len(t) \in Nat
    <2>1. h \o t \in Seq(S) /\ Len(t) \in Nat
      OBVIOUS
    <2>2. Len(h \o t) = Len(h) + Len(t)
      BY ConcatProperties
    <2>3. QED
      BY <2>1, <2>2
  <1>2. (h \o t)[1] = h[1]
    BY <1>1
  <1>3. ASSUME NEW j \in 2 .. Len(t) + 1  PROVE (h \o t)[j] = t[j - 1]
    BY <1>1
  <1>4. QED
    BY <1>1, <1>2, <1>3

LEMMA SettleLandsStep ==
  ASSUME ClientsInv, NEW c \in Client, SettleLands(c)
  PROVE  ClientsInv'
  <1> DEFINE cl == [client EXCEPT ![c].pc = "owned"]
             tail(m) == [j \in 1 .. m |-> <<c, "settle", j>>]
  <1>1. client[c].pc = "placed" /\ others' = others /\ \E m \in OtherSizes : Land(<<Own(c)>> \o tail(m), cl)
    BY DEF SettleLands
  <1>2. /\ DOMAIN cl = Client
        /\ \A d \in Client : ClientOK(cl[d], ideal.leaves, Landed(client, others), d)
        /\ Landers(client) \subseteq Landers(cl) /\ c \in Landers(cl)
        /\ c \in Client \ Landers(client)
    BY <1>1, OwnedRecords
  <1>3. others \in Nat /\ others <= others /\ others <= MaxOthers
    BY InvFacts, ClientsAssumption
  <1>4. PICK m \in OtherSizes : Land(<<Own(c)>> \o tail(m), cl)
    BY <1>1
  <1>5. m \in Nat
    BY ClientsAssumption
  <1> DEFINE S == Landed(client, others)
             T == Landed(cl, others)
             ls == <<Own(c)>> \o tail(m)
  <1> HIDE DEF cl
  <1>6. Own(c) \in T /\ Own(c) \notin S
    BY <1>2, <1>3, OwnFresh DEF Landed
  <1>7. ASSUME NEW j \in Nat
        PROVE  <<c, "settle", j>> \in T /\ <<c, "settle", j>> \notin S /\ <<c, "settle", j>> # Own(c)
    <2>1. <<c, "settle", j>> \notin S
      BY <1>2, <1>3, OwnFresh
    <2>2. <<c, "settle", j>> # Own(c)
      BY DEF Own
    <2>3. <<c, "settle", j>> \in T
      BY <1>2 DEF Landed
    <2>4. QED
      BY <2>1, <2>2, <2>3
  <1> HIDE DEF S, T
  <1>8. tail(m) \in Seq(T) /\ Len(tail(m)) = m /\ \A j \in 1 .. m : tail(m)[j] = <<c, "settle", j>>
    BY <1>5, <1>7
  <1>9. <<Own(c)>> \in Seq(T) /\ Len(<<Own(c)>>) = 1 /\ <<Own(c)>>[1] = Own(c)
    BY <1>6
  <1> DEFINE t == tail(m)
             h == <<Own(c)>>
  <1> HIDE DEF t, h
  <1>10. ls \in Seq(T) /\ Len(ls) = m + 1 /\ ls[1] = Own(c) /\ \A j \in 2 .. m + 1 : ls[j] = <<c, "settle", j - 1>>
    <2>1. ls = h \o t
      BY DEF h, t
    <2>2. t \in Seq(T) /\ Len(t) = m /\ (\A j \in 1 .. m : t[j] = <<c, "settle", j>>)
          /\ h \in Seq(T) /\ Len(h) = 1 /\ h[1] = Own(c)
      BY <1>8, <1>9 DEF t, h
    <2>3. h \o t \in Seq(T) /\ Len(h \o t) = m + 1 /\ (h \o t)[1] = h[1]
      BY <2>2, HeadTail
    <2>4. ASSUME NEW j \in 2 .. m + 1  PROVE (h \o t)[j] = <<c, "settle", j - 1>>
      <3>1. (h \o t)[j] = t[j - 1]
        BY <2>2, HeadTail
      <3>2. j - 1 \in 1 .. m
        BY <1>5
      <3>3. QED
        BY <2>2, <3>1, <3>2
    <2> HIDE DEF ls
    <2>5. QED
      BY <2>1, <2>2, <2>3, <2>4
  <1> HIDE DEF ls
  <1>11. ASSUME NEW j \in 2 .. Len(ls)  PROVE ls[j] \notin S /\ ls[j] # ls[1]
    <2>1. j \in 2 .. m + 1 /\ j - 1 \in Nat
      BY <1>5, <1>10
    <2>2. QED
      BY <1>7, <1>10, <2>1
  <1>12. ASSUME NEW j \in 1 .. Len(ls)  PROVE ls[j] \notin S
    <2>1. CASE j = 1
      BY <1>6, <1>10, <2>1
    <2>2. CASE j # 1
      <3>1. j \in 2 .. Len(ls)
        BY <1>5, <1>10, <2>2
      <3>2. QED
        BY <1>11, <3>1
    <2>3. QED
      BY <2>1, <2>2
  <1>13. Land(ls, cl)
    BY <1>4 DEF ls
  <1>14. QED
    BY <1>1, <1>2, <1>3, <1>10, <1>11, <1>12, <1>13, LandStep DEF S, T

LEMMA OtherLandsStep ==
  ASSUME ClientsInv, OtherLands
  PROVE  ClientsInv'
  <1> DEFINE n == others + 1
             leaf(j) == <<"other", others, j>>
             S == Landed(client, others)
             T == Landed(client, n)
  <1>1. PICK m \in OtherSizes : Land([j \in 1 .. m |-> leaf(j)], client)
    BY DEF OtherLands
  <1>2. others' = n /\ others < MaxOthers
    BY DEF OtherLands
  <1>3. others \in Nat /\ n \in Nat /\ others <= n /\ n <= MaxOthers /\ m \in Nat /\ others \in 0 .. n - 1
    BY <1>2, InvFacts, ClientsAssumption
  <1>4. DOMAIN client = Client /\ \A d \in Client : ClientOK(client[d], ideal.leaves, S, d)
    BY InvFacts
  <1>5. ASSUME NEW j \in Nat  PROVE leaf(j) \in T /\ leaf(j) \notin S
    BY <1>3, OtherFresh DEF Landed
  <1>6. ASSUME NEW i \in Nat, NEW j \in Nat, i # j  PROVE leaf(i) # leaf(j)
    BY <1>6, TupleFact
  <1> DEFINE ls == [j \in 1 .. m |-> leaf(j)]
  <1> HIDE DEF S, T, n, leaf
  <1>7. ls \in Seq(T) /\ Len(ls) = m /\ \A j \in 1 .. m : ls[j] = leaf(j)
    BY <1>3, <1>5
  <1> HIDE DEF ls
  <1>8. \A j \in 1 .. Len(ls) : ls[j] \notin S
    BY <1>3, <1>5, <1>7
  <1>9. ASSUME NEW j \in 2 .. Len(ls)  PROVE ls[j] # ls[1]
    <2>1. j \in 1 .. m /\ 1 \in 1 .. m /\ j \in Nat /\ j # 1
      BY <1>3, <1>7
    <2>2. QED
      BY <1>6, <1>7, <2>1
  <1>10. Land(ls, client)
    BY <1>1 DEF ls
  <1>11. QED
    BY <1>2, <1>3, <1>4, <1>7, <1>8, <1>9, <1>10, LandStep DEF S, T

LEMMA ResetStep ==
  ASSUME ClientsInv, ResetMerkleTree
  PROVE  ClientsInv'
  <1> DEFINE S == Landed(client, others)
  <1>1. /\ TreeRel(tree, ideal, S) /\ txs \in Seq(Seq(S))
        /\ \A d \in Client : ClientOK(client[d], ideal.leaves, S, d)
        /\ others \in 0 .. MaxOthers /\ resets \in 0 .. MaxResets
    BY InvFacts
  <1>2. /\ tree' = EmptyConfig /\ ideal' = A!EmptyTree /\ txs' = Append(txs, <<>>)
        /\ client' = Aged(client, Old) /\ resets' = resets + 1 /\ others' = others /\ resets < MaxResets
    BY DEF ResetMerkleTree
  <1>3. ASSUME NEW d \in Client
        PROVE  client'[d].pc = client[d].pc /\ ClientOK(client'[d], <<>>, S, d)
    <2>1. client'[d] = [client[d] EXCEPT !.age = Older(@, Old)]
      BY <1>2 DEF Aged
    <2>2. Old \in Nat
      BY RingFact DEF Old
    <2> HIDE DEF S
    <2>3. client'[d].pc = client[d].pc
      BY <1>1, <2>1, <2>2, AgeFact
    <2>4. ClientOK([client[d] EXCEPT !.age = Older(@, Old)], <<>>, S, d)
      BY <1>1, ClientReset
    <2>5. QED
      BY <2>1, <2>3, <2>4
  <1>4. Landed(client', others') = S
    <2>1. Landers(client') = Landers(client)
      BY <1>3 DEF Landers
    <2>2. QED
      BY <1>2, <2>1 DEF Landed
  <1> HIDE DEF S
  <1>5. TreeRel(tree', ideal', S)
    BY <1>2, EmptyRel
  <1>6. ideal'.leaves = <<>>
    BY <1>2 DEF A!EmptyTree
  <1>7. txs' \in Seq(Seq(S))
    <2>1. <<>> \in Seq(S)
      OBVIOUS
    <2>2. QED
      BY <1>1, <1>2, <2>1
  <1>8. History(txs', <<>>)
    BY <1>7, HistoryEmpty
  <1>9. DOMAIN client' = Client
    BY <1>2 DEF Aged
  <1>10. others' \in 0 .. MaxOthers /\ resets' \in 0 .. MaxResets
    BY <1>1, <1>2, ClientsAssumption
  <1>11. QED
    BY <1>3, <1>4, <1>5, <1>6, <1>7, <1>8, <1>9, <1>10 DEF ClientsInv

\* trade-withdraw-prepare reads the header.
LEMMA TradeReadStep ==
  ASSUME ClientsInv, NEW c \in Client, TradePrepareRead(c)
  PROVE  ClientsInv'
  <1> DEFINE r == client[c]
             s == client'[c]
             l == ideal.leaves
             S == Landed(client, others)
             known == {tree.current} \cup ({tree.roots[i] : i \in RingSlots} \ {ZeroWord})
  <1>1. /\ r = Record(r.pc, r.index, r.path, r.count, r.roots, r.leaves, r.witness, r.age)
        /\ r.leaves \in Seq(S) /\ r.index \in 0 .. TreeCapacity
    BY ClientFacts
  <1>2. /\ DOMAIN client = Client /\ Len(l) \in 0 .. TreeCapacity /\ l \in Seq(S)
        /\ tree.leafCount = Len(l) /\ tree.current = ReferenceRoot(l) /\ TreeRel(tree, ideal, S)
    BY InvFacts
  <1>3. /\ UNCHANGED <<tree, txs, others, resets, ideal>> /\ r.index < tree.leafCount
        /\ client' = [client EXCEPT ![c].pc = "reading", ![c].count = tree.leafCount, ![c].age = 0,
                                    ![c].roots = known]
    BY DEF TradePrepareRead
  <1> HIDE DEF S
  <1>4. \A w \in known : \E m \in 0 .. Len(l) : w = ReferenceRoot(Prefix(l, m))
    BY <1>2, KnownRoots
  <1>5. ReferenceRoot(l) \in known
    BY <1>2
  <1> HIDE DEF known
  <1>6. DOMAIN client' = Client /\ \A d \in Client \ {c} : client'[d] = client[d]
    BY <1>2, <1>3
  <1>7. s = [r EXCEPT !.pc = "reading", !.count = tree.leafCount, !.age = 0, !.roots = known]
    BY <1>2, <1>3
  <1>8. s = Record("reading", r.index, r.path, tree.leafCount, known, r.leaves, r.witness, 0)
    BY <1>1, <1>7 DEF Record
  <1> HIDE DEF r, s
  <1>9. /\ s = [pc |-> s.pc, index |-> s.index, path |-> s.path, count |-> s.count,
                roots |-> s.roots, leaves |-> s.leaves, witness |-> s.witness, age |-> s.age]
        /\ s.pc = "reading" /\ s.index = r.index /\ s.count = Len(l) /\ s.roots = known
        /\ s.leaves = r.leaves /\ s.age = 0
    BY <1>2, <1>8, RecordFact
  <1>10. ReadOK(s, l)
    <2>1. s.count \in 1 .. TreeCapacity /\ s.age <= Len(l) /\ s.count = Len(l) - s.age
      BY <1>1, <1>2, <1>3, <1>9, CapacityFact
    <2>2. Prefix(l, s.count) = l
      BY <1>2, <1>9 DEF Prefix
    <2>3. QED
      BY <1>4, <1>5, <1>9, <2>1, <2>2 DEF ReadOK
  <1>11. ClientOK(s, l, S, c)
    <2>1. s.age \in 0 .. Old
      BY <1>9, RingFact DEF Old
    <2>2. QED
      BY <1>1, <1>9, <1>10, <2>1 DEF ClientOK
  <1>12. s.pc \notin {"idle", "placed"}
    BY <1>9
  <1>13. QED
    BY <1>3, <1>6, <1>11, <1>12, OneClient DEF s, S

\* It replays the history.
LEMMA TradeReplayStep ==
  ASSUME ClientsInv, NEW c \in Client, TradePrepareReplay(c)
  PROVE  ClientsInv'
  <1> DEFINE r == client[c]
             s == client'[c]
             l == ideal.leaves
             S == Landed(client, others)
             got == Replay(r.count)
  <1>1. /\ r = Record(r.pc, r.index, r.path, r.count, r.roots, r.leaves, r.witness, r.age)
        /\ r.index \in 0 .. TreeCapacity /\ r.age \in 0 .. Old
        /\ r.pc \in {"reading", "replayed"} => ReadOK(r, l)
    BY ClientFacts
  <1>2. /\ DOMAIN client = Client /\ l \in Seq(S) /\ txs \in Seq(Seq(S)) /\ History(txs, l)
    BY InvFacts
  <1>3. /\ UNCHANGED <<tree, txs, others, resets, ideal>> /\ r.pc = "reading"
        /\ client' = [client EXCEPT ![c].pc = "replayed", ![c].leaves = got]
    BY DEF TradePrepareReplay
  <1> HIDE DEF S
  <1>4. ReadOK(r, l)
    BY <1>1, <1>3
  <1>5. r.count \in Nat
    BY <1>4, CapacityFact DEF ReadOK
  <1>6. /\ got \in Seq(S)
        /\ (Len(l) > 0 /\ Len(got) > 0 /\ got[1] = l[1]) => Len(got) <= Len(l) /\ got = Prefix(l, Len(got))
    BY <1>2, <1>5, ReplayPrefix
  <1> HIDE DEF got
  <1>7. DOMAIN client' = Client /\ \A d \in Client \ {c} : client'[d] = client[d]
    BY <1>2, <1>3
  <1>8. s = [r EXCEPT !.pc = "replayed", !.leaves = got]
    BY <1>2, <1>3
  <1>9. s = Record("replayed", r.index, r.path, r.count, r.roots, got, r.witness, r.age)
    BY <1>1, <1>8 DEF Record
  <1> HIDE DEF r, s
  <1>10. /\ s = [pc |-> s.pc, index |-> s.index, path |-> s.path, count |-> s.count,
                 roots |-> s.roots, leaves |-> s.leaves, witness |-> s.witness, age |-> s.age]
         /\ s.pc = "replayed" /\ s.index = r.index /\ s.count = r.count /\ s.roots = r.roots
         /\ s.leaves = got /\ s.age = r.age
    BY <1>9, RecordFact
  <1>11. ReadOK(s, l)
    BY <1>4, <1>10 DEF ReadOK
  <1>12. ReplayOK(s, l)
    <2>1. ASSUME s.age <= RootHistorySize  PROVE Len(l) > 0
      <3>1. r.count \in 1 .. TreeCapacity /\ r.age <= Len(l) /\ r.count = Len(l) - r.age
        BY <1>4, <1>10, <2>1 DEF ReadOK
      <3>2. Len(l) \in Nat /\ r.age \in Nat
        BY <1>1, <1>2, RingFact DEF Old
      <3>3. QED
        BY <3>1, <3>2, CapacityFact
    <2>2. QED
      BY <1>6, <1>10, <2>1 DEF ReplayOK
  <1>13. ClientOK(s, l, S, c)
    BY <1>1, <1>6, <1>10, <1>11, <1>12 DEF ClientOK
  <1>14. s.pc \notin {"idle", "placed"}
    BY <1>10
  <1>15. QED
    BY <1>3, <1>7, <1>13, <1>14, OneClient DEF s, S

(***************************************************************************)
(* It chooses the longest known prefix of the replayed leaves.  If the     *)
(* reading is not too old, the root of a known prefix is the root of a     *)
(* prefix of the tree, so that the first replayed leaf is the first of the *)
(* tree, all of them are, and the longest known prefix is all there was.   *)
(***************************************************************************)
LEMMA ChosenWitness ==
  ASSUME ClientsInv, NEW c \in Client, client[c].pc = "replayed", ReplayUsable(c),
         NEW n \in Known(c), \A m \in Known(c) : m <= n
  PROVE  /\ Verifies(WitnessAt(c, n), Own(c))
         /\ client[c].age <= RootHistorySize =>
               /\ client[c].age <= Len(ideal.leaves)
               /\ WitnessAt(c, n).root = ReferenceRoot(Prefix(ideal.leaves, Len(ideal.leaves) - client[c].age))
  <1> DEFINE r == client[c]
             l == ideal.leaves
             S == Landed(client, others)
             k == r.leaves
             w(m) == WitnessAt(c, m)
  <1>1. /\ r.index \in 0 .. TreeCapacity /\ k \in Seq(S) /\ r.age \in 0 .. Old
        /\ ReadOK(r, l) /\ ReplayOK(r, l)
    BY ClientFacts
  <1>2. l \in Seq(S) /\ Len(l) \in 0 .. TreeCapacity
    BY InvFacts
  <1>3. Len(k) = r.count /\ k[r.index + 1] = Own(c)
    BY DEF ReplayUsable
  <1>4. n \in r.index + 1 .. r.count /\ w(n).root \in r.roots
    BY DEF Known, Tried
  <1>5. \A m \in r.index + 1 .. r.count : (r.count - m <= RootHistorySize + 2 /\ w(m).root \in r.roots) => m <= n
    BY DEF Known, Tried
  <1>6. \A m : w(m) = Witness(Prefix(k, m), r.index)
    BY DEF WitnessAt, Prefix
  <1>7. ZeroWord \notin S
    BY LandedWords
  <1> HIDE DEF r, l, S, k, w
  <1>8. /\ r.index \in Nat /\ r.count \in Nat /\ r.count >= 1 /\ r.count <= 2^Depth /\ n \in Nat
        /\ r.index + 1 <= n /\ n <= r.count /\ Len(l) \in Nat /\ Len(l) <= 2^Depth
    BY <1>1, <1>2, <1>4, CapacityFact DEF ReadOK
  <1>9. ASSUME NEW m \in r.index + 1 .. r.count
        PROVE  w(m).root = ReferenceRoot(Prefix(k, m)) /\ Verifies(w(m), Own(c))
    <2> DEFINE p == Prefix(k, m)
    <2>1. m \in 0 .. Len(k) /\ m \in Nat /\ r.index + 1 \in 1 .. m
      BY <1>3, <1>8
    <2>2. p \in Seq(S) /\ Len(p) = m /\ \A j \in 1 .. m : p[j] = k[j]
      BY <1>1, <2>1, PrefixFact
    <2> HIDE DEF p
    <2>3. Len(p) \in 1 .. 2^Depth /\ r.index \in 0 .. Len(p) - 1
      <3>1. 2^Depth \in Nat
        BY CapacityFact
      <3>2. QED
        BY <1>8, <2>1, <2>2, <3>1
    <2>4. Witness(p, r.index).root = ReferenceRoot(p) /\ Verifies(Witness(p, r.index), p[r.index + 1])
      BY <2>2, <2>3, WitnessRef
    <2>5. p[r.index + 1] = Own(c)
      BY <1>3, <2>1, <2>2
    <2>6. QED
      BY <1>6, <2>4, <2>5 DEF p
  <1>10. ASSUME r.age <= RootHistorySize
         PROVE  r.age <= Len(l) /\ w(n).root = ReferenceRoot(Prefix(l, Len(l) - r.age))
    <2>1. /\ r.age <= Len(l) /\ r.count = Len(l) - r.age
          /\ ReferenceRoot(Prefix(l, r.count)) \in r.roots
          /\ \A x \in r.roots : \E m \in 0 .. r.count : x = ReferenceRoot(Prefix(l, m))
      BY <1>1, <1>10 DEF ReadOK
    <2>2. r.age \in Nat /\ r.count <= Len(l)
      BY <1>1, <1>8, <2>1, RingFact DEF Old
    <2>3. PICK m \in 0 .. r.count : w(n).root = ReferenceRoot(Prefix(l, m))
      BY <1>4, <2>1
    <2>4. n \in 0 .. Len(k) /\ m \in 0 .. Len(l)
      BY <1>3, <1>8, <2>2
    <2> DEFINE p == Prefix(k, n)
               q == Prefix(l, m)
    <2>5. /\ p \in Seq(S) /\ Len(p) = n /\ (\A j \in 1 .. n : p[j] = k[j])
          /\ q \in Seq(S) /\ Len(q) = m /\ (\A j \in 1 .. m : q[j] = l[j])
      BY <1>1, <1>2, <2>4, PrefixFact
    <2>6. ReferenceRoot(p) = ReferenceRoot(q)
      BY <1>4, <1>9, <2>3
    <2> HIDE DEF p, q
    <2>7. p = q
      <3>1. Len(p) <= 2^Depth /\ Len(q) <= 2^Depth
        <4>1. 2^Depth \in Nat
          BY CapacityFact
        <4>2. QED
          BY <1>8, <2>4, <2>5, <4>1
      <3>2. QED
        BY <1>7, <2>5, <2>6, <3>1, RootInjective
    <2>8. k[1] = l[1] /\ Len(k) > 0
      <3>1. n = m /\ 1 \in 1 .. n
        BY <1>8, <2>5, <2>7
      <3>2. QED
        BY <1>3, <1>8, <2>5, <2>7, <3>1
    <2>9. k = Prefix(l, r.count)
      BY <1>1, <1>3, <1>10, <2>8 DEF ReplayOK, k
    <2>10. Prefix(k, r.count) = k
      BY <1>1, <1>3, <2>4, PrefixFact
    <2>11. r.count \in r.index + 1 .. r.count /\ r.count - r.count <= RootHistorySize + 2
      BY <1>8, RingFact
    <2>12. w(r.count).root = ReferenceRoot(Prefix(l, r.count))
      BY <1>9, <2>9, <2>10, <2>11
    <2>13. r.count <= n
      BY <1>5, <2>1, <2>11, <2>12
    <2>14. n = r.count
      BY <1>8, <2>13
    <2>15. QED
      BY <2>1, <2>12, <2>14
  <1>11. Verifies(w(n), Own(c))
    BY <1>4, <1>9
  <1>12. QED
    BY <1>10, <1>11 DEF r, l, w

LEMMA TradeChooseStep ==
  ASSUME ClientsInv, NEW c \in Client, TradePrepareChoose(c)
  PROVE  ClientsInv'
  <1> DEFINE r == client[c]
             s == client'[c]
             l == ideal.leaves
             S == Landed(client, others)
  <1>1. /\ r = Record(r.pc, r.index, r.path, r.count, r.roots, r.leaves, r.witness, r.age)
        /\ r.index \in 0 .. TreeCapacity /\ r.age \in 0 .. Old
    BY ClientFacts
  <1>2. DOMAIN client = Client
    BY InvFacts
  <1>3. UNCHANGED <<tree, txs, others, resets, ideal>> /\ r.pc = "replayed"
    BY DEF TradePrepareChoose
  <1>4. <<>> \in Seq(S)
    OBVIOUS
  <1>5. CASE /\ ReplayUsable(c)
             /\ \E n \in Known(c) : /\ \A m \in Known(c) : m <= n
                                    /\ client' = Forgotten(Prepare(c, WitnessAt(c, n)), c)
    <2>1. PICK n \in Known(c) : /\ \A m \in Known(c) : m <= n
                                /\ client' = Forgotten(Prepare(c, WitnessAt(c, n)), c)
      BY <1>5
    <2> DEFINE w == WitnessAt(c, n)
    <2>2. /\ Verifies(w, Own(c))
          /\ r.age <= RootHistorySize =>
                r.age <= Len(l) /\ w.root = ReferenceRoot(Prefix(l, Len(l) - r.age))
      BY <1>3, <1>5, <2>1, ChosenWitness
    <2> HIDE DEF w, S
    <2>3. client' = Forgotten(Prepare(c, w), c)
      BY <2>1 DEF w
    <2>4. DOMAIN client' = Client /\ \A d \in Client \ {c} : client'[d] = client[d]
      BY <1>2, <2>3 DEF Forgotten, Prepare
    <2>5. s = [r EXCEPT !.pc = "prepared", !.witness = w, !.roots = {}, !.count = 0, !.leaves = <<>>]
      BY <1>2, <2>3 DEF Forgotten, Prepare
    <2>6. s = Record("prepared", r.index, r.path, 0, {}, <<>>, w, r.age)
      BY <1>1, <2>5 DEF Record
    <2> HIDE DEF r, s
    <2>7. ClientOK(s, l, S, c)
      BY <1>1, <1>4, <2>2, <2>6, PreparedRecord
    <2>8. s.pc \notin {"idle", "placed"}
      BY <2>6, RecordFact
    <2>9. QED
      BY <1>3, <2>4, <2>7, <2>8, OneClient DEF s, S
  <1>6. CASE client' = Forgotten([client EXCEPT ![c].pc = "owned"], c)
    <2> HIDE DEF S
    <2>1. DOMAIN client' = Client /\ \A d \in Client \ {c} : client'[d] = client[d]
      BY <1>2, <1>6 DEF Forgotten
    <2>2. s = [r EXCEPT !.pc = "owned", !.roots = {}, !.count = 0, !.leaves = <<>>]
      BY <1>2, <1>6 DEF Forgotten
    <2>3. s = Record("owned", r.index, r.path, 0, {}, <<>>, r.witness, r.age)
      BY <1>1, <2>2 DEF Record
    <2> HIDE DEF r, s
    <2>4. ClientOK(s, l, S, c)
      BY <1>1, <1>4, <2>3, PlainOK
    <2>5. s.pc \notin {"idle", "placed"}
      BY <2>3, RecordFact
    <2>6. QED
      BY <1>3, <2>1, <2>4, <2>5, OneClient DEF s, S
  <1>7. QED
    BY <1>5, <1>6 DEF TradePrepareChoose

-----------------------------------------------------------------------------

LEMMA ClientsInit == Init => ClientsInv
  <1> SUFFICES ASSUME Init  PROVE ClientsInv
    OBVIOUS
  <1> DEFINE S == Landed(client, others)
             NoRecord == Record("idle", 0, <<>>, 0, {}, <<>>, NoWitness, 0)
  <1>1. /\ tree = EmptyConfig /\ txs = <<>> /\ others = 0 /\ resets = 0 /\ ideal = A!EmptyTree
        /\ client = [c \in Client |-> NoRecord]
    BY DEF Init, Record
  <1>2. TreeRel(tree, ideal, S)
    BY <1>1, EmptyRel
  <1>3. ideal.leaves = <<>>
    BY <1>1 DEF A!EmptyTree
  <1> HIDE DEF S, NoRecord
  <1>4. txs \in Seq(Seq(S))
    BY <1>1
  <1>5. History(txs, ideal.leaves)
    BY <1>3, <1>4, HistoryEmpty
  <1>6. ASSUME NEW c \in Client  PROVE ClientOK(client[c], ideal.leaves, S, c)
    <2>1. client[c] = NoRecord
      BY <1>1
    <2>2. 0 \in 0 .. TreeCapacity /\ 0 \in 0 .. Old /\ <<>> \in Seq(S)
      BY CapacityFact, RingFact DEF Old
    <2>3. ClientOK(NoRecord, ideal.leaves, S, c)
      BY <2>2, PlainOK DEF NoRecord
    <2>4. QED
      BY <2>1, <2>3
  <1>7. DOMAIN client = Client /\ others \in 0 .. MaxOthers /\ resets \in 0 .. MaxResets
    BY <1>1, ClientsAssumption
  <1>8. QED
    BY <1>2, <1>4, <1>5, <1>6, <1>7 DEF ClientsInv, S

LEMMA ClientsNext == ClientsInv /\ [Next]_vars => ClientsInv'
  <1> SUFFICES ASSUME ClientsInv, [Next]_vars  PROVE ClientsInv'
    OBVIOUS
  <1>1. CASE UNCHANGED vars
    BY <1>1 DEF vars, ClientsInv
  <1>2. ASSUME NEW c \in Demo, DemoStep(c)  PROVE ClientsInv'
    <2>1. c \in Client
      BY DEF Client
    <2>2. QED
      BY <1>2, <2>1, PlacedStep, DepositLandsStep, WithdrawPrepareStep, WithdrawStep DEF DemoStep
  <1>3. ASSUME NEW c \in Trade, TradeStep(c)  PROVE ClientsInv'
    <2>1. c \in Client
      BY DEF Client
    <2>2. QED
      BY <1>3, <2>1, PlacedStep, SettleLandsStep, TradeReadStep, TradeReplayStep, TradeChooseStep,
         WithdrawStep DEF TradeStep, TradeWithdraw
  <1>4. ASSUME NEW c \in Sdk, SdkStep(c)  PROVE ClientsInv'
    <2>1. c \in Client
      BY DEF Client
    <2>2. QED
      BY <1>4, <2>1, PlacedStep, DepositLandsStep, MerkleProofFetchStep, WithdrawStep
         DEF SdkStep, SdkWithdraw
  <1>5. CASE OtherLands
    BY <1>5, OtherLandsStep
  <1>6. CASE ResetMerkleTree
    BY <1>6, ResetStep
  <1>7. QED
    BY <1>1, <1>2, <1>3, <1>4, <1>5, <1>6 DEF Next

-----------------------------------------------------------------------------
(***************************************************************************)
(* The theorems.                                                           *)
(***************************************************************************)

LEMMA ClientsInductive == Spec => []ClientsInv
  BY ClientsInit, ClientsNext, PTL DEF Spec

LEMMA TypeFollows == ClientsInv => TypeOK
  <1> SUFFICES ASSUME ClientsInv  PROVE TypeOK
    OBVIOUS
  <1> DEFINE S == Landed(client, others)
  <1>1. /\ TreeRel(tree, ideal, S) /\ others \in 0 .. MaxOthers /\ resets \in 0 .. MaxResets
        /\ Len(ideal.leaves) \in 0 .. TreeCapacity /\ tree.leafCount = Len(ideal.leaves)
    BY InvFacts
  <1> HIDE DEF S
  <1>2. /\ DOMAIN tree.rightPath = Levels /\ \A d \in Levels : IsWord(tree.rightPath[d])
        /\ DOMAIN tree.roots = RingSlots /\ tree.head = ideal.head /\ ideal \in A!Tree(S)
    BY <1>1 DEF TreeRel
  <1>3. tree.head \in RingSlots
    BY <1>2 DEF A!Tree, RingSlots
  <1>4. ASSUME NEW i \in RingSlots  PROVE IsWord(tree.roots[i])
    <2>1. tree.roots[i] = WordOf(ideal.roots[i])
      BY <1>1 DEF TreeRel
    <2>2. IsWord(ZeroWord)
      BY DEF IsWord, ZeroWord
    <2>3. QED
      BY <2>1, <2>2, RootPair DEF WordOf
  <1>5. ASSUME NEW c \in Client
        PROVE  /\ client[c].pc \in {"idle", "placed", "owned", "reading", "replayed", "prepared", "withdrawn"}
               /\ client[c].index \in 0 .. TreeCapacity
               /\ client[c].age \in 0 .. Old
    BY ClientFacts
  <1>6. QED
    BY <1>1, <1>2, <1>3, <1>4, <1>5 DEF TypeOK

\* The header of the vault, what the clients recorded and the bounds keep
\* their types: every word that append_leaf stores is a leaf or a node.
THEOREM ClientsTypeCorrect == Spec => []TypeOK
  BY ClientsInductive, TypeFollows, PTL

(***************************************************************************)
(* append_leaf and push_root, which keep one hash per level, compute the   *)
(* root of the whole tree for every depth and every sequence of appends    *)
(* and resets, and the ring holds the roots that NoteTree says it holds.   *)
(***************************************************************************)
THEOREM TreeAbstractionCorrect == Spec => []TreeAbstraction
  <1>1. ClientsInv => TreeAbstraction
    <2> SUFFICES ASSUME ClientsInv  PROVE TreeAbstraction
      OBVIOUS
    <2>1. TreeRel(tree, ideal, Landed(client, others))
      BY InvFacts
    <2>2. QED
      BY <2>1 DEF TreeRel, TreeAbstraction
  <1>2. QED
    BY <1>1, ClientsInductive, PTL

(***************************************************************************)
(* The Merkle shadow of the demo, which rebuilds the tree from its leaves, *)
(* computes the vault's current_root and, for every leaf, a witness that   *)
(* leads from the leaf to it.                                              *)
(***************************************************************************)
THEOREM ShadowAgreesCorrect == Spec => []ShadowAgrees
  <1>1. ClientsInv => ShadowAgrees
    <2> SUFFICES ASSUME ClientsInv  PROVE ShadowAgrees
      OBVIOUS
    <2> DEFINE S == Landed(client, others)
               l == ideal.leaves
    <2>1. /\ l \in Seq(S) /\ Len(l) \in 0 .. TreeCapacity /\ tree.leafCount = Len(l)
          /\ tree.current = ReferenceRoot(l)
      BY InvFacts
    <2> HIDE DEF S
    <2>2. ComputeRoot(l) = tree.current
      BY <2>1, ComputeRootRef
    <2>3. ASSUME NEW i \in 0 .. tree.leafCount - 1
          PROVE  Witness(l, i).root = tree.current /\ Verifies(Witness(l, i), l[i + 1])
      <3>1. Len(l) \in 1 .. 2^Depth /\ i \in 0 .. Len(l) - 1
        BY <2>1, CapacityFact
      <3>2. QED
        BY <2>1, <3>1, WitnessRef
    <2>4. QED
      BY <2>2, <2>3 DEF ShadowAgrees
  <1>2. QED
    BY <1>1, ClientsInductive, PTL

(***************************************************************************)
(* A client that gets through any of the three ways to prepare a           *)
(* withdrawal holds a witness for its own note, and contains_root accepts  *)
(* its root until more leaves were appended than the ring has entries.     *)
(***************************************************************************)
THEOREM PreparedAcceptedCorrect == Spec => []PreparedAccepted
  <1>1. ClientsInv => PreparedAccepted
    <2> SUFFICES ASSUME ClientsInv, NEW c \in Client, client[c].pc = "prepared"
                 PROVE  /\ Verifies(client[c].witness, Own(c))
                        /\ client[c].age <= RootHistorySize => ContainsRoot(client[c].witness.root)
      BY DEF PreparedAccepted
    <2> DEFINE r == client[c]
               l == ideal.leaves
    <2>1. PreparedOK(r, l, c) /\ r.age \in 0 .. Old
      BY ClientFacts
    <2>2. TreeRel(tree, ideal, Landed(client, others))
      BY InvFacts
    <2> HIDE DEF r, l
    <2>3. ASSUME r.age <= RootHistorySize  PROVE ContainsRoot(r.witness.root)
      <3>1. r.age <= Len(l) /\ r.witness.root = ReferenceRoot(Prefix(l, Len(l) - r.age))
        BY <2>1, <2>3 DEF PreparedOK
      <3>2. r.age \in 0 .. RootHistorySize
        BY <2>1, <2>3, RingFact DEF Old
      <3>3. ContainsRoot(ReferenceRoot(Prefix(l, Len(l) - r.age)))
        BY <2>2, <3>1, <3>2, ContainsPrefix DEF l
      <3>4. QED
        BY <3>1, <3>3
    <2>4. Verifies(r.witness, Own(c))
      BY <2>1 DEF PreparedOK
    <2>5. QED
      BY <2>3, <2>4 DEF r
  <1>2. QED
    BY <1>1, ClientsInductive, PTL
=============================================================================
