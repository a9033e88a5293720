------------------------- MODULE IncrementalMerkle --------------------------
(***************************************************************************)
(* The Poseidon tree of the vault, computed three ways: append_leaf keeps  *)
(* one hash per level (right_path), the Merkle shadow of the demo rebuilds *)
(* every level from the leaves, and a client that has just deposited       *)
(* derives its witness from the right_path it read before.                 *)
(*                                                                         *)
(* Poseidon is collision free: poseidon2 builds a pair.  A word is <<>>    *)
(* (32 zero bytes), a leaf <<x>>, or a node <<left, right>>.               *)
(***************************************************************************)
EXTENDS Naturals, Sequences

CONSTANT Depth    \* MERKLE_DEPTH, TREE_DEPTH (20)

ASSUME DepthAssumption == Depth \in Nat \ {0}

Levels == 0 .. Depth - 1

ZeroWord == <<>>
poseidon2(l, r) == <<l, r>>

\* compute_zero_subtree_roots; the entry at Depth is empty_root.
Zeros[d \in 0 .. Depth] ==
    IF d = 0 THEN ZeroWord ELSE poseidon2(Zeros[d - 1], Zeros[d - 1])

\* Bit d of a leaf index: is the path's node at level d a right child?
Bit(i, d) == (i \div 2^d) % 2

-----------------------------------------------------------------------------
(***************************************************************************)
(* append_leaf.  Nodes(leaf, i, path)[d] is `current` at level d.  A level *)
(* of right_path is either read or overwritten, never both, so that the    *)
(* loop reads the path as it was before the call.                          *)
(***************************************************************************)
Combined(i, d, node, path) ==
    IF Bit(i, d) = 1 THEN poseidon2(path[d], node) ELSE poseidon2(node, Zeros[d])

Nodes(leaf, i, path) ==
    LET up[d \in 0 .. Depth] ==
          IF d = 0 THEN leaf ELSE Combined(i, d - 1, up[d - 1], path)
    IN  up

\* Mutant: a level is overwritten also when the node is a right child.
NewPath_Always(leaf, i, path) == [d \in Levels |-> Nodes(leaf, i, path)[d]]

NewPath(leaf, i, path) ==
    [d \in Levels |-> IF Bit(i, d) = 0 THEN Nodes(leaf, i, path)[d] ELSE path[d]]

NewRoot(leaf, i, path) == Nodes(leaf, i, path)[Depth]

-----------------------------------------------------------------------------
(***************************************************************************)
(* Witnesses: a root, the sibling at each level, and the side of the path. *)
(***************************************************************************)

\* The Merkle part of VALID_SPEND: do the siblings lead from leaf to root?
Verifies(w, leaf) ==
    LET up[d \in 0 .. Depth] ==
          IF d = 0 THEN leaf
          ELSE IF w.indices[d - 1] = 0 THEN poseidon2(up[d - 1], w.siblings[d - 1])
                                       ELSE poseidon2(w.siblings[d - 1], up[d - 1])
    IN  up[Depth] = w.root

\* witnessFromPriorRightPath
WitnessFromPriorRightPath(leaf, i, path) ==
    [root     |-> NewRoot(leaf, i, path),
     siblings |-> [d \in Levels |-> IF Bit(i, d) = 0 THEN Zeros[d] ELSE path[d]],
     indices  |-> [d \in Levels |-> Bit(i, d)]]

\* One level up in MerkleShadow: pairs, the last one filled up with `pad`.
Parents(level, pad) ==
    [j \in 1 .. (Len(level) + 1) \div 2 |->
        poseidon2(level[2 * j - 1],
                  IF 2 * j <= Len(level) THEN level[2 * j] ELSE pad)]

\* MerkleShadow.computeRoot
ComputeRoot(leaves) ==
    LET up[d \in 0 .. Depth] ==
          IF d = 0 THEN leaves ELSE Parents(up[d - 1], Zeros[d - 1])
    IN  IF leaves = <<>> THEN Zeros[Depth] ELSE up[Depth][1]

\* Mutant: the padding stops one level short.
SmallDepth_Short(n) == CHOOSE k \in 1 .. Depth : 2^(k + 1) >= n /\ (k = 1 \/ 2^k < n)

\* The depth of the smallest full tree over n leaves, at least 1.
SmallDepth(n) == CHOOSE k \in 1 .. Depth : 2^k >= n /\ (k = 1 \/ 2^(k - 1) < n)

(***************************************************************************)
(* MerkleShadow.witness: the leaves are padded with zero words to a full   *)
(* tree of SmallDepth, and above that the path is a left child of empty    *)
(* subtrees.  Leaf indices start at 0.                                     *)
(***************************************************************************)
Witness(leaves, target) ==
    LET small == SmallDepth(Len(leaves))
        padded == [j \in 1 .. 2^small |->
                      IF j <= Len(leaves) THEN leaves[j] ELSE ZeroWord]
        up[d \in 0 .. small] ==
          IF d = 0 THEN padded ELSE Parents(up[d - 1], ZeroWord)
        top[d \in small .. Depth] ==
          IF d = small THEN up[small][1] ELSE poseidon2(top[d - 1], Zeros[d - 1])
        at(d) == target \div 2^d
        sibling(d) == IF at(d) % 2 = 0 THEN at(d) + 1 ELSE at(d) - 1
    IN  [root     |-> top[Depth],
         siblings |-> [d \in Levels |->
                          IF d < small THEN up[d][sibling(d) + 1] ELSE Zeros[d]],
         indices  |-> [d \in Levels |-> IF d < small THEN at(d) % 2 ELSE 0]]

-----------------------------------------------------------------------------
(***************************************************************************)
(* Reference: the root of the full tree over the leaves, zero words after  *)
(* them, level by level from the leaves up.                                *)
(***************************************************************************)
ReferenceNodes(leaves) ==
    LET node[d \in 0 .. Depth] ==
          [i \in Nat |->
             IF d = 0 THEN IF i < Len(leaves) THEN leaves[i + 1] ELSE ZeroWord
                      ELSE poseidon2(node[d - 1][2 * i], node[d - 1][2 * i + 1])]
    IN  node
ReferenceRoot(leaves) == ReferenceNodes(leaves)[Depth][0]
=============================================================================
