--------------------------- MODULE BatchInclusion ---------------------------
(***************************************************************************)
(* Inclusion proofs of a batch.  run_batch publishes the SHA-256 Merkle    *)
(* root over the inclusion commitments of the orders that were active when *)
(* the batch began; only the last root is kept.  A client takes the leaves *)
(* of a batch, computes the path of an order, reads the root and verifies, *)
(* while batches go on.  A claim may also be about another word, or come   *)
(* with other siblings.                                                    *)
(*                                                                         *)
(* SHA-256 is collision free: a hash is the pair of its inputs.  A word is *)
(* <<>> (32 zero bytes), a leaf <<x>> or a node <<left, right>>.           *)
(***************************************************************************)
EXTENDS Naturals, Sequences, SequencesExt

CONSTANTS
    MaxOrders,     \* bound on orders
    MaxDepth,      \* bound on the levels of a batch's tree
    MaxBatches,    \* bound on batches
    Repeated       \* commitments that later orders may have again (bound)

ASSUME InclusionAssumption == {MaxOrders, MaxDepth, MaxBatches} \cup Repeated \subseteq Nat

VARIABLES
    submitted, \* orders submitted so far; the n-th has commitment <<n>>, or an earlier one's
    active,    \* leaves of the active orders, in the order run_batch visits them
    batches,   \* leaves of the batches so far; the last one's root is published
    root,      \* BatchResults.last_inclusion_root
    claim      \* what is to be verified, and the verdict

vars == <<submitted, active, batches, root, claim>>

Leaf == {<<n>> : n \in 1 .. submitted}
NoClaim == [leaf |-> <<>>, index |-> 0, siblings |-> <<>>, from |-> 0, at |-> 0, ok |-> FALSE]

Init == submitted = 0 /\ active = <<>> /\ batches = <<>> /\ root = <<>> /\ claim = NoClaim

-----------------------------------------------------------------------------

sha256(a, b) == <<a, b>>
Depth(n) == CHOOSE k \in 0 .. MaxDepth : 2^k >= n /\ (k = 0 \/ 2^(k - 1) < n)

\* Mutant: the level is padded with zero words.
Padded_Zero(leaves) ==
    [j \in 1 .. 2^Depth(Len(leaves)) |-> IF j <= Len(leaves) THEN leaves[j] ELSE <<>>]

\* The level is filled up with its last leaf to a power of two.
Padded(leaves) ==
    [j \in 1 .. 2^Depth(Len(leaves)) |-> leaves[IF j <= Len(leaves) THEN j ELSE Len(leaves)]]

Parents(level) == [j \in 1 .. Len(level) \div 2 |-> sha256(level[2 * j - 1], level[2 * j])]

\* merkle_root_sha256 of the program: node[d][j] is the j-th word of level d.
MerkleRootSha256(leaves) ==
    LET k == Depth(Len(leaves))
        node[d \in 0 .. k] ==
          [j \in 1 .. 2^(k - d) |->
             IF d = 0 THEN leaves[IF j <= Len(leaves) THEN j ELSE Len(leaves)]
                      ELSE sha256(node[d - 1][2 * j - 1], node[d - 1][2 * j])]
    IN  IF leaves = <<>> THEN <<>> ELSE node[k][1]

\* The levels that computeInclusionRoot and computeInclusionPath go through.
LevelsOf(leaves) ==
    LET up[d \in 0 .. Depth(Len(leaves))] == IF d = 0 THEN Padded(leaves) ELSE Parents(up[d - 1])
    IN  up

ComputeInclusionRoot(leaves) ==
    IF leaves = <<>> THEN <<>> ELSE LevelsOf(leaves)[Depth(Len(leaves))][1]

\* Indices start at 0.
ComputeInclusionPath(leaves, index) ==
    LET at(d) == index \div 2^d
    IN  [d \in 1 .. Depth(Len(leaves)) |->
           LevelsOf(leaves)[d - 1][IF at(d - 1) % 2 = 0 THEN at(d - 1) + 2 ELSE at(d - 1)]]

VerifyInclusionPath(leaf, index, siblings, against) ==
    LET up[d \in 0 .. Len(siblings)] ==
          IF d = 0 THEN leaf
          ELSE IF (index \div 2^(d - 1)) % 2 = 0 THEN sha256(up[d - 1], siblings[d])
                                                 ELSE sha256(siblings[d], up[d - 1])
    IN  up[Len(siblings)] = against

-----------------------------------------------------------------------------

\* A behaviour is followed up to its verdict.
Decided == claim.at # 0

\* submit_order: an order becomes active.  Its commitment is that of an earlier
\* one when slot, note and trading key are the same.
Submit ==
    /\ ~Decided /\ submitted < MaxOrders /\ Len(active) < 2^MaxDepth
    /\ submitted' = submitted + 1
    /\ \E c \in {submitted + 1} \cup (Repeated \cap 1 .. submitted) : active' = Append(active, <<c>>)
    /\ UNCHANGED <<batches, root, claim>>

\* The orders that are not gone, in their order.
Remaining(orders, gone) ==
    LET rest[n \in 0 .. Len(orders)] ==
          IF n = 0 THEN <<>>
          ELSE IF orders[n] \in gone THEN rest[n - 1] ELSE Append(rest[n - 1], orders[n])
    IN  rest[Len(orders)]

\* run_batch publishes the root; some of the orders leave the book.
RunBatch ==
    /\ ~Decided /\ Len(batches) < MaxBatches
    /\ batches' = Append(batches, active) /\ root' = MerkleRootSha256(active)
    /\ \E gone \in SUBSET Leaf : active' = Remaining(active, gone)
    /\ UNCHANGED <<submitted, claim>>

\* The client computes the path of an order in the batch it has heard of.
Compute(b) ==
    /\ claim.from = 0
    /\ \E i \in 1 .. Len(batches[b]) :
          claim' = [NoClaim EXCEPT !.leaf = batches[b][i], !.index = i - 1, !.from = b,
                                   !.siblings = ComputeInclusionPath(batches[b], i - 1)]
    /\ UNCHANGED <<submitted, active, batches, root>>

Verify ==
    /\ claim.from # 0 /\ claim.at = 0
    /\ claim' = [claim EXCEPT !.at = Len(batches),
                              !.ok = VerifyInclusionPath(claim.leaf, claim.index, claim.siblings, root)]
    /\ UNCHANGED <<submitted, active, batches, root>>

\* Someone else's claim is verified: any word of the batch's tree, its inner
\* nodes included, any order or the zero word as its leaf, at any index, with
\* any number of siblings among the same words.  The active orders do not
\* matter to it; the book is empty to bound the states.
WordsOf(leaves) ==
    IF leaves = <<>> THEN {} ELSE UNION {ToSet(LevelsOf(leaves)[d]) : d \in 0 .. Depth(Len(leaves))}
Words == Leaf \cup {<<>>} \cup WordsOf(Last(batches))
Claimed ==
    /\ claim.from = 0 /\ batches # <<>> /\ active = <<>>
    /\ \E l \in Words, i \in 0 .. 2^MaxDepth - 1, k \in 0 .. MaxDepth :
          \E s \in [1 .. k -> Words] :
             claim' = [leaf |-> l, index |-> i, siblings |-> s, from |-> MaxBatches + 1,
                       at |-> Len(batches), ok |-> VerifyInclusionPath(l, i, s, root)]
    /\ UNCHANGED <<submitted, active, batches, root>>

Next ==
    \/ Submit \/ RunBatch \/ Verify \/ Claimed
    \/ \E b \in DOMAIN batches : Compute(b)

Spec == Init /\ [][Next]_vars

-----------------------------------------------------------------------------

(***************************************************************************)
(* The client's root is the one the program published, and a verdict says  *)
(* what the code can promise.  A claim that verifies, whatever its leaf    *)
(* and its siblings are and whichever batch they are from, is of the word  *)
(* at the claimed place of that level of the batch's tree from which the   *)
(* siblings lead to the root.  Leaves and nodes are hashed alike, so this  *)
(* word may be an inner node; with a path of the tree's depth it is an     *)
(* order that took part, and an order's commitment verifies with no other. *)
(* Of an empty batch only the zero word verifies.  A path computed for the *)
(* very batch of the root does verify.                                     *)
(***************************************************************************)
Proves(leaves, leaf, index, siblings) ==
    LET k == Len(siblings)
        h == Depth(Len(leaves)) - k
    IN  IF leaves = <<>> THEN leaf = <<>> /\ siblings = <<>>
        ELSE /\ k <= Depth(Len(leaves))
             /\ leaf = LevelsOf(leaves)[h][(index % 2^k) + 1]
             /\ leaf \in Leaf => h = 0
             /\ h = 0 => Contains(leaves, leaf)

InclusionSound ==
    /\ batches # <<>> => root = ComputeInclusionRoot(Last(batches))
    /\ claim.at # 0 =>
          /\ claim.ok => Proves(batches[claim.at], claim.leaf, claim.index, claim.siblings)
          /\ claim.from = claim.at => claim.ok
=============================================================================
