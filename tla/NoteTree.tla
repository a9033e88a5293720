------------------------------ MODULE NoteTree ------------------------------
(***************************************************************************)
(* The header of the vault's note tree: VaultConfig's leaf_count,          *)
(* current_root and the ring buffer of historical roots.                   *)
(*                                                                         *)
(* Poseidon is taken to be collision free, so the root of a tree is        *)
(* identified with the sequence of leaves it commits to.  That append_leaf *)
(* really computes this root from right_path alone is the subject of the   *)
(* module IncrementalMerkle.                                               *)
(***************************************************************************)
EXTENDS Naturals, Sequences

CONSTANTS
    RootHistorySize,  \* ROOT_HISTORY_SIZE: entries of the ring (32)
    TreeCapacity      \* 2^MERKLE_DEPTH: leaves the tree can hold (2^20)

ASSUME RingAssumption == RootHistorySize \in Nat \ {0}
ASSUME CapacityAssumption == TreeCapacity \in Nat

(***************************************************************************)
(* A root value.  The ring starts filled with the all-zero word, which is  *)
(* the root of no tree: contains_root accepts it, but no witness opens it. *)
(***************************************************************************)
RootOf(leaves) == [zero |-> FALSE, leaves |-> leaves]
ZeroRoot == [zero |-> TRUE, leaves |-> <<>>]

EmptyTree ==
    [leaves  |-> <<>>,
     current |-> RootOf(<<>>),
     roots   |-> [i \in 0 .. RootHistorySize - 1 |-> ZeroRoot],
     head    |-> 0]

HasRoom(t) == Len(t.leaves) < TreeCapacity

\* VaultConfig::push_root: the root that is replaced goes into the ring, and
\* the head moves on.
PushedRoots(t) == [t.roots EXCEPT ![t.head] = t.current]
\* Mutant: the head stays, so that each push overwrites the last.
PushedHead_Stuck(t) == t.head
PushedHead(t) == (t.head + 1) % RootHistorySize

\* append_leaf on a tree that has room.
AppendLeaf(t, leaf) ==
    LET leaves == Append(t.leaves, leaf)
    IN  [leaves  |-> leaves,
         current |-> RootOf(leaves),
         roots   |-> PushedRoots(t),
         head    |-> PushedHead(t)]

\* Mutant: only the ring is searched, the current root is forgotten.
ContainsRoot_RingOnly(t, root) ==
    \E i \in 0 .. RootHistorySize - 1 : t.roots[i] = root

\* VaultConfig::contains_root
ContainsRoot(t, root) ==
    \/ t.current = root
    \/ \E i \in 0 .. RootHistorySize - 1 : t.roots[i] = root

\* What VALID_SPEND proves of a public root: the note is one of its leaves.
Opens(root, leaf) == \E i \in 1 .. Len(root.leaves) : root.leaves[i] = leaf

InTree(t, leaf) == Opens(RootOf(t.leaves), leaf)

-----------------------------------------------------------------------------

Root(S) == [zero : BOOLEAN, leaves : Seq(S)]
Tree(S) ==
    [leaves : Seq(S), current : Root(S), roots : [0 .. RootHistorySize - 1 -> Root(S)],
     head : 0 .. RootHistorySize - 1]

\* The slot written i pushes before the newest one.
SlotBack(t, i) ==
    IF i < t.head THEN t.head - 1 - i ELSE t.head - 1 - i + RootHistorySize

(***************************************************************************)
(* What the ring holds: going back from the newest slot, the roots of the  *)
(* tree with one leaf less each time, and the zero word in the slots that  *)
(* were never written.                                                     *)
(***************************************************************************)
RingExact(t) ==
    /\ t.current = RootOf(t.leaves)
    /\ \A i \in 0 .. RootHistorySize - 1 :
          t.roots[SlotBack(t, i)] =
             IF i < Len(t.leaves) THEN RootOf(SubSeq(t.leaves, 1, Len(t.leaves) - 1 - i))
                                  ELSE ZeroRoot
=============================================================================
