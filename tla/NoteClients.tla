---------------------------- MODULE NoteClients -----------------------------
(***************************************************************************)
(* Clients that put a note into the vault's tree and later build a witness *)
(* to withdraw it, while other transactions move the tree.  Reads of the   *)
(* chain and the transactions that follow them are separate steps.         *)
(*                                                                         *)
(*   Demo   private-deposit and withdraw-prepare: the witness comes from   *)
(*          the right_path read before the deposit                         *)
(*   Trade  run-trade-l1-settle and trade-withdraw-prepare: the note is    *)
(*          note_c of a settlement, the witness comes from replaying the   *)
(*          transaction history                                            *)
(*   Sdk    getDepositFunction and getWithdrawFunction with a Merkle proof *)
(*          provider                                                       *)
(*                                                                         *)
(* The client's note commitment is the leaf <<c>>.  Requests that answer   *)
(* with an error change nothing and may be repeated; they are not steps.   *)
(***************************************************************************)
EXTENDS IncrementalMerkle, FiniteSets

CONSTANTS
    Demo, Trade, Sdk,  \* the clients, by the path they take
    RootHistorySize,   \* ROOT_HISTORY_SIZE: entries of the root ring (32)
    MaxSignatures,     \* maxSignatures: transactions a replay looks back
    OtherSizes,        \* leaves another party's transaction appends (1 to 5)
    MaxOthers,         \* bound on transactions of other parties
    MaxResets          \* bound on reset_merkle_tree (devnet)

ASSUME ClientsAssumption ==
    /\ Demo \cap Trade = {} /\ Demo \cap Sdk = {} /\ Trade \cap Sdk = {}
    /\ "other" \notin Demo \cup Trade \cup Sdk   \* tells the leaves apart
    /\ RootHistorySize \in Nat \ {0}
    /\ MaxSignatures \in Nat /\ MaxOthers \in Nat /\ MaxResets \in Nat
    /\ OtherSizes \subseteq Nat \ {0}

VARIABLES
    tree,     \* VaultConfig: leaf_count, right_path, current_root, roots, roots_head
    txs,      \* confirmed vault transactions, oldest first: the leaves of each
    client,   \* what each client knows and where it is in its flow
    others,   \* transactions of other parties so far
    resets,   \* calls of reset_merkle_tree so far
    ideal     \* history: the same tree as NoteTree abstracts it

vars == <<tree, txs, client, others, resets, ideal>>

TreeCapacity == 2^Depth

A == INSTANCE NoteTree

Client == Demo \cup Trade \cup Sdk
RingSlots == 0 .. RootHistorySize - 1
Own(c) == <<c>>

NoWitness == [root |-> ZeroWord, siblings |-> <<>>, indices |-> <<>>]

-----------------------------------------------------------------------------

EmptyConfig ==
    [leafCount |-> 0,
     rightPath |-> [d \in Levels |-> ZeroWord],
     current   |-> Zeros[Depth],
     roots     |-> [i \in RingSlots |-> ZeroWord],
     head      |-> 0]

Init ==
    /\ tree = EmptyConfig
    /\ txs = <<>>
    /\ client = [c \in Client |->
          [pc |-> "idle", index |-> 0, path |-> <<>>, count |-> 0, roots |-> {},
           leaves |-> <<>>, witness |-> NoWitness, age |-> 0]]
    /\ others = 0 /\ resets = 0
    /\ ideal = A!EmptyTree

\* Mutant: the head of the ring does not wrap.
Appended_NoWrap(t, leaf) ==
    [leafCount |-> t.leafCount + 1,
     rightPath |-> NewPath(leaf, t.leafCount, t.rightPath),
     current   |-> NewRoot(leaf, t.leafCount, t.rightPath),
     roots     |-> [t.roots EXCEPT ![t.head] = t.current],
     head      |-> t.head + 1]

\* append_leaf with push_root
Appended(t, leaf) ==
    [leafCount |-> t.leafCount + 1,
     rightPath |-> NewPath(leaf, t.leafCount, t.rightPath),
     current   |-> NewRoot(leaf, t.leafCount, t.rightPath),
     roots     |-> [t.roots EXCEPT ![t.head] = t.current],
     head      |-> (t.head + 1) % RootHistorySize]

AppendedAll(ls) ==
    LET after[n \in 0 .. Len(ls)] ==
          IF n = 0 THEN tree ELSE Appended(after[n - 1], ls[n])
    IN  after[Len(ls)]

IdealAppendedAll(ls) ==
    LET after[n \in 0 .. Len(ls)] ==
          IF n = 0 THEN ideal ELSE A!AppendLeaf(after[n - 1], ls[n])
    IN  after[Len(ls)]

ContainsRoot(root) == tree.current = root \/ \E i \in RingSlots : tree.roots[i] = root

\* age counts the leaves appended since a client last read the tree; beyond
\* the size of the ring it makes no difference how many.
Old == RootHistorySize + 1
Older(a, n) == IF a + n > Old THEN Old ELSE a + n
Aged(cl, n) == [c \in Client |-> [cl[c] EXCEPT !.age = Older(@, n)]]

\* A transaction lands that appends the leaves ls, and leaves the clients' own
\* records as cl.
Land(ls, cl) ==
    /\ Len(ideal.leaves) + Len(ls) <= TreeCapacity
    /\ tree' = AppendedAll(ls)
    /\ ideal' = IdealAppendedAll(ls)
    /\ txs' = Append(txs, ls)
    /\ client' = Aged(cl, Len(ls))
    /\ UNCHANGED resets

-----------------------------------------------------------------------------
(***************************************************************************)
(* Getting a note into the tree.                                           *)
(***************************************************************************)

\* POST private-deposit: leaf_count and right_path of one account read.
PrivateDeposit(c) ==
    /\ client[c].pc = "idle"
    /\ client' = [client EXCEPT ![c].pc = "placed", ![c].index = tree.leafCount,
                                ![c].path = tree.rightPath]
    /\ UNCHANGED <<tree, txs, others, resets, ideal>>

\* getDepositFunction, stage merkle-position-fetch
MerklePositionFetch(c) ==
    /\ client[c].pc = "idle"
    /\ client' = [client EXCEPT ![c].pc = "placed", ![c].index = tree.leafCount]
    /\ UNCHANGED <<tree, txs, others, resets, ideal>>

\* runTradeL1Settle: leafBeforeSettle
LeafBeforeSettle(c) ==
    /\ client[c].pc = "idle"
    /\ client' = [client EXCEPT ![c].pc = "placed", ![c].index = tree.leafCount]
    /\ UNCHANGED <<tree, txs, others, resets, ideal>>

\* The deposit the wallet signed is confirmed.
DepositLands(c) ==
    /\ client[c].pc = "placed"
    /\ Land(<<Own(c)>>, [client EXCEPT ![c].pc = "owned"])
    /\ UNCHANGED others

\* tee_forced_settle: note_c (the client's), note_d, and possibly change notes.
SettleLands(c) ==
    /\ client[c].pc = "placed"
    /\ \E n \in OtherSizes :
          Land(<<Own(c)>> \o [j \in 1 .. n |-> <<c, "settle", j>>],
               [client EXCEPT ![c].pc = "owned"])
    /\ UNCHANGED others

\* Another party's deposit or settlement.
OtherLands ==
    /\ others < MaxOthers
    /\ \E n \in OtherSizes :
          Land([j \in 1 .. n |-> <<"other", others, j>>], client)
    /\ others' = others + 1

\* reset_merkle_tree
ResetMerkleTree ==
    /\ resets < MaxResets
    /\ tree' = EmptyConfig
    /\ ideal' = A!EmptyTree
    /\ txs' = Append(txs, <<>>)
    /\ client' = Aged(client, Old)
    /\ resets' = resets + 1
    /\ UNCHANGED others

-----------------------------------------------------------------------------
(***************************************************************************)
(* Building a witness.                                                     *)
(***************************************************************************)

Prepare(c, w) ==
    [client EXCEPT ![c].pc = "prepared", ![c].witness = w]

\* Mutant: the computed root is not compared with current_root.
LatestLeaf_NoRootCheck(c, w) == tree.leafCount = client[c].index + 1

\* withdraw-prepare: nothing was appended after the deposit, and the root of
\* the witness is the vault's.
LatestLeaf(c, w) ==
    /\ tree.leafCount = client[c].index + 1
    /\ tree.current = w.root

\* The deposit may not have landed yet, or not where private-deposit saw room.
WithdrawPrepare(c) ==
    /\ client[c].pc \in {"placed", "owned"}
    /\ LET w == WitnessFromPriorRightPath(Own(c), client[c].index, client[c].path)
       IN  /\ LatestLeaf(c, w)
           /\ client' = [Prepare(c, w) EXCEPT ![c].age = 0]
    /\ UNCHANGED <<tree, txs, others, resets, ideal>>

\* trade-withdraw-prepare: leaf_count, current_root and the non-zero entries of
\* the ring are read at once ...
TradePrepareRead(c) ==
    /\ client[c].pc = "owned"
    /\ client[c].index < tree.leafCount
    /\ client' = [client EXCEPT
          ![c].pc = "reading", ![c].count = tree.leafCount, ![c].age = 0,
          ![c].roots = {tree.current} \cup ({tree.roots[i] : i \in RingSlots} \ {ZeroWord})]
    /\ UNCHANGED <<tree, txs, others, resets, ideal>>

\* ... the history is fetched later: collectVaultLeavesOrdered takes the newest
\* MaxSignatures transactions, replays them oldest first and stops at `count`.
\* Mutant: the replay runs from the newest transaction to the oldest.
Extended_NewestFirst(ls, tx, count) == IF Len(ls) >= count THEN ls ELSE tx \o ls

Extended(ls, tx, count) == IF Len(ls) >= count THEN ls ELSE ls \o tx

Replay(count) ==
    LET first == IF Len(txs) > MaxSignatures THEN Len(txs) - MaxSignatures ELSE 0
        after[n \in first .. Len(txs)] ==
          IF n = first THEN <<>> ELSE Extended(after[n - 1], txs[n], count)
    IN  after[Len(txs)]

TradePrepareReplay(c) ==
    /\ client[c].pc = "reading"
    /\ client' = [client EXCEPT ![c].pc = "replayed", ![c].leaves = Replay(client[c].count)]
    /\ UNCHANGED <<tree, txs, others, resets, ideal>>

\* The prefixes of the replayed leaves that are tried, and those among them
\* whose root the vault knew when it was read.
Tried(c) ==
    {n \in client[c].index + 1 .. client[c].count :
        client[c].count - n <= RootHistorySize + 2}
WitnessAt(c, n) == Witness(SubSeq(client[c].leaves, 1, n), client[c].index)
Known(c) == {n \in Tried(c) : WitnessAt(c, n).root \in client[c].roots}

\* Mutant: the replayed leaf is not compared with the recomputed commitment.
ReplayUsable_AnyLeaf(c) == Len(client[c].leaves) = client[c].count

ReplayUsable(c) ==
    /\ Len(client[c].leaves) = client[c].count
    /\ client[c].leaves[client[c].index + 1] = Own(c)

Forgotten(cl, c) == [cl EXCEPT ![c].roots = {}, ![c].count = 0, ![c].leaves = <<>>]

\* The longest known prefix is used; without one the request fails.
TradePrepareChoose(c) ==
    /\ client[c].pc = "replayed"
    /\ \/ /\ ReplayUsable(c)
          /\ \E n \in Known(c) :
                /\ \A m \in Known(c) : m <= n
                /\ client' = Forgotten(Prepare(c, WitnessAt(c, n)), c)
       \/ /\ ReplayUsable(c) => Known(c) = {}
          /\ client' = Forgotten([client EXCEPT ![c].pc = "owned"], c)
    /\ UNCHANGED <<tree, txs, others, resets, ideal>>

\* getWithdrawFunction, stages merkle-proof-fetch to proof-generation: the
\* provider (external) answers for the leaf at leafIndex, and the prover fails
\* unless that leaf is the client's note.
MerkleProofFetch(c) ==
    /\ client[c].pc = "owned"
    /\ client[c].index < tree.leafCount
    /\ LET w == Witness(ideal.leaves, client[c].index)
       IN  /\ Verifies(w, Own(c))
           /\ client' = [Prepare(c, w) EXCEPT ![c].age = 0]
    /\ UNCHANGED <<tree, txs, others, resets, ideal>>

\* The withdrawal reaches the vault: accepted, or refused as StaleMerkleRoot or
\* InvalidProof, and then the client may start again.
Withdraw(c) ==
    /\ client[c].pc = "prepared"
    /\ LET w == client[c].witness
           accepted == ContainsRoot(w.root) /\ Verifies(w, Own(c))
       IN  /\ client' = [client EXCEPT ![c].pc = IF accepted THEN "withdrawn" ELSE "owned",
                                       ![c].witness = NoWitness]
           /\ txs' = IF accepted THEN Append(txs, <<>>) ELSE txs
    /\ UNCHANGED <<tree, others, resets, ideal>>

-----------------------------------------------------------------------------

TradeWithdraw(c) ==
    TradePrepareRead(c) \/ TradePrepareReplay(c) \/ TradePrepareChoose(c) \/ Withdraw(c)
SdkWithdraw(c) == MerkleProofFetch(c) \/ Withdraw(c)

DemoStep(c) == PrivateDeposit(c) \/ DepositLands(c) \/ WithdrawPrepare(c) \/ Withdraw(c)
TradeStep(c) == LeafBeforeSettle(c) \/ SettleLands(c) \/ TradeWithdraw(c)
SdkStep(c) == MerklePositionFetch(c) \/ DepositLands(c) \/ SdkWithdraw(c)

Next ==
    \/ \E c \in Demo : DemoStep(c)
    \/ \E c \in Trade : TradeStep(c)
    \/ \E c \in Sdk : SdkStep(c)
    \/ OtherLands
    \/ ResetMerkleTree

Spec == Init /\ [][Next]_vars

\* Clients keep retrying to withdraw; nothing is assumed of anyone else.
FairSpec ==
    /\ Spec
    /\ \A c \in Trade :
          WF_vars(TradeWithdraw(c))
    /\ \A c \in Sdk : WF_vars(SdkWithdraw(c))

-----------------------------------------------------------------------------
(***************************************************************************)
(* Properties.                                                             *)
(***************************************************************************)

\* A word is the zero word, a leaf or a pair; no leaf is longer than three.
IsWord(x) == Len(x) \in 0 .. 3

\* Types of the vault's header and of the clients' records.
TypeOK ==
    /\ tree.leafCount \in 0 .. TreeCapacity
    /\ DOMAIN tree.rightPath = Levels /\ \A d \in Levels : IsWord(tree.rightPath[d])
    /\ DOMAIN tree.roots = RingSlots /\ \A i \in RingSlots : IsWord(tree.roots[i])
    /\ tree.head \in RingSlots
    /\ \A c \in Client :
          /\ client[c].pc \in {"idle", "placed", "owned", "reading", "replayed", "prepared", "withdrawn"}
          /\ client[c].index \in 0 .. TreeCapacity
          /\ client[c].age \in 0 .. Old
    /\ others \in 0 .. MaxOthers /\ resets \in 0 .. MaxResets

(***************************************************************************)
(* What append_leaf computes from right_path alone is the root of the      *)
(* whole tree, through every append, settlement and reset; and the ring of *)
(* root words holds what NoteTree says it holds.  This is what allows the  *)
(* vault's model to identify a root with the leaves under it.              *)
(***************************************************************************)
WordOf(root) == IF root.zero THEN ZeroWord ELSE ReferenceRoot(root.leaves)
TreeAbstraction ==
    /\ tree.leafCount = Len(ideal.leaves)
    /\ tree.current = WordOf(ideal.current)
    /\ tree.head = ideal.head
    /\ \A i \in RingSlots : tree.roots[i] = WordOf(ideal.roots[i])

(***************************************************************************)
(* The Merkle shadow agrees with the vault: for the same leaves it         *)
(* computes current_root, and the witness it builds for any leaf leads     *)
(* from that leaf to that root.                                            *)
(***************************************************************************)
ShadowAgrees ==
    /\ ComputeRoot(ideal.leaves) = tree.current
    /\ \A i \in 0 .. tree.leafCount - 1 :
          LET w == Witness(ideal.leaves, i)
          IN  w.root = tree.current /\ Verifies(w, ideal.leaves[i + 1])

(***************************************************************************)
(* A client that gets through withdraw-prepare, trade-withdraw-prepare or  *)
(* the SDK's proof stage holds a witness for its own note, and the vault   *)
(* accepts it as long as no more leaves were appended since the client     *)
(* read the tree than the ring has entries: whatever landed between the    *)
(* client's reads, and wherever its note ended up.                         *)
(***************************************************************************)
PreparedAccepted ==
    \A c \in Client :
       client[c].pc = "prepared" =>
          /\ Verifies(client[c].witness, Own(c))
          /\ client[c].age <= RootHistorySize => ContainsRoot(client[c].witness.root)

(***************************************************************************)
(* Liveness: a client whose recorded index is that of its note, in a vault *)
(* that is not reset, gets its note out by retrying, although every read   *)
(* may be overtaken by other transactions.                                 *)
(***************************************************************************)
AtIndex(c) ==
    /\ client[c].index < tree.leafCount
    /\ ideal.leaves[client[c].index + 1] = Own(c)
ClientExits ==
    \A c \in Trade \cup Sdk :
       (client[c].pc = "owned" /\ AtIndex(c)) ~> (client[c].pc = "withdrawn")
=============================================================================
