---------------------------- MODULE VaultProofs -----------------------------
(***************************************************************************)
(* Theorems about the vault, for every set of mints, owners, orders, notes *)
(* and legs, every clock and tree bound and every ring size.               *)
(***************************************************************************)
EXTENDS Vault, MathProofs

-----------------------------------------------------------------------------
\* The operators of NoteTree, for every ring size and every set of leaves.

\* The head of the ring moves to the next slot, or back to the first one:
\* the index arithmetic of VaultConfig::push_root.
LEMMA HeadStep ==
    ASSUME NEW h \in 0 .. RootHistorySize - 1
    PROVE  (h + 1) % RootHistorySize =
               IF h + 1 = RootHistorySize THEN 0 ELSE h + 1
  BY RingAssumption, SMT

\* initialize and reset_merkle_tree produce a well-formed tree.
LEMMA EmptyTreeType == \A S : EmptyTree \in Tree(S)
  BY RingAssumption DEF EmptyTree, Tree, Root, RootOf, ZeroRoot

\* append_leaf keeps the tree well formed.
LEMMA AppendLeafType ==
    ASSUME NEW S, NEW t \in Tree(S), NEW leaf \in S
    PROVE  AppendLeaf(t, leaf) \in Tree(S)
  <1>1. Append(t.leaves, leaf) \in Seq(S)
    BY DEF Tree
  <1>2. PushedHead(t) \in 0 .. RootHistorySize - 1
    BY HeadStep, RingAssumption DEF Tree, PushedHead
  <1>3. RootOf(Append(t.leaves, leaf)) \in Root(S)
    BY <1>1 DEF Root, RootOf
  <1>4. PushedRoots(t) \in [0 .. RootHistorySize - 1 -> Root(S)]
    BY DEF Tree, PushedRoots
  <1>5. QED
    BY <1>1, <1>2, <1>3, <1>4 DEF AppendLeaf, Tree

\* More leaves may be admitted.
LEMMA TreeMonotone ==
    ASSUME NEW S, NEW T, S \subseteq T
    PROVE  Tree(S) \subseteq Tree(T)
  <1>1. Seq(S) \subseteq Seq(T)
    OBVIOUS
  <1>2. Root(S) \subseteq Root(T)
    BY <1>1 DEF Root
  <1>3. [0 .. RootHistorySize - 1 -> Root(S)] \subseteq [0 .. RootHistorySize - 1 -> Root(T)]
    BY <1>2
  <1>4. QED
    BY <1>1, <1>2, <1>3 DEF Tree

\* A root that contains_root accepts opens to leaves of the tree's type only.
LEMMA AcceptedOpens ==
    ASSUME NEW S, NEW t \in Tree(S), NEW root, NEW leaf,
           ContainsRoot(t, root), Opens(root, leaf)
    PROVE  leaf \in S
  <1>1. root \in Root(S)
    BY DEF ContainsRoot, Tree
  <1>2. root.leaves \in Seq(S)
    BY <1>1 DEF Root
  <1>3. QED
    BY <1>2 DEF Opens

\* The ring of an empty tree was never written.
LEMMA EmptyRingExact == RingExact(EmptyTree)
  BY RingAssumption DEF RingExact, EmptyTree, SlotBack, RootOf, ZeroRoot

(***************************************************************************)
(* append_leaf keeps the ring exact: the slot it overwrites is the oldest  *)
(* one, and seen from the new head every other slot is one step older.     *)
(***************************************************************************)
LEMMA AppendLeafRing ==
    ASSUME NEW S, NEW t \in Tree(S), NEW leaf \in S, RingExact(t)
    PROVE  RingExact(AppendLeaf(t, leaf))
  <1> DEFINE u == AppendLeaf(t, leaf)
             N == Len(t.leaves)
  <1>1. /\ u.leaves = Append(t.leaves, leaf)
        /\ u.current = RootOf(u.leaves)
        /\ u.roots = [t.roots EXCEPT ![t.head] = t.current]
        /\ u.head = (t.head + 1) % RootHistorySize
    BY DEF AppendLeaf, PushedRoots, PushedHead
  <1> HIDE DEF u
  <1>2. /\ t.head \in 0 .. RootHistorySize - 1
        /\ t.leaves \in Seq(S)
        /\ N \in Nat
        /\ DOMAIN t.roots = 0 .. RootHistorySize - 1
    BY DEF Tree
  <1>3. u.head = IF t.head + 1 = RootHistorySize THEN 0 ELSE t.head + 1
    BY <1>1, <1>2, HeadStep
  <1>4. Len(u.leaves) = N + 1
    BY <1>1, <1>2
  <1>5. ASSUME NEW k \in 0 .. N
        PROVE  SubSeq(u.leaves, 1, k) = SubSeq(t.leaves, 1, k)
    BY <1>1, <1>2, <1>5
  <1>6. SubSeq(t.leaves, 1, N) = t.leaves
    BY <1>2
  <1>7. ASSUME NEW i \in 0 .. RootHistorySize - 1
        PROVE  u.roots[SlotBack(u, i)] =
                 IF i < N + 1 THEN RootOf(SubSeq(u.leaves, 1, N - i)) ELSE ZeroRoot
    <2>1. CASE i = 0
      <3>1. SlotBack(u, 0) = t.head
        BY <1>2, <1>3, RingAssumption DEF SlotBack
      <3>2. u.roots[t.head] = RootOf(t.leaves)
        BY <1>1, <1>2 DEF RingExact
      <3>3. SubSeq(u.leaves, 1, N) = t.leaves
        BY <1>2, <1>5, <1>6
      <3>4. N - i = N /\ i < N + 1
        BY <2>1, <1>2
      <3>5. QED
        BY <2>1, <3>1, <3>2, <3>3, <3>4
    <2>2. CASE i # 0
      <3>1. i - 1 \in 0 .. RootHistorySize - 1
        BY <2>2, RingAssumption
      <3>2. /\ SlotBack(u, i) = SlotBack(t, i - 1)
            /\ SlotBack(u, i) \in 0 .. RootHistorySize - 1
            /\ SlotBack(u, i) # t.head
        BY <2>2, <1>2, <1>3, RingAssumption DEF SlotBack
      <3>3. u.roots[SlotBack(u, i)] = t.roots[SlotBack(t, i - 1)]
        BY <3>2, <1>1, <1>2
      <3>4. t.roots[SlotBack(t, i - 1)] =
              IF i - 1 < N THEN RootOf(SubSeq(t.leaves, 1, N - 1 - (i - 1))) ELSE ZeroRoot
        BY <3>1 DEF RingExact
      <3>5. N - 1 - (i - 1) = N - i /\ (i - 1 < N <=> i < N + 1)
        BY <1>2
      <3>6. i < N + 1 => SubSeq(u.leaves, 1, N - i) = SubSeq(t.leaves, 1, N - i)
        BY <1>2, <1>5
      <3>7. QED
        BY <3>3, <3>4, <3>5, <3>6
    <2>3. QED
      BY <2>1, <2>2
  <1>8. ASSUME NEW i \in 0 .. RootHistorySize - 1
        PROVE  u.roots[SlotBack(u, i)] =
                 IF i < Len(u.leaves) THEN RootOf(SubSeq(u.leaves, 1, Len(u.leaves) - 1 - i))
                                      ELSE ZeroRoot
    <2>1. Len(u.leaves) - 1 - i = N - i
      BY <1>2, <1>4
    <2>2. QED
      BY <1>4, <1>7, <2>1
  <1>9. RingExact(u)
    BY <1>1, <1>8 DEF RingExact
  <1>10. QED
    BY <1>9 DEF u

-----------------------------------------------------------------------------
\* The invariant.

\* The fields of a payload that the next-state relation hands to the settlement.
SettlePayload ==
    [mid : MatchId, a : Locked, b : Locked, orderA : OrderId, orderB : OrderId,
     legA : SettleLeg, legB : SettleLeg, hasE : BOOLEAN, hasF : BOOLEAN,
     relockA : BOOLEAN, relockB : BOOLEAN, expiryA : 1 .. MaxSlot,
     expiryB : 1 .. MaxSlot, feeMint : Mint \cup {NoMint}]

\* A settlement step comes with a well-formed payload.
LEMMA SettleWitness ==
    ASSUME SomeSettle
    PROVE  \E p \in SettlePayload : TeeForcedSettle(p)
  BY DEF SomeSettle, SettlePayload

\* The inductive invariant.
IndInv == TypeOK /\ Provenance /\ RootWindow

-----------------------------------------------------------------------------

\* The output notes of a signed payload are notes of the market's two mints.
LEMMA OutNoteTypes ==
    ASSUME TypeOK, NEW p \in SettlePayload, TeeSigned(p)
    PROVE  /\ FeesAfter(p) \in [Mint -> Nat]
           /\ NoteC(p) \in Note /\ NoteD(p) \in Note
           /\ NoteE(p) \in Note \cup {NoNote}
           /\ NoteF(p) \in Note \cup {NoNote}
           /\ NoteFee(p) \in Note \cup {NoNote}
           /\ p.feeMint # NoMint => NoteFee(p) \in Note
           /\ p.hasE => NoteE(p) \in Note /\ NoteE(p) # NoNote
           /\ p.hasF => NoteF(p) \in Note /\ NoteF(p) # NoNote
           /\ p.a \in Note /\ p.b \in Note
  <1>1. /\ p.a \in Note /\ p.b \in Note
        /\ p.legA \in Leg /\ p.legB \in Leg
        /\ p.mid \in Nat
    BY VaultAssumption DEF TypeOK, SettlePayload
  <1>2. \A m \in Mint : LegFee(p, m) \in Nat
    BY <1>1 DEF LegFee, Leg
  <1>3. FeesAfter(p) \in [Mint -> Nat]
    BY <1>2 DEF FeesAfter, TypeOK
  <1>4. NoteC(p) \in Note /\ NoteD(p) \in Note
    BY <1>1 DEF NoteC, NoteD, OutNote, Note, Leg, Role
  <1>5. p.hasE => NoteE(p) \in Note
    BY <1>1 DEF NoteE, OutNote, Note, Leg, Role
  <1>6. p.hasF => NoteF(p) \in Note
    BY <1>1 DEF NoteF, OutNote, Note, Leg, Role
  <1>7. NoteFee(p) \in Note \cup {NoNote} /\ (p.feeMint # NoMint => NoteFee(p) \in Note)
    <2>1. CASE p.feeMint = NoMint
      BY <2>1 DEF NoteFee
    <2>2. CASE p.feeMint # NoMint
      <3>1. p.feeMint \in Mint
        BY <2>2 DEF SettlePayload
      <3>2. FeesAfter(p)[p.feeMint] \in Nat /\ slot \in Nat /\ Treasury \in Owner
        BY <3>1, <1>3, VaultAssumption DEF TypeOK
      <3>3. QED
        BY <2>2, <3>1, <3>2 DEF NoteFee, OutNote, Note, Role
    <2>3. QED
      BY <2>1, <2>2
  <1>8. NoteE(p) \in Note \cup {NoNote} /\ NoteF(p) \in Note \cup {NoNote}
    BY <1>5, <1>6 DEF NoteE, NoteF
  <1>9. NoNote \notin Note
    BY VaultAssumption
  <1>10. QED
    BY <1>1, <1>3, <1>4, <1>5, <1>6, <1>7, <1>8, <1>9

\* An optional append keeps the tree well formed and its ring exact.
LEMMA AppendNoteTree ==
    ASSUME NEW S, NEW t \in Tree(S), RingExact(t), NEW n \in S \cup {NoNote}
    PROVE  AppendNote(t, n) \in Tree(S) /\ RingExact(AppendNote(t, n))
  BY AppendLeafType, AppendLeafRing DEF AppendNote

\* The tree that tee_forced_settle leaves behind after its five appends.
LEMMA SettledTreeOK ==
    ASSUME NEW S, tree \in Tree(S), RingExact(tree), NEW p,
           NoteC(p) \in S \cup {NoNote}, NoteD(p) \in S \cup {NoNote},
           NoteE(p) \in S \cup {NoNote}, NoteF(p) \in S \cup {NoNote},
           NoteFee(p) \in S \cup {NoNote}
    PROVE  SettledTree(p) \in Tree(S) /\ RingExact(SettledTree(p))
  <1> DEFINE t1 == AppendNote(tree, NoteC(p))
             t2 == AppendNote(t1, NoteD(p))
             t3 == AppendNote(t2, NoteE(p))
             t4 == AppendNote(t3, NoteF(p))
             t5 == AppendNote(t4, NoteFee(p))
  <1>1. t1 \in Tree(S) /\ RingExact(t1)
    BY AppendNoteTree
  <1> HIDE DEF t1
  <1>2. t2 \in Tree(S) /\ RingExact(t2)
    BY <1>1, AppendNoteTree
  <1> HIDE DEF t2
  <1>3. t3 \in Tree(S) /\ RingExact(t3)
    BY <1>2, AppendNoteTree
  <1> HIDE DEF t3
  <1>4. t4 \in Tree(S) /\ RingExact(t4)
    BY <1>3, AppendNoteTree
  <1> HIDE DEF t4
  <1>5. t5 \in Tree(S) /\ RingExact(t5)
    BY <1>4, AppendNoteTree
  <1>6. SettledTree(p) = t5
    BY DEF SettledTree, t1, t2, t3, t4
  <1>7. QED
    BY <1>5, <1>6

-----------------------------------------------------------------------------

\* initialize establishes the invariant.
LEMMA InitInv == Init => IndInv
  <1> SUFFICES ASSUME Init PROVE IndInv
    OBVIOUS
  <1> USE DEF Init, Locked, Consumed
  <1>1. TypeOK
    BY EmptyTreeType, VaultAssumption DEF TypeOK
  <1>2. TreeIssued
    BY EmptyTreeType DEF TreeIssued
  <1>3. Provenance
    BY <1>2 DEF Provenance, MarkersAgree, LocksTrue, MatchIdsUsed
  <1>4. RootWindow
    BY EmptyRingExact DEF RootWindow
  <1>5. QED
    BY <1>1, <1>3, <1>4 DEF IndInv

\* deposit keeps it: the appended note is issued and carries no match id.
LEMMA DepositInv ==
    ASSUME IndInv, NEW n \in DepositNote, Deposit(n)
    PROVE  IndInv'
  <1> USE DEF Locked, Consumed
  <1>1. n \in Note /\ n.nonce[2] = "deposit" /\ n.mint \in Mint /\ n.amount \in Nat
    BY VaultAssumption DEF Note
  <1>2. tree \in Tree(issued \cup {n})
    BY TreeMonotone DEF IndInv, Provenance, TreeIssued
  <1>3. tree' \in Tree(issued') /\ RingExact(tree')
    BY <1>2, AppendLeafType, AppendLeafRing DEF Deposit, IndInv, RootWindow
  <1>4. tree' \in Tree(Note)
    BY <1>1, <1>3, TreeMonotone DEF Deposit, IndInv, TypeOK
  <1>5. TypeOK'
    BY <1>1, <1>4 DEF IndInv, TypeOK, Deposit
  <1>6. MatchIdsUsed'
    BY <1>1 DEF IndInv, Provenance, MatchIdsUsed, Deposit
  <1>7. MarkersAgree' /\ LocksTrue'
    BY DEF IndInv, Provenance, MarkersAgree, LocksTrue, Deposit
  <1>8. QED
    BY <1>3, <1>5, <1>6, <1>7 DEF IndInv, Provenance, TreeIssued, RootWindow

\* lock_note keeps it: the lock is on an issued note, for its amount.
LEMMA LockNoteInv ==
    ASSUME IndInv, NEW n \in issued, NEW o \in OrderId, NEW e \in 1 .. MaxSlot,
           LockNote(n, o, e)
    PROVE  IndInv'
  <1> USE DEF Locked, Consumed
  <1>1. n \in Note /\ n.amount \in Nat /\ e \in Nat
    BY VaultAssumption DEF IndInv, TypeOK, Note
  <1>2. /\ Locked' = Locked \cup {n}
        /\ locks'[n] = [orderId |-> o, expiry |-> e, amount |-> n.amount]
        /\ \A x \in Locked : x # n => locks'[x] = locks[x]
    BY DEF LockNote, PutLock
  <1>3. \A x \in Locked' : locks'[x] \in Lock
    BY <1>1, <1>2 DEF IndInv, TypeOK, Lock
  <1>4. TypeOK'
    BY <1>1, <1>2, <1>3 DEF IndInv, TypeOK, LockNote
  <1>5. LocksTrue'
    BY <1>2 DEF IndInv, Provenance, LocksTrue
  <1>6. MarkersAgree'
    BY <1>2 DEF IndInv, Provenance, MarkersAgree, LockNote
  <1>7. TreeIssued' /\ MatchIdsUsed' /\ RootWindow'
    BY DEF IndInv, Provenance, TreeIssued, MatchIdsUsed, RootWindow, LockNote
  <1>8. QED
    BY <1>4, <1>5, <1>6, <1>7 DEF IndInv, Provenance

\* release_lock keeps it.
LEMMA ReleaseLockInv ==
    ASSUME IndInv, NEW n, ReleaseLock(n)
    PROVE  IndInv'
  <1> USE DEF Locked, Consumed
  <1>1. /\ Locked' = Locked \ {n}
        /\ \A x \in Locked' : locks'[x] = locks[x]
    BY DEF ReleaseLock, DropLocks
  <1>2. TypeOK'
    BY <1>1 DEF IndInv, TypeOK, ReleaseLock
  <1>3. LocksTrue' /\ MarkersAgree'
    BY <1>1 DEF IndInv, Provenance, LocksTrue, MarkersAgree, ReleaseLock
  <1>4. TreeIssued' /\ MatchIdsUsed' /\ RootWindow'
    BY DEF IndInv, Provenance, TreeIssued, MatchIdsUsed, RootWindow, ReleaseLock
  <1>5. QED
    BY <1>2, <1>3, <1>4 DEF IndInv, Provenance

\* withdraw keeps it: what an accepted root opens to was issued.
LEMMA WithdrawInv ==
    ASSUME IndInv, NEW n \in issued, NEW named, NEW root, Withdraw(n, named, root)
    PROVE  IndInv'
  <1> USE DEF Locked, Consumed
  <1>1. n \in Note /\ n.mint \in Mint /\ n.amount \in Nat
    BY DEF IndInv, TypeOK, Note
  <1>2. vaultToken' \in [Mint -> Nat]
    BY <1>1 DEF IndInv, TypeOK, Withdraw
  <1>3. TypeOK'
    BY <1>1, <1>2 DEF IndInv, TypeOK, Withdraw
  <1>4. MarkersAgree'
    BY DEF IndInv, Provenance, MarkersAgree, Withdraw
  <1>5. TreeIssued' /\ LocksTrue' /\ MatchIdsUsed' /\ RootWindow'
    BY DEF IndInv, Provenance, TreeIssued, LocksTrue, MatchIdsUsed, RootWindow, Withdraw
  <1>6. QED
    BY <1>3, <1>4, <1>5 DEF IndInv, Provenance

\* Trade and change notes of a match that settles were never issued before.
LEMMA OutNotesFresh ==
    ASSUME IndInv, NEW p \in SettlePayload, SettleGuard(p), TeeSigned(p)
    PROVE  /\ NoteC(p) \notin issued /\ NoteD(p) \notin issued
           /\ p.hasE => NoteE(p) \notin issued
           /\ p.hasF => NoteF(p) \notin issued
  <1>1. ~ \E x \in Consumed : consumed[x] = p.mid
    BY DEF SettleGuard, TeeSigned
  <1>2. \A n \in issued : n.nonce[2] \in {"trade", "change"} => n.nonce[1] # p.mid
    BY <1>1 DEF IndInv, Provenance, MatchIdsUsed
  <1>3. /\ NoteC(p).nonce = <<p.mid, "trade">>
        /\ NoteD(p).nonce = <<p.mid, "trade">>
        /\ p.hasE => NoteE(p).nonce = <<p.mid, "change">>
        /\ p.hasF => NoteF(p).nonce = <<p.mid, "change">>
    BY DEF NoteC, NoteD, NoteE, NoteF, OutNote
  <1>4. QED
    BY <1>2, <1>3

\* The locks after a settlement: those of the two inputs are closed, those
\* of the change notes are created, the others stay as they are.
LEMMA SettledLocksFacts ==
    ASSUME NEW p
    PROVE  /\ DOMAIN SettledLocks(p) =
                  (Locked \ {p.a, p.b})
                     \cup (IF p.relockA THEN {NoteE(p)} ELSE {})
                     \cup (IF p.relockB THEN {NoteF(p)} ELSE {})
           /\ \A x \in DOMAIN SettledLocks(p) :
                 SettledLocks(p)[x] =
                   IF p.relockB /\ x = NoteF(p)
                   THEN [orderId |-> p.orderB, expiry |-> p.expiryB,
                         amount |-> p.legB.change]
                   ELSE IF p.relockA /\ x = NoteE(p)
                   THEN [orderId |-> p.orderA, expiry |-> p.expiryA,
                         amount |-> p.legA.change]
                   ELSE locks[x]
  <1> DEFINE L0 == DropLocks(locks, {p.a, p.b})
             L1 == Relock(L0, p.relockA, NoteE(p), p.orderA, p.expiryA, p.legA.change)
  <1>1. DOMAIN L0 = Locked \ {p.a, p.b} /\ \A x \in DOMAIN L0 : L0[x] = locks[x]
    BY DEF DropLocks, Locked
  <1> HIDE DEF L0
  <1>2. /\ DOMAIN L1 = DOMAIN L0 \cup (IF p.relockA THEN {NoteE(p)} ELSE {})
        /\ \A x \in DOMAIN L1 :
              L1[x] = IF p.relockA /\ x = NoteE(p)
                      THEN [orderId |-> p.orderA, expiry |-> p.expiryA,
                            amount |-> p.legA.change]
                      ELSE L0[x]
    BY DEF Relock, PutLock
  <1> HIDE DEF L1
  <1>3. SettledLocks(p) = Relock(L1, p.relockB, NoteF(p), p.orderB, p.expiryB, p.legB.change)
    BY DEF SettledLocks, L0, L1
  <1>4. /\ DOMAIN SettledLocks(p) = DOMAIN L1 \cup (IF p.relockB THEN {NoteF(p)} ELSE {})
        /\ \A x \in DOMAIN SettledLocks(p) :
              SettledLocks(p)[x] =
                      IF p.relockB /\ x = NoteF(p)
                      THEN [orderId |-> p.orderB, expiry |-> p.expiryB,
                            amount |-> p.legB.change]
                      ELSE L1[x]
    BY <1>3 DEF Relock, PutLock
  <1>5. QED
    BY <1>1, <1>2, <1>4

\* tee_forced_settle keeps the invariant.
LEMMA SettleInv ==
    ASSUME IndInv, NEW p \in SettlePayload, TeeForcedSettle(p)
    PROVE  IndInv'
  <1> USE DEF Locked, Consumed
  <1>1. TypeOK /\ SettleGuard(p) /\ TeeSigned(p)
    BY DEF IndInv, TeeForcedSettle
  <1>2. /\ FeesAfter(p) \in [Mint -> Nat]
        /\ NoteC(p) \in Note /\ NoteD(p) \in Note
        /\ NoteE(p) \in Note \cup {NoNote}
        /\ NoteF(p) \in Note \cup {NoNote}
        /\ NoteFee(p) \in Note \cup {NoNote}
        /\ p.hasE => NoteE(p) \in Note /\ NoteE(p) # NoNote
        /\ p.hasF => NoteF(p) \in Note /\ NoteF(p) # NoNote
        /\ p.a \in Note /\ p.b \in Note
    BY <1>1, OutNoteTypes
  <1>3. /\ p.mid \in MatchId /\ p.a \in Locked /\ p.b \in Locked
        /\ p.legA \in Leg /\ p.legB \in Leg
    BY VaultAssumption DEF SettlePayload
  <1>4. issued' = issued \cup OutNotes(p) /\ OutNotes(p) \subseteq Note
    BY <1>2 DEF TeeForcedSettle, OutNotes
  <1>5. tree' \in Tree(issued') /\ RingExact(tree')
    <2>1. tree \in Tree(issued') /\ RingExact(tree)
      BY <1>4, TreeMonotone DEF IndInv, Provenance, TreeIssued, RootWindow
    <2>2. /\ NoteC(p) \in issued' \cup {NoNote} /\ NoteD(p) \in issued' \cup {NoNote}
          /\ NoteE(p) \in issued' \cup {NoNote} /\ NoteF(p) \in issued' \cup {NoNote}
          /\ NoteFee(p) \in issued' \cup {NoNote}
      BY <1>4 DEF OutNotes
    <2>3. tree' = SettledTree(p)
      BY DEF TeeForcedSettle
    <2>4. QED
      BY <2>1, <2>2, <2>3, SettledTreeOK
  <1>6. issued' \subseteq Note
    BY <1>1, <1>4 DEF TypeOK
  <1>7. tree' \in Tree(Note)
    BY <1>5, <1>6, TreeMonotone
  <1>8. /\ Consumed' = Consumed \cup {p.a, p.b}
        /\ \A x \in Consumed' : consumed'[x] = IF x \in {p.a, p.b} THEN p.mid ELSE consumed[x]
    BY DEF TeeForcedSettle
  <1>9. /\ p.relockA => p.hasE
        /\ p.relockB => p.hasF
    BY <1>1 DEF SettleGuard
  <1>10. /\ Locked' = (Locked \ {p.a, p.b})
                     \cup (IF p.relockA THEN {NoteE(p)} ELSE {})
                     \cup (IF p.relockB THEN {NoteF(p)} ELSE {})
         /\ \A x \in Locked' :
                 locks'[x] =
                   IF p.relockB /\ x = NoteF(p)
                   THEN [orderId |-> p.orderB, expiry |-> p.expiryB,
                         amount |-> p.legB.change]
                   ELSE IF p.relockA /\ x = NoteE(p)
                   THEN [orderId |-> p.orderA, expiry |-> p.expiryA,
                         amount |-> p.legA.change]
                   ELSE locks[x]
    BY SettledLocksFacts DEF TeeForcedSettle
  <1>11. Locked' \subseteq Note
    BY <1>1, <1>2, <1>9, <1>10 DEF TypeOK
  <1>12. \A x \in Locked' : locks'[x] \in Lock
    <2>1. locks[p.a] \in Lock /\ locks[p.b] \in Lock
      BY <1>1, <1>3 DEF TypeOK
    <2>2. \A x \in Locked : locks[x] \in Lock
      BY <1>1 DEF TypeOK
    <2>3. /\ [orderId |-> p.orderB, expiry |-> p.expiryB,
              amount |-> p.legB.change] \in Lock
          /\ [orderId |-> p.orderA, expiry |-> p.expiryA,
              amount |-> p.legA.change] \in Lock
      BY <2>1, <1>3, VaultAssumption DEF Lock, Leg, SettlePayload
    <2>4. QED
      BY <1>10, <2>2, <2>3
  <1>13. feesHeld' \in [Mint -> Nat] /\ stranded' \in [Mint -> Nat]
    BY <1>1, <1>2 DEF TeeForcedSettle, TypeOK
  <1>14. TypeOK'
    BY <1>1, <1>2, <1>3, <1>6, <1>7, <1>8, <1>11, <1>12, <1>13 DEF TypeOK, TeeForcedSettle
  <1>15. MarkersAgree'
    <2>1. p.a \in issued /\ p.b \in issued
      BY <1>3 DEF IndInv, Provenance, MarkersAgree
    <2>2. (p.hasE => NoteE(p) \in issued') /\ (p.hasF => NoteF(p) \in issued')
      BY <1>2, <1>4 DEF OutNotes
    <2>3. nullifiers' = nullifiers \cup {p.a, p.b}
      BY DEF TeeForcedSettle
    <2>4. QED
      BY <1>4, <1>8, <1>9, <1>10, <2>1, <2>2, <2>3 DEF IndInv, Provenance, MarkersAgree
  <1>16. LocksTrue'
    <2>1. /\ p.hasE => NoteE(p).amount = p.legA.change
          /\ p.hasF => NoteF(p).amount = p.legB.change
      BY DEF NoteE, NoteF, OutNote
    <2>2. QED
      BY <1>9, <1>10, <2>1 DEF IndInv, Provenance, LocksTrue
  <1>17. MatchIdsUsed'
    <2> SUFFICES ASSUME NEW n \in issued', n.nonce[2] \in {"trade", "change"}
                 PROVE  \E x \in Consumed' : consumed'[x] = n.nonce[1]
      BY DEF MatchIdsUsed
    <2>1. CASE n \in issued
      <3>1. PICK x \in Consumed : consumed[x] = n.nonce[1]
        BY <2>1 DEF IndInv, Provenance, MatchIdsUsed
      <3>2. x \in Consumed' /\ consumed'[x] = consumed[x]
        BY <1>1, <1>8, <3>1 DEF SettleGuard
      <3>3. QED
        BY <3>1, <3>2
    <2>2. CASE n \notin issued
      <3>1. n \in OutNotes(p)
        BY <1>4, <2>2
      <3>2. n # NoteFee(p)
        BY <3>1 DEF NoteFee, OutNote, OutNotes
      <3>3. n.nonce[1] = p.mid
        BY <3>1, <3>2 DEF OutNotes, NoteC, NoteD, NoteE, NoteF, OutNote
      <3>4. QED
        BY <1>8, <3>3
    <2>3. QED
      BY <2>1, <2>2
  <1>18. QED
    BY <1>5, <1>14, <1>15, <1>16, <1>17 DEF IndInv, Provenance, TreeIssued, RootWindow

\* set_protocol_config, reset_merkle_tree and the clock keep the invariant.
LEMMA AdminInv ==
    ASSUME IndInv, SomeConfig \/ ResetMerkleTree \/ Tick
    PROVE  IndInv'
  <1> USE DEF Locked, Consumed
  <1>1. CASE SomeConfig
    <2>1. TypeOK'
      BY <1>1, VaultAssumption DEF SomeConfig, SetProtocolConfig, IndInv, TypeOK
    <2>2. Provenance' /\ RootWindow'
      BY <1>1 DEF SomeConfig, SetProtocolConfig, IndInv, Provenance, TreeIssued,
                  MarkersAgree, LocksTrue, MatchIdsUsed, RootWindow
    <2>3. QED
      BY <2>1, <2>2 DEF IndInv
  <1>2. CASE ResetMerkleTree
    <2>1. tree' \in Tree(Note) /\ tree' \in Tree(issued) /\ RingExact(tree')
      BY <1>2, EmptyTreeType, EmptyRingExact DEF ResetMerkleTree
    <2>2. TypeOK'
      BY <1>2, <2>1 DEF ResetMerkleTree, IndInv, TypeOK
    <2>3. Provenance' /\ RootWindow'
      BY <1>2, <2>1 DEF ResetMerkleTree, IndInv, Provenance, TreeIssued,
                  MarkersAgree, LocksTrue, MatchIdsUsed, RootWindow
    <2>4. QED
      BY <2>2, <2>3 DEF IndInv
  <1>3. CASE Tick
    <2>1. TypeOK'
      BY <1>3, VaultAssumption DEF Tick, IndInv, TypeOK
    <2>2. Provenance' /\ RootWindow'
      BY <1>3 DEF Tick, IndInv, Provenance, TreeIssued,
                  MarkersAgree, LocksTrue, MatchIdsUsed, RootWindow
    <2>3. QED
      BY <2>1, <2>2 DEF IndInv
  <1>4. QED
    BY <1>1, <1>2, <1>3

\* Every step of the vault keeps the invariant.
LEMMA NextInv == IndInv /\ [Next]_vars => IndInv'
  <1> SUFFICES ASSUME IndInv, [Next]_vars PROVE IndInv'
    OBVIOUS
  <1>1. CASE SomeDeposit
    BY <1>1, DepositInv DEF SomeDeposit
  <1>2. CASE SomeLock
    BY <1>2, LockNoteInv DEF SomeLock
  <1>3. CASE SomeRelease
    BY <1>3, ReleaseLockInv DEF SomeRelease
  <1>4. CASE SomeWithdraw
    BY <1>4, WithdrawInv DEF SomeWithdraw
  <1>5. CASE SomeSettle
    BY <1>5, SettleWitness, SettleInv
  <1>6. CASE SomeConfig \/ ResetMerkleTree \/ Tick
    BY <1>6, AdminInv
  <1>7. CASE UNCHANGED vars
    BY <1>7 DEF vars, IndInv, TypeOK, Provenance, TreeIssued, MarkersAgree, LocksTrue,
                MatchIdsUsed, RootWindow, Locked, Consumed
  <1>8. QED
    BY <1>1, <1>2, <1>3, <1>4, <1>5, <1>6, <1>7 DEF Next

\* The vault's state is always of its type: no balance goes below zero, no
\* absent note is ever locked, nullified or appended.
THEOREM TypeCorrect == Spec => []TypeOK
  <1>1. IndInv => TypeOK
    BY DEF IndInv
  <1>2. QED
    BY InitInv, NextInv, <1>1, PTL DEF Spec

\* Nothing is locked, nullified or provable that was not issued; settled notes
\* are nullified; locks escrow the note's amount; match ids are used once.
THEOREM ProvenanceCorrect == Spec => []Provenance
  <1>1. IndInv => Provenance
    BY DEF IndInv
  <1>2. QED
    BY InitInv, NextInv, <1>1, PTL DEF Spec

\* The ring of roots accepts exactly the last RootHistorySize + 1 trees, for
\* every ring size, also when a settlement appends several leaves at once and
\* after a tree reset.
THEOREM RootWindowCorrect == Spec => []RootWindow
  <1>1. IndInv => RootWindow
    BY DEF IndInv
  <1>2. QED
    BY InitInv, NextInv, <1>1, PTL DEF Spec

-----------------------------------------------------------------------------

\* A deposit funds the ledger.
LEMMA DepositFunds ==
    ASSUME IndInv, NEW n \in DepositNote, Deposit(n)
    PROVE  Ledger!Fund
  <1>1. n.mint \in Mint /\ n.amount \in Nat /\ n.amount > 0 /\ vaultToken \in [Mint -> Nat]
    BY VaultAssumption DEF IndInv, TypeOK, Note, Deposit
  <1>2. Live' = (issued \cup {n}) \ nullifiers /\ UNCHANGED <<nullifiers, Locked>>
    BY DEF Live, Deposit, Locked
  <1>3. vaultToken' = [vaultToken EXCEPT ![n.mint] = vaultToken[n.mint] + n.amount]
    BY DEF Deposit
  <1>4. vaultToken'[n.mint] = vaultToken[n.mint] + n.amount
    BY <1>1, <1>3
  <1>5. vaultToken' = [vaultToken EXCEPT ![n.mint] = vaultToken'[n.mint]]
    BY <1>3, <1>4
  <1>6. vaultToken'[n.mint] > vaultToken[n.mint]
        /\ n.amount = vaultToken'[n.mint] - vaultToken[n.mint]
    BY <1>1, <1>4
  <1>7. /\ Live \subseteq Live'
        /\ \A x \in Live' \ Live : x = n
        /\ Live' \cap nullifiers = {}
    BY <1>2 DEF Live
  <1>8. QED
    BY <1>1, <1>2, <1>5, <1>6, <1>7 DEF Ledger!Fund

\* A withdrawal redeems one live note, for its amount.
LEMMA WithdrawRedeems ==
    ASSUME IndInv, NEW n \in issued, NEW named, NEW root, Withdraw(n, named, root)
    PROVE  Ledger!Redeem
  <1>1. n \in Live
    BY DEF Live, Withdraw
  <1>2. Live' = Live \ {n} /\ nullifiers' = nullifiers \cup {n} /\ UNCHANGED Locked
    BY DEF Live, Withdraw, Locked
  <1>3. vaultToken' = [vaultToken EXCEPT ![n.mint] = @ - n.amount]
    BY DEF Withdraw
  <1>4. QED
    BY <1>1, <1>2, <1>3 DEF Ledger!Redeem

\* A settlement exchanges two live notes that are held.
LEMMA SettleExchanges ==
    ASSUME IndInv, NEW p \in SettlePayload, TeeForcedSettle(p)
    PROVE  Ledger!Exchange
  <1>1. SettleGuard(p) /\ TeeSigned(p) /\ TypeOK
    BY DEF TeeForcedSettle, IndInv
  <1>2. Locked \subseteq issued /\ nullifiers \subseteq issued
    BY DEF IndInv, Provenance, MarkersAgree
  <1>3. p.a \in Live \cap Locked /\ p.b \in Live \cap Locked /\ p.a.mint # p.b.mint
    BY <1>1, <1>2 DEF SettleGuard, TeeSigned, Live
  <1>4. /\ nullifiers' = nullifiers \cup {p.a, p.b}
        /\ issued' = issued \cup OutNotes(p)
        /\ UNCHANGED vaultToken
    BY DEF TeeForcedSettle
  <1>5. /\ Live \ {p.a, p.b} \subseteq Live'
        /\ Live' \cap nullifiers' = {}
        /\ Live' \ Live \subseteq OutNotes(p)
    BY <1>4 DEF Live
  <1>6. \A x \in OutNotes(p) : x.mint \in {p.a.mint, p.b.mint}
    BY <1>1 DEF OutNotes, NoteC, NoteD, NoteE, NoteF, NoteFee, OutNote, TeeSigned
  <1>7. Locked' = (Locked \ {p.a, p.b})
                     \cup (IF p.relockA THEN {NoteE(p)} ELSE {})
                     \cup (IF p.relockB THEN {NoteF(p)} ELSE {})
    BY SettledLocksFacts DEF TeeForcedSettle, Locked
  <1>8. (p.relockA => p.hasE) /\ (p.relockB => p.hasF)
    BY <1>1 DEF SettleGuard
  <1>9. /\ p.relockA => NoteE(p) \notin issued /\ NoteE(p) \in issued'
        /\ p.relockB => NoteF(p) \notin issued /\ NoteF(p) \in issued'
    BY <1>1, <1>4, <1>8, OutNotesFresh, OutNoteTypes DEF OutNotes
  <1>10. /\ p.relockA => NoteE(p) \in Live' /\ NoteE(p) \notin {p.a, p.b}
         /\ p.relockB => NoteF(p) \in Live' /\ NoteF(p) \notin {p.a, p.b}
    BY <1>2, <1>3, <1>4, <1>9 DEF Live
  <1>11. /\ Locked \ {p.a, p.b} \subseteq Locked'
         /\ Locked' \ Locked \subseteq Live'
         /\ p.a \notin Locked' /\ p.b \notin Locked'
    BY <1>7, <1>10
  <1>12. QED
    BY <1>3, <1>4, <1>5, <1>6, <1>11 DEF Ledger!Exchange

\* Every step of the vault is a step of the ledger or leaves it unchanged.
LEMMA LedgerStep == IndInv /\ [Next]_vars => [Ledger!LNext]_(Ledger!lvars)
  <1> SUFFICES ASSUME IndInv, [Next]_vars PROVE [Ledger!LNext]_(Ledger!lvars)
    OBVIOUS
  <1>1. CASE SomeDeposit
    BY <1>1, DepositFunds DEF SomeDeposit, Ledger!LNext
  <1>2. CASE SomeLock
    <2>1. PICK n \in issued, o \in OrderId, e \in 1 .. MaxSlot : LockNote(n, o, e)
      BY <1>2 DEF SomeLock
    <2>2. Locked' = Locked \cup {n} /\ UNCHANGED <<Live, nullifiers, vaultToken>>
      BY <2>1 DEF LockNote, PutLock, Locked, Live
    <2>3. Ledger!Hold
      BY <2>2 DEF Ledger!Hold
    <2>4. QED
      BY <2>3 DEF Ledger!LNext
  <1>3. CASE SomeRelease
    <2>1. PICK n \in Locked : ReleaseLock(n)
      BY <1>3 DEF SomeRelease
    <2>2. Locked' = Locked \ {n} /\ UNCHANGED <<Live, nullifiers, vaultToken>>
      BY <2>1 DEF ReleaseLock, DropLocks, Locked, Live
    <2>3. Ledger!Unhold
      BY <2>2 DEF Ledger!Unhold
    <2>4. QED
      BY <2>3 DEF Ledger!LNext
  <1>4. CASE SomeWithdraw
    BY <1>4, WithdrawRedeems DEF SomeWithdraw, Ledger!LNext
  <1>5. CASE SomeSettle
    BY <1>5, SettleWitness, SettleExchanges DEF Ledger!LNext
  <1>6. CASE SomeConfig \/ ResetMerkleTree \/ Tick \/ UNCHANGED vars
    <2>1. UNCHANGED <<Live, nullifiers, Locked, vaultToken>>
      BY <1>6 DEF SomeConfig, SetProtocolConfig, ResetMerkleTree, Tick, vars, Live, Locked
    <2>2. QED
      BY <2>1 DEF Ledger!lvars
  <1>7. QED
    BY <1>1, <1>2, <1>3, <1>4, <1>5, <1>6 DEF Next

(***************************************************************************)
(* The vault implements the note ledger: tokens leave it only for a live   *)
(* note, once and for its amount; a settlement takes two live notes that   *)
(* are both collateral; redeemed and settled notes never become live       *)
(* again, whatever is deposited, locked, released, settled or reset.       *)
(***************************************************************************)
THEOREM VaultImplementsLedger == Spec => LedgerSpec
  <1>1. Init => Ledger!LInit
    BY DEF Init, Ledger!LInit, Live, Locked
  <1>2. QED
    BY <1>1, InitInv, NextInv, LedgerStep, PTL DEF Spec, LedgerSpec, Ledger!LSpec

-----------------------------------------------------------------------------

\* Until its expiry a lock stays as it is, or its note is settled together
\* with another locked one.
LEMMA LockNext == IndInv /\ [Next]_vars => [LockStep]_vars
  <1> SUFFICES ASSUME IndInv, Next, NEW n \in Locked, slot < locks[n].expiry
               PROVE  \/ n \in Locked' /\ locks'[n] = locks[n]
                            /\ n \notin Consumed' \ Consumed
                      \/ /\ Taken(n)
                         /\ \E m \in Locked \ {n} : Taken(m) /\ consumed'[m] = consumed'[n]
    BY DEF LockStep
  <1>1. CASE SomeDeposit
    BY <1>1 DEF SomeDeposit, Deposit, Locked, Consumed
  <1>2. CASE SomeLock
    BY <1>2 DEF SomeLock, LockNote, PutLock, Locked, Consumed
  <1>3. CASE SomeRelease
    <2>1. PICK x \in Locked : ReleaseLock(x)
      BY <1>3 DEF SomeRelease
    <2>2. x # n
      <3>1. locks[n].expiry \in Nat /\ slot \in Nat
        BY VaultAssumption DEF IndInv, TypeOK, Lock
      <3>2. QED
        BY <2>1, <3>1 DEF ReleaseLock
    <2>3. QED
      BY <2>1, <2>2 DEF ReleaseLock, DropLocks, Locked, Consumed
  <1>4. CASE SomeWithdraw
    BY <1>4 DEF SomeWithdraw, Withdraw, Locked, Consumed
  <1>5. CASE SomeSettle
    <2>1. PICK p \in SettlePayload : TeeForcedSettle(p)
      BY <1>5, SettleWitness
    <2>2. CASE n \in {p.a, p.b}
      <3>1. SettleGuard(p) /\ TeeSigned(p) /\ p.a \in issued /\ p.b \in issued
        BY <2>1 DEF TeeForcedSettle, SettleGuard, IndInv, Provenance, MarkersAgree
      <3>2. \A m \in {p.a, p.b} : (p.relockA => m # NoteE(p)) /\ (p.relockB => m # NoteF(p))
        BY <3>1, OutNotesFresh DEF SettleGuard
      <3>3. \A m \in {p.a, p.b} : m \notin Locked'
        BY <2>1, <3>2, SettledLocksFacts DEF TeeForcedSettle, Locked
      <3>4. \A m \in {p.a, p.b} : Taken(m) /\ consumed'[m] = p.mid /\ m \in Locked
        BY <2>1, <3>3 DEF TeeForcedSettle, SettleGuard, Consumed, Taken
      <3>5. p.a # p.b
        BY <3>1 DEF SettleGuard
      <3>6. QED
        BY <2>2, <3>4, <3>5
    <2>3. CASE n \notin {p.a, p.b}
      <3>1. n \in Locked'
        BY <2>1, <2>3, SettledLocksFacts DEF TeeForcedSettle, Locked
      <3>2. SettleGuard(p) /\ TeeSigned(p) /\ n \in issued
        BY <2>1 DEF TeeForcedSettle, IndInv, Provenance, MarkersAgree
      <3>3. (p.relockA => n # NoteE(p)) /\ (p.relockB => n # NoteF(p))
        BY <3>2, OutNotesFresh DEF SettleGuard
      <3>4. locks'[n] = locks[n]
        BY <2>1, <3>1, <3>3, SettledLocksFacts DEF TeeForcedSettle, Locked
      <3>5. n \notin Consumed' \ Consumed
        BY <2>1, <2>3 DEF TeeForcedSettle, Consumed
      <3>6. QED
        BY <3>1, <3>4, <3>5
    <2>4. QED
      BY <2>2, <2>3
  <1>6. CASE SomeConfig \/ ResetMerkleTree \/ Tick
    BY <1>6 DEF SomeConfig, SetProtocolConfig, ResetMerkleTree, Tick, Locked, Consumed
  <1>7. QED
    BY <1>1, <1>2, <1>3, <1>4, <1>5, <1>6 DEF Next

\* The lock of an accepted order is not released, replaced or settled alone
\* before it expires, whatever its owner, other users and the admin do.
THEOREM LockCorrect == Spec => LockKept
  BY InitInv, NextInv, LockNext, PTL DEF Spec, LockKept

-----------------------------------------------------------------------------
(***************************************************************************)
(* Solvency.                                                               *)
(***************************************************************************)

Amounts == [n \in Note |-> n.amount]
Worth(n, m) == IF n.mint = m THEN n.amount ELSE 0

\* The value of a finite set of notes, as a sum of their amounts.
LEMMA ValueTotal ==
    ASSUME NEW S \in SUBSET Note, IsFiniteSet(S)
    PROVE  MapThenSumSet(LAMBDA n : n.amount, S) = Total(Amounts, S)
  <1> DEFINE E(g) == g = [s \in SUBSET S |-> IF s = {} THEN 0
                                             ELSE Pick(s).amount + g[s \ {Pick(s)}]]
             h == CHOOSE g : E(g)
  <1>1. MapThenSumSet(LAMBDA n : n.amount, S) = h[S]
    BY DEF MapThenSumSet, MapThenFoldSet, Pick
  <1>2. ASSUME NEW s \in SUBSET S, s # {}  PROVE Amounts[Pick(s)] = Pick(s).amount
    BY <1>2, PickFact DEF Amounts
  <1>3. ASSUME NEW g  PROVE E(g) <=> Adds(g, Amounts, S)
    <2>1. [s \in SUBSET S |-> IF s = {} THEN 0 ELSE Pick(s).amount + g[s \ {Pick(s)}]]
             = [s \in SUBSET S |-> IF s = {} THEN 0 ELSE Amounts[Pick(s)] + g[s \ {Pick(s)}]]
      BY <1>2
    <2>2. QED
      BY <2>1 DEF Adds
  <1>4. \A x \in S : Amounts[x] \in Nat
    BY DEF Amounts, Note
  <1>5. \E g : E(g)
    BY <1>3, <1>4, AddsExists
  <1>6. E(h)
    BY <1>5
  <1> HIDE DEF h
  <1>7. Adds(h, Amounts, S)
    BY <1>3, <1>6
  <1>8. Total(Amounts, S) = h[S]
    BY <1>4, <1>7, TotalFact
  <1>9. QED
    BY <1>1, <1>8

\* A note more, or one less, changes the value of its mint by its amount.
LEMMA ValueInsert ==
    ASSUME NEW S \in SUBSET Note, IsFiniteSet(S), NEW n \in Note, n \notin S, NEW m \in Mint
    PROVE  /\ Value(S, m) \in Nat /\ Worth(n, m) \in Nat
           /\ Value(S \cup {n}, m) = Value(S, m) + Worth(n, m)
           /\ S \cup {n} \in SUBSET Note /\ IsFiniteSet(S \cup {n})
  <1> DEFINE A == {k \in S : k.mint = m}
             B == {k \in S \cup {n} : k.mint = m}
  <1>1. IsFiniteSet(A) /\ A \in SUBSET Note /\ n \notin A /\ IsFiniteSet(S \cup {n})
    BY FS_Subset, FS_AddElement
  <1>2. IsFiniteSet(B) /\ B \in SUBSET Note
    BY <1>1, FS_Subset
  <1>3. Value(S, m) = Total(Amounts, A) /\ Value(S \cup {n}, m) = Total(Amounts, B)
    <2>1. MapThenSumSet(LAMBDA k : k.amount, A) = Total(Amounts, A)
      BY <1>1, ValueTotal
    <2>2. MapThenSumSet(LAMBDA k : k.amount, B) = Total(Amounts, B)
      BY <1>2, ValueTotal
    <2>3. QED
      BY <2>1, <2>2 DEF Value
  <1>4. /\ \A x \in A \cup {n} : Amounts[x] \in Nat
        /\ Amounts[n] = n.amount /\ n.amount \in Nat
    BY <1>1 DEF Amounts, Note
  <1>5. Total(Amounts, A) \in Nat
    BY <1>1, <1>4, TotalFact
  <1>6. CASE n.mint = m
    <2>1. B = A \cup {n}
      BY <1>6
    <2> HIDE DEF A, B
    <2>2. Total(Amounts, A \cup {n}) = Amounts[n] + Total(Amounts, A)
      BY <1>1, <1>4, TotalInsert
    <2>3. QED
      BY <1>1, <1>3, <1>4, <1>5, <1>6, <2>1, <2>2 DEF Worth
  <1>7. CASE n.mint # m
    <2>1. B = A
      BY <1>7
    <2> HIDE DEF A, B
    <2>2. QED
      BY <1>1, <1>3, <1>5, <1>7, <2>1 DEF Worth
  <1>8. QED
    BY <1>6, <1>7

LEMMA ValueRemove ==
    ASSUME NEW S \in SUBSET Note, IsFiniteSet(S), NEW n \in S, NEW m \in Mint
    PROVE  /\ Value(S \ {n}, m) \in Nat /\ Worth(n, m) \in Nat
           /\ Value(S, m) = Value(S \ {n}, m) + Worth(n, m)
           /\ S \ {n} \in SUBSET Note /\ IsFiniteSet(S \ {n})
  <1>1. S \ {n} \in SUBSET Note /\ IsFiniteSet(S \ {n}) /\ n \in Note /\ n \notin S \ {n}
        /\ (S \ {n}) \cup {n} = S
    BY FS_RemoveElement
  <1>2. /\ Value(S \ {n}, m) \in Nat /\ Worth(n, m) \in Nat
        /\ Value((S \ {n}) \cup {n}, m) = Value(S \ {n}, m) + Worth(n, m)
    BY <1>1, ValueInsert
  <1>3. QED
    BY <1>1, <1>2

LEMMA ValueNat ==
    ASSUME NEW S \in SUBSET Note, IsFiniteSet(S), NEW m \in Mint
    PROVE  Value(S, m) \in Nat
  <1> DEFINE A == {k \in S : k.mint = m}
  <1>1. IsFiniteSet(A) /\ A \in SUBSET Note
    BY FS_Subset
  <1>2. MapThenSumSet(LAMBDA k : k.amount, A) = Total(Amounts, A)
    BY <1>1, ValueTotal
  <1>3. \A x \in A : Amounts[x] \in Nat
    BY <1>1 DEF Amounts, Note
  <1>4. Total(Amounts, A) \in Nat
    BY <1>1, <1>3, TotalFact
  <1>5. QED
    BY <1>2, <1>4 DEF Value

SolventInv == Solvent /\ IsFiniteSet(issued)

LEMMA LiveNotes ==
    ASSUME IndInv, SolventInv
    PROVE  Live \in SUBSET Note /\ IsFiniteSet(Live)
  <1>1. Live \in SUBSET issued /\ IsFiniteSet(issued)
    BY DEF Live, SolventInv
  <1>2. QED
    BY <1>1, FS_Subset DEF IndInv, TypeOK

LEMMA SolventInit == Init => SolventInv
  <1> SUFFICES ASSUME Init  PROVE SolventInv
    OBVIOUS
  <1>1. Live = {} /\ IsFiniteSet(issued)
    BY FS_EmptySet DEF Init, Live
  <1>2. ASSUME NEW m \in Mint  PROVE Value({}, m) = 0
    <2>1. {n \in {} : n.mint = m} = {} /\ {} \in SUBSET Note
      OBVIOUS
    <2>2. MapThenSumSet(LAMBDA n : n.amount, {}) = Total(Amounts, {})
      BY <2>1, FS_EmptySet, ValueTotal
    <2>3. Total(Amounts, {}) = 0
      BY FS_EmptySet, TotalFact
    <2>4. QED
      BY <2>1, <2>2, <2>3 DEF Value
  <1>3. QED
    BY <1>1, <1>2 DEF SolventInv, Solvent, Init

\* deposit: the tokens that come in are the new note's, or stranded.
LEMMA SolventDeposit ==
    ASSUME IndInv, SolventInv, NEW n \in DepositNote, Deposit(n)
    PROVE  SolventInv'
  <1>0. /\ n \in Note /\ n.mint \in Mint /\ n.amount \in Nat /\ nullifiers \subseteq issued
        /\ vaultToken \in [Mint -> Nat] /\ stranded \in [Mint -> Nat] /\ feesHeld \in [Mint -> Nat]
    BY VaultAssumption DEF Note, IndInv, TypeOK, Provenance, MarkersAgree
  <1>1. IsFiniteSet(issued')
    BY FS_AddElement DEF SolventInv, Deposit
  <1>2. Live \in SUBSET Note /\ IsFiniteSet(Live)
    BY LiveNotes
  <1>3. ASSUME NEW m \in Mint
        PROVE  vaultToken'[m] = Value(Live', m) + feesHeld'[m] + stranded'[m]
    <2> DEFINE v == Value(Live, m)
    <2>1. vaultToken[m] = v + feesHeld[m] + stranded[m]
      BY DEF SolventInv, Solvent
    <2>2. vaultToken'[m] = vaultToken[m] + Worth(n, m) /\ feesHeld'[m] = feesHeld[m]
      BY <1>0 DEF Deposit, Worth
    <2>3. feesHeld[m] \in Nat /\ stranded[m] \in Nat /\ Worth(n, m) \in Nat
      BY <1>0 DEF Worth
    <2>4. CASE n \in issued
      <3>1. Live' = Live /\ stranded'[m] = stranded[m] + Worth(n, m)
        BY <1>0, <2>4 DEF Live, Deposit, Worth
      <3>2. v \in Nat
        BY <1>2, ValueNat
      <3> HIDE DEF v
      <3>3. vaultToken'[m] = v + feesHeld'[m] + stranded'[m]
        BY <2>1, <2>2, <2>3, <3>1, <3>2
      <3>4. QED
        BY <3>1, <3>3 DEF v
    <2>5. CASE n \notin issued
      <3>1. Live' = Live \cup {n} /\ n \notin Live /\ stranded'[m] = stranded[m]
        BY <1>0, <2>5 DEF Live, Deposit
      <3>2. v \in Nat /\ Value(Live \cup {n}, m) = v + Worth(n, m)
        BY <1>0, <1>2, <3>1, ValueInsert
      <3> HIDE DEF v
      <3>3. QED
        BY <2>1, <2>2, <2>3, <3>1, <3>2
    <2>6. QED
      BY <2>4, <2>5
  <1>4. QED
    BY <1>1, <1>3 DEF SolventInv, Solvent

\* withdraw: one live note goes with its tokens.
LEMMA SolventWithdraw ==
    ASSUME IndInv, SolventInv, NEW n \in issued, NEW named, NEW root, Withdraw(n, named, root)
    PROVE  SolventInv'
  <1>0. /\ n \in Note /\ n.mint \in Mint /\ n.amount \in Nat
        /\ vaultToken \in [Mint -> Nat] /\ stranded \in [Mint -> Nat] /\ feesHeld \in [Mint -> Nat]
    BY DEF Note, IndInv, TypeOK
  <1>1. IsFiniteSet(issued') /\ UNCHANGED <<feesHeld, stranded>>
    BY DEF SolventInv, Withdraw
  <1>2. Live \in SUBSET Note /\ IsFiniteSet(Live)
    BY LiveNotes
  <1>3. n \in Live /\ Live' = Live \ {n}
    BY DEF Live, Withdraw
  <1>4. ASSUME NEW m \in Mint
        PROVE  vaultToken'[m] = Value(Live', m) + feesHeld'[m] + stranded'[m]
    <2> DEFINE v == Value(Live \ {n}, m)
    <2>1. vaultToken[m] = Value(Live, m) + feesHeld[m] + stranded[m]
      BY DEF SolventInv, Solvent
    <2>2. v \in Nat /\ Worth(n, m) \in Nat /\ Value(Live, m) = v + Worth(n, m)
      BY <1>2, <1>3, ValueRemove
    <2>3. vaultToken'[m] = vaultToken[m] - Worth(n, m)
      BY <1>0 DEF Withdraw, Worth
    <2>4. feesHeld[m] \in Nat /\ stranded[m] \in Nat
      BY <1>0
    <2> HIDE DEF v
    <2>5. vaultToken'[m] = v + feesHeld[m] + stranded[m]
      BY <2>1, <2>2, <2>3, <2>4
    <2>6. QED
      BY <1>1, <1>3, <2>5 DEF v
  <1>5. QED
    BY <1>1, <1>4 DEF SolventInv, Solvent

\* A note that a settlement may create.
LEMMA ValueAdd ==
    ASSUME NEW S \in SUBSET Note, IsFiniteSet(S), NEW n \in Note \cup {NoNote}, n \notin S, NEW m \in Mint,
           NEW w, w = IF n = NoNote THEN 0 ELSE Worth(n, m)
    PROVE  /\ Value(S, m) \in Nat /\ w \in Nat
           /\ Value(S \cup ({n} \ {NoNote}), m) = Value(S, m) + w
           /\ S \cup ({n} \ {NoNote}) \in SUBSET Note /\ IsFiniteSet(S \cup ({n} \ {NoNote}))
  <1>0. Value(S, m) \in Nat
    BY ValueNat
  <1>1. CASE n = NoNote
    <2>1. S \cup ({n} \ {NoNote}) = S
      BY <1>1
    <2>2. QED
      BY <1>0, <1>1, <2>1
  <1>2. CASE n # NoNote
    <2>1. S \cup ({n} \ {NoNote}) = S \cup {n} /\ n \in Note
      BY <1>2
    <2>2. QED
      BY <1>2, <2>1, ValueInsert
  <1>3. QED
    BY <1>1, <1>2

\* The fee note of a settlement, if it is a new one.
NewFee(p) == IF NoteFee(p) \in issued THEN NoNote ELSE NoteFee(p)

LEMMA OutputsApart ==
    ASSUME IndInv, NEW p \in SettlePayload, SettleGuard(p), TeeSigned(p)
    PROVE  /\ NoteC(p) \notin issued /\ NoteC(p) # NoNote
           /\ NoteD(p) \notin issued \cup {NoteC(p)} /\ NoteD(p) # NoNote
           /\ NoteE(p) # NoNote => NoteE(p) \notin issued \cup {NoteC(p), NoteD(p)}
           /\ NoteF(p) # NoNote => NoteF(p) \notin issued \cup {NoteC(p), NoteD(p), NoteE(p)}
           /\ NewFee(p) # NoNote =>
                 NewFee(p) \notin issued \cup {NoteC(p), NoteD(p), NoteE(p), NoteF(p)}
  <1>1. /\ NoteC(p) \notin issued /\ NoteD(p) \notin issued
        /\ p.hasE => NoteE(p) \notin issued
        /\ p.hasF => NoteF(p) \notin issued
    BY OutNotesFresh
  <1>2. /\ NoteC(p) \in Note /\ NoteD(p) \in Note
        /\ ~p.hasE => NoteE(p) = NoNote
        /\ ~p.hasF => NoteF(p) = NoNote
    BY OutNoteTypes DEF IndInv, NoteE, NoteF
  <1>3. /\ NoteC(p).mint = p.b.mint /\ NoteC(p).nonce[2] = "trade"
        /\ NoteD(p).mint = p.a.mint /\ NoteD(p).nonce[2] = "trade"
        /\ p.hasE => NoteE(p).mint = p.a.mint /\ NoteE(p).nonce[2] = "change"
        /\ p.hasF => NoteF(p).mint = p.b.mint /\ NoteF(p).nonce[2] = "change"
        /\ p.feeMint # NoMint => NoteFee(p).nonce[2] = "fee"
        /\ p.feeMint = NoMint => NoteFee(p) = NoNote
    BY DEF NoteC, NoteD, NoteE, NoteF, NoteFee, OutNote
  <1>4. p.a.mint # p.b.mint
    BY DEF TeeSigned
  <1>5. NoNote \notin Note
    BY VaultAssumption
  <1>6. NewFee(p) # NoNote => NewFee(p) \notin issued /\ NewFee(p).nonce[2] = "fee"
    BY <1>3 DEF NewFee
  <1>7. QED
    BY <1>1, <1>2, <1>3, <1>4, <1>5, <1>6

\* What the outputs are worth: each leg is split without a rest.
LEMMA OutputsWorth ==
    ASSUME IndInv, NEW p \in SettlePayload, SettleGuard(p), TeeSigned(p), NEW m \in Mint
    PROVE  /\ Worth(p.a, m) = (IF m = p.a.mint THEN p.legA.trade + p.legA.change + p.legA.fee ELSE 0)
           /\ Worth(p.b, m) = (IF m = p.b.mint THEN p.legB.trade + p.legB.change + p.legB.fee ELSE 0)
           /\ Worth(NoteC(p), m) = (IF m = p.b.mint THEN p.legB.trade ELSE 0)
           /\ Worth(NoteD(p), m) = (IF m = p.a.mint THEN p.legA.trade ELSE 0)
           /\ (IF NoteE(p) = NoNote THEN 0 ELSE Worth(NoteE(p), m))
                 = (IF m = p.a.mint THEN p.legA.change ELSE 0)
           /\ (IF NoteF(p) = NoNote THEN 0 ELSE Worth(NoteF(p), m))
                 = (IF m = p.b.mint THEN p.legB.change ELSE 0)
           /\ (IF NewFee(p) = NoNote THEN 0 ELSE Worth(NewFee(p), m))
                 = (IF m = p.feeMint /\ NoteFee(p) \notin issued THEN FeesAfter(p)[m] ELSE 0)
  <1>1. /\ p.a \in Locked /\ p.b \in Locked /\ p.legA \in Leg /\ p.legB \in Leg
        /\ locks[p.a].amount = p.a.amount /\ locks[p.b].amount = p.b.amount
    BY VaultAssumption DEF SettlePayload, IndInv, Provenance, LocksTrue
  <1>2. /\ p.a.amount = p.legA.trade + p.legA.change + p.legA.fee
        /\ p.b.amount = p.legB.trade + p.legB.change + p.legB.fee
        /\ p.hasE = (p.legA.change > 0) /\ p.hasF = (p.legB.change > 0)
    BY <1>1 DEF SettleGuard, Conserved
  <1>3. /\ p.legA.change \in Nat /\ p.legB.change \in Nat
    BY <1>1 DEF Leg
  <1>4. /\ p.hasE => NoteE(p) # NoNote
        /\ p.hasF => NoteF(p) # NoNote
        /\ p.feeMint # NoMint => NoteFee(p) \in Note
    BY OutNoteTypes DEF IndInv
  <1>5. /\ Worth(p.a, m) = (IF m = p.a.mint THEN p.legA.trade + p.legA.change + p.legA.fee ELSE 0)
        /\ Worth(p.b, m) = (IF m = p.b.mint THEN p.legB.trade + p.legB.change + p.legB.fee ELSE 0)
    BY <1>2 DEF Worth
  <1>6. /\ Worth(NoteC(p), m) = (IF m = p.b.mint THEN p.legB.trade ELSE 0)
        /\ Worth(NoteD(p), m) = (IF m = p.a.mint THEN p.legA.trade ELSE 0)
    BY DEF Worth, NoteC, NoteD, OutNote
  <1>7. (IF NoteE(p) = NoNote THEN 0 ELSE Worth(NoteE(p), m)) = (IF m = p.a.mint THEN p.legA.change ELSE 0)
    <2>1. CASE p.hasE
      BY <1>4, <2>1 DEF Worth, NoteE, OutNote
    <2>2. CASE ~p.hasE
      <3>1. NoteE(p) = NoNote
        BY <2>2 DEF NoteE
      <3>2. ~(p.legA.change > 0)
        BY <1>2, <2>2
      <3>3. p.legA.change = 0
        BY <1>3, <3>2
      <3>4. QED
        BY <3>1, <3>3
    <2>3. QED
      BY <2>1, <2>2
  <1>8. (IF NoteF(p) = NoNote THEN 0 ELSE Worth(NoteF(p), m)) = (IF m = p.b.mint THEN p.legB.change ELSE 0)
    <2>1. CASE p.hasF
      BY <1>4, <2>1 DEF Worth, NoteF, OutNote
    <2>2. CASE ~p.hasF
      <3>1. NoteF(p) = NoNote
        BY <2>2 DEF NoteF
      <3>2. ~(p.legB.change > 0)
        BY <1>2, <2>2
      <3>3. p.legB.change = 0
        BY <1>3, <3>2
      <3>4. QED
        BY <3>1, <3>3
    <2>3. QED
      BY <2>1, <2>2
  <1>9. (IF NewFee(p) = NoNote THEN 0 ELSE Worth(NewFee(p), m))
           = (IF m = p.feeMint /\ NoteFee(p) \notin issued THEN FeesAfter(p)[m] ELSE 0)
    <2>1. CASE p.feeMint = NoMint
      <3>1. NoteFee(p) = NoNote /\ m # p.feeMint
        BY <2>1, VaultAssumption DEF NoteFee
      <3>2. QED
        BY <3>1 DEF NewFee
    <2>2. CASE p.feeMint # NoMint /\ NoteFee(p) \in issued
      BY <2>2 DEF NewFee
    <2>3. CASE p.feeMint # NoMint /\ NoteFee(p) \notin issued
      <3>1. /\ NewFee(p) = NoteFee(p) /\ NoteFee(p).mint = p.feeMint
            /\ NoteFee(p).amount = FeesAfter(p)[p.feeMint]
        BY <2>3 DEF NewFee, NoteFee, OutNote
      <3>2. NoteFee(p) # NoNote
        BY <1>4, <2>3, VaultAssumption
      <3>3. QED
        BY <2>3, <3>1, <3>2 DEF Worth
    <2>4. QED
      BY <2>1, <2>2, <2>3
  <1>10. QED
    BY <1>5, <1>6, <1>7, <1>8, <1>9

\* tee_forced_settle: what the two inputs were worth is in the outputs, in the
\* fees held, or stranded.
LEMMA SolventSettle ==
    ASSUME IndInv, SolventInv, NEW p \in SettlePayload, TeeForcedSettle(p)
    PROVE  SolventInv'
  <1> DEFINE L1 == Live \ {p.a}
             L2 == L1 \ {p.b}
             L3 == L2 \cup ({NoteC(p)} \ {NoNote})
             L4 == L3 \cup ({NoteD(p)} \ {NoNote})
             L5 == L4 \cup ({NoteE(p)} \ {NoNote})
             L6 == L5 \cup ({NoteF(p)} \ {NoNote})
             L7 == L6 \cup ({NewFee(p)} \ {NoNote})
  <1>0. /\ SettleGuard(p) /\ TeeSigned(p) /\ nullifiers \subseteq issued
        /\ issued' = issued \cup OutNotes(p) /\ nullifiers' = nullifiers \cup {p.a, p.b}
        /\ vaultToken' = vaultToken /\ TypeOK
    BY DEF TeeForcedSettle, IndInv, Provenance, MarkersAgree
  <1>1. /\ p.a \in issued /\ p.b \in issued /\ p.a \notin nullifiers /\ p.b \notin nullifiers
        /\ p.a # p.b /\ p.a \in Live /\ p.b \in L1
    BY <1>0 DEF SettleGuard, IndInv, Provenance, MarkersAgree, Live
  <1>2. /\ NoteC(p) \in Note /\ NoteD(p) \in Note
        /\ NoteE(p) \in Note \cup {NoNote} /\ NoteF(p) \in Note \cup {NoNote}
        /\ NewFee(p) \in Note \cup {NoNote} /\ FeesAfter(p) \in [Mint -> Nat]
    BY <1>0, OutNoteTypes DEF NewFee
  <1>3. /\ NoteC(p) \notin issued /\ NoteC(p) # NoNote
        /\ NoteD(p) \notin issued \cup {NoteC(p)} /\ NoteD(p) # NoNote
        /\ NoteE(p) # NoNote => NoteE(p) \notin issued \cup {NoteC(p), NoteD(p)}
        /\ NoteF(p) # NoNote => NoteF(p) \notin issued \cup {NoteC(p), NoteD(p), NoteE(p)}
        /\ NewFee(p) # NoNote =>
              NewFee(p) \notin issued \cup {NoteC(p), NoteD(p), NoteE(p), NoteF(p)}
    BY <1>0, OutputsApart
  <1>4. Live \subseteq issued /\ Live \in SUBSET Note /\ IsFiniteSet(Live) /\ NoNote \notin Note
    BY LiveNotes, VaultAssumption DEF Live
  <1>5. /\ L2 \subseteq issued /\ L3 \subseteq issued \cup {NoteC(p)}
        /\ L4 \subseteq issued \cup {NoteC(p), NoteD(p)}
        /\ L5 \subseteq issued \cup {NoteC(p), NoteD(p), NoteE(p)}
        /\ L6 \subseteq issued \cup {NoteC(p), NoteD(p), NoteE(p), NoteF(p)}
        /\ NoNote \notin L2 /\ NoNote \notin L3 /\ NoNote \notin L4 /\ NoNote \notin L5 /\ NoNote \notin L6
    BY <1>4
  <1>6. /\ NoteC(p) \notin L2 /\ NoteD(p) \notin L3 /\ NoteE(p) \notin L4
        /\ NoteF(p) \notin L5 /\ NewFee(p) \notin L6
    BY <1>3, <1>5
  <1>7. Live' = L7
    <2>1. OutNotes(p) = ({NoteC(p), NoteD(p), NoteE(p), NoteF(p)} \ {NoNote}) \cup ({NoteFee(p)} \ {NoNote})
      BY DEF OutNotes
    <2>2. issued \cup ({NoteFee(p)} \ {NoNote}) = issued \cup ({NewFee(p)} \ {NoNote})
      BY DEF NewFee
    <2>3. Live' = (issued \cup OutNotes(p)) \ (nullifiers \cup {p.a, p.b})
      BY <1>0 DEF Live
    <2>4. issued \cup OutNotes(p) = issued \cup ({NoteC(p), NoteD(p), NoteE(p), NoteF(p), NewFee(p)} \ {NoNote})
      BY <2>1, <2>2
    <2>5. ({NoteC(p), NoteD(p), NoteE(p), NoteF(p), NewFee(p)} \ {NoNote})
             \cap (nullifiers \cup {p.a, p.b}) = {}
      BY <1>0, <1>1, <1>3
    <2>6. Live' = (Live \ {p.a, p.b}) \cup ({NoteC(p), NoteD(p), NoteE(p), NoteF(p), NewFee(p)} \ {NoNote})
      BY <2>3, <2>4, <2>5 DEF Live
    <2>7. QED
      BY <2>6
  <1>8. IsFiniteSet(issued')
    <2>1. IsFiniteSet(OutNotes(p))
      <3>1. OutNotes(p) \in SUBSET ({NoteC(p)} \cup {NoteD(p)} \cup {NoteE(p)} \cup {NoteF(p)} \cup {NoteFee(p)})
        BY DEF OutNotes
      <3>2. IsFiniteSet({NoteC(p)} \cup {NoteD(p)} \cup {NoteE(p)} \cup {NoteF(p)} \cup {NoteFee(p)})
        <4>1. IsFiniteSet({NoteC(p)})
          BY FS_Singleton
        <4>2. IsFiniteSet({NoteC(p)} \cup {NoteD(p)})
          BY <4>1, FS_AddElement
        <4>3. IsFiniteSet({NoteC(p)} \cup {NoteD(p)} \cup {NoteE(p)})
          BY <4>2, FS_AddElement
        <4>4. IsFiniteSet({NoteC(p)} \cup {NoteD(p)} \cup {NoteE(p)} \cup {NoteF(p)})
          BY <4>3, FS_AddElement
        <4>5. QED
          BY <4>4, FS_AddElement
      <3>3. QED
        BY <3>1, <3>2, FS_Subset
    <2>2. QED
      BY <1>0, <2>1, FS_Union DEF SolventInv
  <1> HIDE DEF L1, L2, L3, L4, L5, L6, L7
  <1>9. ASSUME NEW m \in Mint
        PROVE  vaultToken'[m] = Value(Live', m) + feesHeld'[m] + stranded'[m]
    <2> DEFINE wa == Worth(p.a, m)
               wb == Worth(p.b, m)
               wc == IF NoteC(p) = NoNote THEN 0 ELSE Worth(NoteC(p), m)
               wd == IF NoteD(p) = NoNote THEN 0 ELSE Worth(NoteD(p), m)
               we == IF NoteE(p) = NoNote THEN 0 ELSE Worth(NoteE(p), m)
               wf == IF NoteF(p) = NoNote THEN 0 ELSE Worth(NoteF(p), m)
               wx == IF NewFee(p) = NoNote THEN 0 ELSE Worth(NewFee(p), m)
    <2>1. /\ Value(L1, m) \in Nat /\ wa \in Nat /\ Value(Live, m) = Value(L1, m) + wa
          /\ L1 \in SUBSET Note /\ IsFiniteSet(L1)
      BY <1>1, <1>4, ValueRemove DEF L1
    <2>2. /\ Value(L2, m) \in Nat /\ wb \in Nat /\ Value(L1, m) = Value(L2, m) + wb
          /\ L2 \in SUBSET Note /\ IsFiniteSet(L2)
      BY <1>1, <2>1, ValueRemove DEF L2
    <2>3. /\ wc \in Nat /\ Value(L3, m) = Value(L2, m) + wc /\ L3 \in SUBSET Note /\ IsFiniteSet(L3)
      BY <1>2, <1>6, <2>2, ValueAdd DEF L3
    <2>4. /\ Value(L3, m) \in Nat /\ wd \in Nat /\ Value(L4, m) = Value(L3, m) + wd
          /\ L4 \in SUBSET Note /\ IsFiniteSet(L4)
      BY <1>2, <1>6, <2>3, ValueAdd DEF L4
    <2>5. /\ Value(L4, m) \in Nat /\ we \in Nat /\ Value(L5, m) = Value(L4, m) + we
          /\ L5 \in SUBSET Note /\ IsFiniteSet(L5)
      <3>1. we = (IF NoteE(p) = NoNote THEN 0 ELSE Worth(NoteE(p), m)) /\ NoteE(p) \in Note \cup {NoNote}
            /\ NoteE(p) \notin L4 /\ L4 \in SUBSET Note /\ IsFiniteSet(L4)
        BY <1>2, <1>6, <2>4
      <3>2. /\ Value(L4, m) \in Nat /\ we \in Nat
            /\ Value(L4 \cup ({NoteE(p)} \ {NoNote}), m) = Value(L4, m) + we
            /\ L4 \cup ({NoteE(p)} \ {NoNote}) \in SUBSET Note /\ IsFiniteSet(L4 \cup ({NoteE(p)} \ {NoNote}))
        <4> HIDE DEF we
        <4>1. QED
          BY ONLY <3>1, m \in Mint, ValueAdd
      <3>3. QED
        BY <3>2 DEF L5
    <2>6. /\ Value(L5, m) \in Nat /\ wf \in Nat /\ Value(L6, m) = Value(L5, m) + wf
          /\ L6 \in SUBSET Note /\ IsFiniteSet(L6)
      <3>1. wf = (IF NoteF(p) = NoNote THEN 0 ELSE Worth(NoteF(p), m)) /\ NoteF(p) \in Note \cup {NoNote}
            /\ NoteF(p) \notin L5 /\ L5 \in SUBSET Note /\ IsFiniteSet(L5)
        BY <1>2, <1>6, <2>5
      <3>2. /\ Value(L5, m) \in Nat /\ wf \in Nat
            /\ Value(L5 \cup ({NoteF(p)} \ {NoNote}), m) = Value(L5, m) + wf
            /\ L5 \cup ({NoteF(p)} \ {NoNote}) \in SUBSET Note /\ IsFiniteSet(L5 \cup ({NoteF(p)} \ {NoNote}))
        <4> HIDE DEF wf
        <4>1. QED
          BY ONLY <3>1, m \in Mint, ValueAdd
      <3>3. QED
        BY <3>2 DEF L6
    <2>7. /\ Value(L6, m) \in Nat /\ wx \in Nat /\ Value(L7, m) = Value(L6, m) + wx
      <3>1. wx = (IF NewFee(p) = NoNote THEN 0 ELSE Worth(NewFee(p), m)) /\ NewFee(p) \in Note \cup {NoNote}
            /\ NewFee(p) \notin L6 /\ L6 \in SUBSET Note /\ IsFiniteSet(L6)
        BY <1>2, <1>6, <2>6
      <3>2. /\ Value(L6, m) \in Nat /\ wx \in Nat
            /\ Value(L6 \cup ({NewFee(p)} \ {NoNote}), m) = Value(L6, m) + wx
            /\ L6 \cup ({NewFee(p)} \ {NoNote}) \in SUBSET Note /\ IsFiniteSet(L6 \cup ({NewFee(p)} \ {NoNote}))
        <4> HIDE DEF wx
        <4>1. QED
          BY ONLY <3>1, m \in Mint, ValueAdd
      <3>3. QED
        BY <3>2 DEF L7
    <2>8. /\ wa = (IF m = p.a.mint THEN p.legA.trade + p.legA.change + p.legA.fee ELSE 0)
          /\ wb = (IF m = p.b.mint THEN p.legB.trade + p.legB.change + p.legB.fee ELSE 0)
          /\ wc = (IF m = p.b.mint THEN p.legB.trade ELSE 0)
          /\ wd = (IF m = p.a.mint THEN p.legA.trade ELSE 0)
          /\ we = (IF m = p.a.mint THEN p.legA.change ELSE 0)
          /\ wf = (IF m = p.b.mint THEN p.legB.change ELSE 0)
          /\ wx = (IF m = p.feeMint /\ NoteFee(p) \notin issued THEN FeesAfter(p)[m] ELSE 0)
      BY <1>0, <1>3, OutputsWorth
    <2>9. /\ FeesAfter(p)[m] = feesHeld[m] + (IF m = p.a.mint THEN p.legA.fee ELSE 0)
                                 + (IF m = p.b.mint THEN p.legB.fee ELSE 0)
          /\ feesHeld'[m] = (IF m = p.feeMint THEN 0 ELSE FeesAfter(p)[m])
          /\ stranded'[m] = stranded[m] + (IF m = p.feeMint /\ NoteFee(p) \in issued THEN FeesAfter(p)[m] ELSE 0)
      <3>1. p.legA \in Leg /\ p.legB \in Leg /\ feesHeld[m] \in Nat
        BY <1>0, VaultAssumption DEF SettlePayload, TypeOK
      <3>2. /\ feesHeld'[m] = (IF m = p.feeMint THEN 0 ELSE FeesAfter(p)[m])
            /\ stranded'[m] = stranded[m] + (IF m = p.feeMint /\ NoteFee(p) \in issued THEN FeesAfter(p)[m] ELSE 0)
        BY DEF TeeForcedSettle
      <3>3. QED
        BY <3>1, <3>2 DEF FeesAfter, LegFee, Leg
    <2>10. vaultToken[m] = Value(Live, m) + feesHeld[m] + stranded[m]
      BY DEF SolventInv, Solvent
    <2>11. /\ feesHeld[m] \in Nat /\ stranded[m] \in Nat /\ FeesAfter(p)[m] \in Nat
           /\ p.legA.trade \in Nat /\ p.legA.change \in Nat /\ p.legA.fee \in Nat
           /\ p.legB.trade \in Nat /\ p.legB.change \in Nat /\ p.legB.fee \in Nat
           /\ p.a.mint # p.b.mint
      BY <1>0, <1>2, VaultAssumption DEF SettlePayload, TypeOK, Leg, TeeSigned
    <2> HIDE DEF wa, wb, wc, wd, we, wf, wx
    <2>12. Value(L7, m) = Value(L2, m) + wc + wd + we + wf + wx
      BY <2>2, <2>3, <2>4, <2>5, <2>6, <2>7
    <2>13. wc + wd + we + wf + wx + feesHeld'[m] + stranded'[m] = wa + wb + feesHeld[m] + stranded[m]
      <3>1. CASE m = p.a.mint
        BY <2>8, <2>9, <2>11, <3>1
      <3>2. CASE m = p.b.mint
        BY <2>8, <2>9, <2>11, <3>2
      <3>3. CASE m # p.a.mint /\ m # p.b.mint
        BY <2>8, <2>9, <2>11, <3>3
      <3>4. QED
        BY <3>1, <3>2, <3>3
    <2>14. Value(Live, m) = Value(L2, m) + wa + wb
      BY <2>1, <2>2
    <2>15. feesHeld'[m] \in Nat /\ stranded'[m] \in Nat
      BY <2>9, <2>11
    <2>16. vaultToken[m] = Value(L7, m) + feesHeld'[m] + stranded'[m]
      <3> DEFINE v == Value(L2, m)
                 t == wc + wd + we + wf + wx
                 x == feesHeld[m] + stranded[m]
                 y == feesHeld'[m] + stranded'[m]
      <3>1. v \in Nat /\ wa \in Nat /\ wb \in Nat /\ t \in Nat
        BY <2>1, <2>2, <2>3, <2>4, <2>5, <2>6, <2>7
      <3>2. Value(L7, m) = v + t
        BY <2>2, <2>3, <2>4, <2>5, <2>6, <2>7, <2>12
      <3>3. t + y = wa + wb + x /\ x \in Nat /\ y \in Nat
        BY <2>11, <2>13, <2>15, <3>1
      <3>4. vaultToken[m] = v + wa + wb + x
        BY <2>10, <2>11, <2>14, <3>1
      <3>5. Value(L7, m) + feesHeld'[m] + stranded'[m] = v + t + y
        BY <2>15, <3>1, <3>2
      <3> HIDE DEF v, t, x, y
      <3>6. v + t + y = v + wa + wb + x
        BY <3>1, <3>3
      <3>7. QED
        BY <3>4, <3>5, <3>6
    <2>17. QED
      BY <1>0, <1>7, <2>16
  <1>10. QED
    BY <1>8, <1>9 DEF SolventInv, Solvent

LEMMA SolventNext == IndInv /\ SolventInv /\ [Next]_vars => SolventInv'
  <1> SUFFICES ASSUME IndInv, SolventInv, [Next]_vars  PROVE SolventInv'
    OBVIOUS
  <1>1. CASE SomeDeposit
    BY <1>1, SolventDeposit DEF SomeDeposit
  <1>2. CASE SomeWithdraw
    BY <1>2, SolventWithdraw DEF SomeWithdraw
  <1>3. CASE SomeSettle
    BY <1>3, SettleWitness, SolventSettle
  <1>4. CASE UNCHANGED <<vaultToken, issued, nullifiers, feesHeld, stranded>>
    BY <1>4 DEF SolventInv, Solvent, Live
  <1>5. QED
    BY <1>1, <1>2, <1>3, <1>4 DEF Next, vars, SomeLock, LockNote, SomeRelease, ReleaseLock,
       SomeConfig, SetProtocolConfig, ResetMerkleTree, Tick

(***************************************************************************)
(* The vault is solvent for ever: in every mint the tokens in custody are  *)
(* the value of the notes that can still be spent, the fees held and what  *)
(* was stranded, whatever deposits, withdrawals, partial fills, relocks,   *)
(* fee flushes and resets have gone before.                                *)
(***************************************************************************)
THEOREM SolventCorrect == Spec => []Solvent
  <1>1. SolventInv => Solvent
    BY DEF SolventInv
  <1>2. QED
    BY InitInv, NextInv, SolventInit, SolventNext, <1>1, PTL DEF Spec
=============================================================================
