------------------------------- MODULE Vault --------------------------------
(***************************************************************************)
(* The vault program: deposits, note locks, withdrawals and the settlement *)
(* the TEE forces.  One action per instruction; a Solana transaction is    *)
(* atomic, so each instruction is one step.  A signer check is modelled by *)
(* who takes the action: LockNote and TeeForcedSettle are the TEE's,       *)
(* SetProtocolConfig and ResetMerkleTree the admin's, the others anyone's. *)
(*                                                                         *)
(* Accounts are modelled by what their existence and fields mean:          *)
(*   NullifierEntry PDAs     nullifiers (a nullifier is H(key, commitment),*)
(*                           so it is identified with its note)            *)
(*   ConsumedNoteEntry PDAs  consumed, note -> match id                    *)
(*   NoteLock PDAs           locks, note -> order, expiry, amount          *)
(*   vault_token accounts    vaultToken, per mint                          *)
(* A commitment is identified with the note it commits to.                 *)
(***************************************************************************)
EXTENDS NoteTree, FiniteSetsExt

CONSTANTS
    Mint,         \* token mints
    Owner,        \* user commitments
    Treasury,     \* the protocol's commitment, an element of Owner
    NoOwner,      \* protocol_owner_commitment = 0
    NoNote,       \* an absent note commitment
    NoMint,       \* no fee note in this settlement
    OrderId,      \* order ids
    MatchId,      \* match ids the engine hands out
    DepositNote,  \* notes users deposit (bound)
    SettleLeg,    \* legs [trade, change, fee] the TEE signs (bound)
    DevnetResets, \* TRUE if the admin uses reset_merkle_tree
    Supply,       \* tokens of a mint that exist (bound)
    MaxLocks,     \* notes locked by lock_note at the same time (bound)
    MaxSlot       \* last slot of the clock (bound)

Role == {"deposit", "trade", "change", "fee"}
Note == [mint : Mint, amount : Nat, owner : Owner, nonce : Nat \X Role]
Lock == [orderId : OrderId, expiry : Nat, amount : Nat]
Leg  == [trade : Nat, change : Nat, fee : Nat]

ASSUME VaultAssumption ==
    /\ Treasury \in Owner
    /\ NoOwner \notin Owner
    /\ NoNote \notin Note
    /\ NoMint \notin Mint
    /\ MatchId \subseteq Nat
    /\ SettleLeg \subseteq Leg
    /\ DepositNote \subseteq Note
    /\ \A n \in DepositNote : n.nonce[2] = "deposit"
    /\ MaxSlot \in Nat

VARIABLES
    tree,           \* leaf_count, current_root, roots, roots_head
    nullifiers,
    consumed,
    locks,
    vaultToken,
    protocolOwner,  \* protocol_owner_commitment
    slot,           \* Clock::slot
    issued,         \* history: every note ever appended to a tree
    feesHeld,       \* history: fees taken by settlements and not yet in a note
    stranded        \* history: value appended under a commitment already issued

vars == <<tree, nullifiers, consumed, locks, vaultToken, protocolOwner, slot,
          issued, feesHeld, stranded>>

Locked == DOMAIN locks
Consumed == DOMAIN consumed

\* The state left by initialize.
Init ==
    /\ tree = EmptyTree
    /\ nullifiers = {}
    /\ consumed = [n \in {} |-> 0]
    /\ locks = [n \in {} |-> 0]
    /\ vaultToken = [m \in Mint |-> 0]
    /\ protocolOwner = NoOwner
    /\ slot = 0
    /\ issued = {}
    /\ feesHeld = [m \in Mint |-> 0]
    /\ stranded = [m \in Mint |-> 0]

-----------------------------------------------------------------------------

\* deposit: nothing stops a depositor from re-using all fields of a note.
Deposit(n) ==
    /\ n.amount > 0
    /\ vaultToken[n.mint] + n.amount <= Supply
    /\ HasRoom(tree)
    /\ vaultToken' = [vaultToken EXCEPT ![n.mint] = @ + n.amount]
    /\ tree' = AppendLeaf(tree, n)
    /\ issued' = issued \cup {n}
    /\ stranded' = IF n \in issued THEN [stranded EXCEPT ![n.mint] = @ + n.amount]
                                    ELSE stranded
    /\ UNCHANGED <<nullifiers, consumed, locks, protocolOwner, slot, feesHeld>>

(***************************************************************************)
(* The TEE locks collateral of orders it accepted.  Order intake is        *)
(* trusted: an order names a note that was really deposited and declares   *)
(* its real amount, since lock_note sees only the commitment.              *)
(***************************************************************************)
OrderBacked(n) == n \in issued

PutLock(ls, n, l) == [x \in DOMAIN ls \cup {n} |-> IF x = n THEN l ELSE ls[x]]
DropLocks(ls, S) == [x \in DOMAIN ls \ S |-> ls[x]]

\* lock_note: neither tree membership nor a spent nullifier is checked.
LockNote(n, o, expiry) ==
    /\ OrderBacked(n)
    /\ Cardinality(Locked) < MaxLocks
    /\ n \notin Locked
    /\ expiry > slot
    /\ n.amount > 0
    /\ locks' = PutLock(locks, n, [orderId |-> o, expiry |-> expiry,
                                   amount |-> n.amount])
    /\ UNCHANGED <<tree, nullifiers, consumed, vaultToken, protocolOwner, slot,
                   issued, feesHeld, stranded>>

\* Mutants: released at any time; released before the expiry, never after.
ReleaseLock_Any(n) ==
    /\ n \in Locked
    /\ locks' = DropLocks(locks, {n})
    /\ UNCHANGED <<tree, nullifiers, consumed, vaultToken, protocolOwner, slot,
                   issued, feesHeld, stranded>>
ReleaseLock_Inverted(n) ==
    /\ n \in Locked
    /\ slot < locks[n].expiry
    /\ locks' = DropLocks(locks, {n})
    /\ UNCHANGED <<tree, nullifiers, consumed, vaultToken, protocolOwner, slot,
                   issued, feesHeld, stranded>>

\* release_lock: anyone, once the lock has expired.
ReleaseLock(n) ==
    /\ n \in Locked
    /\ slot >= locks[n].expiry
    /\ locks' = DropLocks(locks, {n})
    /\ UNCHANGED <<tree, nullifiers, consumed, vaultToken, protocolOwner, slot,
                   issued, feesHeld, stranded>>

\* Mutant: the nullifier account may exist already.
Withdraw_Respent(n, named, root) ==
    /\ n.amount > 0
    /\ named \notin Consumed
    /\ named \notin Locked
    /\ ContainsRoot(tree, root)
    /\ Opens(root, n)
    /\ vaultToken[n.mint] >= n.amount
    /\ nullifiers' = nullifiers \cup {n}
    /\ vaultToken' = [vaultToken EXCEPT ![n.mint] = @ - n.amount]
    /\ UNCHANGED <<tree, consumed, locks, protocolOwner, slot, issued, feesHeld,
                   stranded>>

(***************************************************************************)
(* withdraw: the proof is about the note n behind the nullifier.  The      *)
(* note_commitment argument, here named, seeds the two guard accounts and  *)
(* is no public input of the proof, so it need not be n's.  A lock on the  *)
(* named note blocks the withdrawal even after the lock's expiry.          *)
(***************************************************************************)
Withdraw(n, named, root) ==
    /\ n.amount > 0
    /\ named \notin Consumed
    /\ named \notin Locked
    /\ ContainsRoot(tree, root)
    /\ Opens(root, n)
    /\ n \notin nullifiers
    /\ vaultToken[n.mint] >= n.amount
    /\ nullifiers' = nullifiers \cup {n}
    /\ vaultToken' = [vaultToken EXCEPT ![n.mint] = @ - n.amount]
    /\ UNCHANGED <<tree, consumed, locks, protocolOwner, slot, issued, feesHeld,
                   stranded>>

-----------------------------------------------------------------------------

(***************************************************************************)
(* A MatchResultPayload as the TEE builds it from a match between the      *)
(* buyer's note a and the seller's note b: notes c and d are the trade     *)
(* legs, e and f the change, whose presence is declared apart from its     *)
(* amount; relock* says that the change note goes on backing the order,    *)
(* until expiry*; feeMint is the mint (or NoMint) whose retained fees      *)
(* become a note.                                                          *)
(***************************************************************************)
OutNote(mint, amount, owner, mid, role) ==
    [mint |-> mint, amount |-> amount, owner |-> owner, nonce |-> <<mid, role>>]

NoteC(p) == OutNote(p.b.mint, p.legB.trade, p.a.owner, p.mid, "trade")
NoteD(p) == OutNote(p.a.mint, p.legA.trade, p.b.owner, p.mid, "trade")
NoteE(p) == IF p.hasE
            THEN OutNote(p.a.mint, p.legA.change, p.a.owner, p.mid, "change")
            ELSE NoNote
NoteF(p) == IF p.hasF
            THEN OutNote(p.b.mint, p.legB.change, p.b.owner, p.mid, "change")
            ELSE NoNote

LegFee(p, m) ==
    (IF m = p.a.mint THEN p.legA.fee ELSE 0)
      + (IF m = p.b.mint THEN p.legB.fee ELSE 0)
FeesAfter(p) == [m \in Mint |-> feesHeld[m] + LegFee(p, m)]

\* The fee note takes every fee retained so far in one mint, and is addressed
\* to the treasury; its nonce comes from the slot of the batch.
NoteFee(p) ==
    IF p.feeMint # NoMint
    THEN OutNote(p.feeMint, FeesAfter(p)[p.feeMint], Treasury, slot, "fee")
    ELSE NoNote

(***************************************************************************)
(* What the TEE signs: orders of opposite sides, so collateral of two      *)
(* mints; a match id that belongs to this match only; a fee note only over *)
(* fees it has taken.  The vault verifies none of this.                    *)
(***************************************************************************)
TeeSigned(p) ==
    /\ p.a.mint # p.b.mint
    /\ \A n \in Consumed : consumed[n] = p.mid => n \in {p.a, p.b}
    /\ p.legA.trade > 0 /\ p.legB.trade > 0
    /\ p.feeMint \in {p.a.mint, p.b.mint, NoMint}
    /\ p.feeMint # NoMint => FeesAfter(p)[p.feeMint] > 0

\* An escrowed amount is split into trade, change and fee without a rest.
Conserved(l, leg) == l.amount = leg.trade + leg.change + leg.fee

\* Mutants: the nullifiers are not checked; a relock without a change note.
SettleGuard_Spent(p) ==
    /\ p.a \in Locked /\ p.b \in Locked
    /\ p.a \notin Consumed /\ p.b \notin Consumed /\ p.a # p.b
    /\ locks[p.a].orderId = p.orderA /\ locks[p.b].orderId = p.orderB
    /\ Conserved(locks[p.a], p.legA) /\ Conserved(locks[p.b], p.legB)
    /\ p.hasE = (p.legA.change > 0) /\ p.hasF = (p.legB.change > 0)
    /\ p.relockA => p.hasE
    /\ p.relockB => p.hasF
    /\ p.feeMint # NoMint => protocolOwner # NoOwner
SettleGuard_Relock(p) ==
    /\ p.a \in Locked /\ p.b \in Locked
    /\ p.a \notin Consumed /\ p.b \notin Consumed /\ p.a # p.b
    /\ p.a \notin nullifiers /\ p.b \notin nullifiers
    /\ locks[p.a].orderId = p.orderA /\ locks[p.b].orderId = p.orderB
    /\ Conserved(locks[p.a], p.legA) /\ Conserved(locks[p.b], p.legB)
    /\ p.hasE = (p.legA.change > 0) /\ p.hasF = (p.legB.change > 0)
    /\ p.feeMint # NoMint => protocolOwner # NoOwner

\* Everything tee_forced_settle verifies before it writes.
SettleGuard(p) ==
    /\ p.a \in Locked /\ p.b \in Locked
    /\ p.a \notin Consumed /\ p.b \notin Consumed /\ p.a # p.b
    /\ p.a \notin nullifiers /\ p.b \notin nullifiers
    /\ locks[p.a].orderId = p.orderA /\ locks[p.b].orderId = p.orderB
    /\ Conserved(locks[p.a], p.legA) /\ Conserved(locks[p.b], p.legB)
    /\ p.hasE = (p.legA.change > 0) /\ p.hasF = (p.legB.change > 0)
    /\ p.relockA => p.hasE
    /\ p.relockB => p.hasF
    /\ p.feeMint # NoMint => protocolOwner # NoOwner

AppendNote(t, n) == IF n = NoNote THEN t ELSE AppendLeaf(t, n)

\* The five appends of the handler, in its order.
SettledTree(p) ==
    AppendNote(AppendNote(AppendNote(AppendNote(AppendNote(
        tree, NoteC(p)), NoteD(p)), NoteE(p)), NoteF(p)), NoteFee(p))

OutNotes(p) ==
    {NoteC(p), NoteD(p), NoteE(p), NoteF(p), NoteFee(p)} \ {NoNote}

\* create_relock_pda: unlike lock_note it does not compare the expiry with
\* the clock.
Relock(ls, on, n, order, expiry, amount) ==
    IF on THEN PutLock(ls, n, [orderId |-> order, expiry |-> expiry, amount |-> amount])
          ELSE ls

\* Mutant: the seller's lock is not closed.
SettledLocks_KeepB(p) ==
    Relock(Relock(DropLocks(locks, {p.a}),
                  p.relockA, NoteE(p), p.orderA, p.expiryA, p.legA.change),
           p.relockB, NoteF(p), p.orderB, p.expiryB, p.legB.change)

\* Mutant: the buyer's new lock escrows what the old one did.
SettledLocks_OldAmount(p) ==
    Relock(Relock(DropLocks(locks, {p.a, p.b}),
                  p.relockA, NoteE(p), p.orderA, p.expiryA, locks[p.a].amount),
           p.relockB, NoteF(p), p.orderB, p.expiryB, p.legB.change)

\* The locks of the two inputs are closed; a change note whose order goes on
\* is locked for that order until the expiry the payload names.
SettledLocks(p) ==
    Relock(Relock(DropLocks(locks, {p.a, p.b}),
                  p.relockA, NoteE(p), p.orderA, p.expiryA, p.legA.change),
           p.relockB, NoteF(p), p.orderB, p.expiryB, p.legB.change)

TeeForcedSettle(p) ==
    /\ SettleGuard(p)
    /\ TeeSigned(p)
    /\ Len(SettledTree(p).leaves) <= TreeCapacity
    /\ p.relockA => NoteE(p) \notin Locked
    /\ p.relockB => NoteF(p) \notin Locked
    /\ consumed' = [n \in Consumed \cup {p.a, p.b} |->
                       IF n \in {p.a, p.b} THEN p.mid ELSE consumed[n]]
    /\ nullifiers' = nullifiers \cup {p.a, p.b}
    /\ tree' = SettledTree(p)
    /\ locks' = SettledLocks(p)
    /\ issued' = issued \cup OutNotes(p)
    /\ feesHeld' = [m \in Mint |-> IF m = p.feeMint
                                   THEN 0 ELSE FeesAfter(p)[m]]
    /\ stranded' = [m \in Mint |-> stranded[m] +
                       IF m = p.feeMint /\ NoteFee(p) \in issued
                       THEN FeesAfter(p)[m] ELSE 0]
    /\ UNCHANGED <<vaultToken, protocolOwner, slot>>

-----------------------------------------------------------------------------

\* set_protocol_config: switch fee notes on or off (the fee rate is read by
\* the matching engine only).
SetProtocolConfig(o) ==
    /\ protocolOwner' = o
    /\ UNCHANGED <<tree, nullifiers, consumed, locks, vaultToken, slot, issued,
                   feesHeld, stranded>>

\* reset_merkle_tree: only the tree is wiped, every other account stays.
ResetMerkleTree ==
    /\ DevnetResets
    /\ tree' = EmptyTree
    /\ UNCHANGED <<nullifiers, consumed, locks, vaultToken, protocolOwner, slot,
                   issued, feesHeld, stranded>>

Tick ==
    /\ slot < MaxSlot
    /\ slot' = slot + 1
    /\ UNCHANGED <<tree, nullifiers, consumed, locks, vaultToken, protocolOwner,
                   issued, feesHeld, stranded>>

SomeDeposit == \E n \in DepositNote : Deposit(n)
SomeLock == \E n \in issued, o \in OrderId, e \in 1 .. MaxSlot : LockNote(n, o, e)
SomeRelease == \E n \in Locked : ReleaseLock(n)
\* NoNote stands for every commitment but n's that is neither locked nor
\* consumed; naming any other note only fails.
SomeWithdraw ==
    \E n \in issued : \E named \in {n, NoNote} :
       \E root \in {tree.current} \cup
                   {tree.roots[i] : i \in 0 .. RootHistorySize - 1} :
          Withdraw(n, named, root)
\* Conservation is tested first so that few payloads are enumerated.
SomeSettle ==
    \E mid \in MatchId, a, b \in Locked, legA, legB \in SettleLeg :
       /\ Conserved(locks[a], legA) /\ Conserved(locks[b], legB)
       /\ \E orderA, orderB \in OrderId, hasE, hasF, relockA, relockB \in BOOLEAN,
             expiryA, expiryB \in 1 .. MaxSlot, feeMint \in Mint \cup {NoMint} :
             TeeForcedSettle(
                [mid |-> mid, a |-> a, b |-> b, orderA |-> orderA, orderB |-> orderB,
                 legA |-> legA, legB |-> legB, hasE |-> hasE, hasF |-> hasF,
                 relockA |-> relockA, relockB |-> relockB, expiryA |-> expiryA,
                 expiryB |-> expiryB, feeMint |-> feeMint])
SomeConfig == \E o \in {NoOwner, Treasury} : SetProtocolConfig(o)

Next ==
    \/ SomeDeposit
    \/ SomeLock
    \/ SomeRelease
    \/ SomeWithdraw
    \/ SomeSettle
    \/ SomeConfig
    \/ ResetMerkleTree
    \/ Tick

Spec == Init /\ [][Next]_vars

-----------------------------------------------------------------------------

TypeOK ==
    /\ tree \in Tree(Note)
    /\ nullifiers \subseteq Note
    /\ Consumed \subseteq Note
    /\ \A n \in Consumed : consumed[n] \in MatchId
    /\ Locked \subseteq Note
    /\ \A n \in Locked : locks[n] \in Lock
    /\ vaultToken \in [Mint -> Nat]
    /\ protocolOwner \in Owner \cup {NoOwner}
    /\ slot \in 0 .. MaxSlot
    /\ issued \subseteq Note
    /\ feesHeld \in [Mint -> Nat]
    /\ stranded \in [Mint -> Nat]

Live == issued \ nullifiers

Value(S, m) == MapThenSumSet(LAMBDA n : n.amount, {n \in S : n.mint = m})

(***************************************************************************)
(* Solvency: in every mint the custody equals the value of all notes that  *)
(* can still be spent, plus the fees retained and not yet turned into a    *)
(* note, plus what was appended under a re-used commitment.  Deposits,     *)
(* withdrawals, partial fills, relocks, fee flushes, expiring locks and    *)
(* tree resets in any order keep it.                                       *)
(***************************************************************************)
Solvent ==
    \A m \in Mint : vaultToken[m] = Value(Live, m) + feesHeld[m] + stranded[m]

(***************************************************************************)
(* The ring keeps a withdrawal proof usable while others append: the roots *)
(* contains_root accepts are exactly those of the last RootHistorySize + 1 *)
(* states of the tree (and the zero word while the ring is not full).      *)
(***************************************************************************)
RootWindow == RingExact(tree)

(***************************************************************************)
(* A lock is a promise to the order it backs: until its expiry it stays as *)
(* it is, or a settlement takes the note while nobody has spent it, and    *)
(* with it, under the same match id, a second locked and unspent note.     *)
(* Releases, new locks, withdrawals of other notes, relocks and resets in  *)
(* any order never shorten, replace or half-settle it.                     *)
(***************************************************************************)
Taken(n) == n \in Consumed' \ Consumed /\ n \notin nullifiers /\ n \notin Locked'

LockStep ==
    \A n \in Locked :
       slot < locks[n].expiry =>
          \/ n \in Locked' /\ locks'[n] = locks[n] /\ n \notin Consumed' \ Consumed
          \/ /\ Taken(n)
             /\ \E m \in Locked \ {n} : Taken(m) /\ consumed'[m] = consumed'[n]
LockKept == [][LockStep]_vars

(***************************************************************************)
(* Provenance, the inductive core of the proofs: whatever a root opens,    *)
(* whatever is locked or nullified was issued; the two spent-markers of    *)
(* tee_forced_settle agree; a lock escrows the note's own amount; and an   *)
(* output note exists only if its match id has been used up, so the next   *)
(* match cannot re-create one.                                             *)
(***************************************************************************)
TreeIssued == tree \in Tree(issued)

MarkersAgree ==
    /\ nullifiers \subseteq issued
    /\ Consumed \subseteq nullifiers
    /\ Locked \subseteq issued

LocksTrue == \A n \in Locked : locks[n].amount = n.amount

MatchIdsUsed ==
    \A n \in issued : n.nonce[2] \in {"trade", "change"} =>
       \E x \in Consumed : consumed[x] = n.nonce[1]

Provenance == TreeIssued /\ MarkersAgree /\ LocksTrue /\ MatchIdsUsed

Ledger == INSTANCE NoteLedger WITH
    live <- Live, spent <- nullifiers, held <- Locked, funds <- vaultToken

\* The vault implements the note ledger.
LedgerSpec == Ledger!LSpec

-----------------------------------------------------------------------------

(***************************************************************************)
(* Liveness.  Slots go on; release_lock needs nobody's permission, so the  *)
(* owner of a note can be relied on to release its expired lock; and an    *)
(* owner who wants out keeps sending withdraw, as the clients do with the  *)
(* note's own commitment and a proof for the current root.  Nothing is     *)
(* assumed of the TEE, the admin or the depositors.                        *)
(***************************************************************************)
OwnerWithdraws(n) == Withdraw(n, n, tree.current)

Fairness ==
    /\ WF_vars(Tick)
    /\ \A n \in DepositNote : WF_vars(ReleaseLock(n)) /\ WF_vars(OwnerWithdraws(n))

FairSpec == Spec /\ Fairness

\* No lock lasts: whatever the TEE does, a locked note is unlocked again.
LockTemporary == \A n \in DepositNote : n \in Locked ~> n \notin Locked

\* A deposit can always be taken out: unless the TEE keeps locking the note
\* or the admin wipes the tree, its owner's withdrawal goes through.
CanExit ==
    \A n \in DepositNote :
       <>[](n \notin Locked) =>
          (InTree(tree, n) ~> (n \in nullifiers \/ ~InTree(tree, n)))
=============================================================================
