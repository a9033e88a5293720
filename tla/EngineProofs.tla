---------------------------- MODULE EngineProofs ----------------------------
(***************************************************************************)
(* Theorems about the matching engine, for any finite number of slots, all *)
(* order shapes, fee rates, prices, expiries and ring sizes.               *)
(***************************************************************************)
EXTENDS MatchingEngine, MathProofs, SequenceTheorems

\* The inductive invariant.
IndInv == TypeOK /\ BookTruth /\ BatchBooks

-----------------------------------------------------------------------------
\* The operators.

LEMMA NoOrderType ==
    \A st \in Status : NoOrder(st) \in Order
  BY DEF NoOrder, Order, Status, Side, OrderType

\* A non-empty set of numbers below a bound has a greatest element.
LEMMA MaxExists ==
    ASSUME NEW n \in Nat, NEW S, S \subseteq 1 .. n, S # {}
    PROVE  Max(S) \in S /\ \A j \in S : Max(S) >= j
  <1> DEFINE T == {n - k : k \in S}
  <1>1. T \subseteq Nat /\ T # {}
    <2>1. PICK k \in S : TRUE
      OBVIOUS
    <2>2. n - k \in T
      OBVIOUS
    <2>3. \A j \in S : n - j \in Nat
      OBVIOUS
    <2>4. QED
      BY <2>2, <2>3
  <1> HIDE DEF T
  <1>2. PICK x \in T : \A y \in T : ~(<<y, x>> \in OpToRel(<, Nat))
    BY ONLY <1>1, WFMin, NatLessThanWellFounded
  <1> USE DEF T
  <1>3. PICK k \in S : x = n - k
    OBVIOUS
  <1>4. \A j \in S : k >= j
    <2> SUFFICES ASSUME NEW j \in S PROVE k >= j
      OBVIOUS
    <2>1. ~(<<n - j, n - k>> \in OpToRel(<, Nat))
      BY <1>2, <1>3
    <2>2. n - j \in Nat /\ n - k \in Nat /\ ~(n - j < n - k)
      BY <2>1 DEF OpToRel
    <2>3. j \in Nat /\ k \in Nat
      OBVIOUS
    <2>4. QED
      BY ONLY <2>2, <2>3, n \in Nat, SMT
  <1>5. QED
    BY <1>4 DEF Max

\* A function on 1 .. n is a sequence of length n.
LEMMA FunctionSeq ==
    ASSUME NEW n \in Nat, NEW S, NEW q \in [1 .. n -> S]
    PROVE  q \in Seq(S) /\ Len(q) = n
  BY SeqDef, LenProperties

LEMMA EnumerationSeq ==
    ASSUME NEW S \in SUBSET Slot, NEW q \in Enumerations(S)
    PROVE  /\ q \in Seq(S) /\ q \in Seq(Slot)
           /\ \A i \in 1 .. Len(q) : q[i] \in S
           /\ \A i, j \in 1 .. Len(q) : i # j => q[i] # q[j]
  <1>1. Cardinality(S) \in Nat
    BY EngineAssumption, FS_Subset, FS_CardinalityType
  <1>2. /\ q \in [1 .. Cardinality(S) -> S]
        /\ \A i, j \in 1 .. Cardinality(S) : i < j => q[i] # q[j]
    BY DEF Enumerations
  <1>3. q \in Seq(S) /\ Len(q) = Cardinality(S) /\ q \in Seq(Slot)
    BY <1>1, <1>2, FunctionSeq
  <1>4. QED
    BY <1>1, <1>2, <1>3

LEMMA FeeNat ==
    ASSUME NEW a \in Nat, NEW r \in Nat
    PROVE  (a * r) \div BpsBase \in Nat
  <1>1. a * r \in Nat
    OBVIOUS
  <1>2. QED
    BY <1>1 DEF BpsBase

LEMMA DroppedType ==
    ASSUME NEW o \in Order, NEW st \in Status, NEW f \in Nat, NEW a \in Nat
    PROVE  Dropped(o, st, f, a) \in Order
  BY DEF Dropped, Order

LEMMA WipedType ==
    ASSUME NEW o \in Order, NEW st \in Status, NEW f \in Nat
    PROVE  Wiped(o, st, f) \in Order
  BY DEF Wiped, Order

LEMMA KilledType ==
    ASSUME NEW o \in Order
    PROVE  /\ Killed(o) \in Order
           /\ Killed(o).amount = 0 /\ Killed(o).type = "killed"
           /\ Killed(o).note = o.note
  BY DEF Killed, Order

-----------------------------------------------------------------------------
\* The two orders at the indices of the loop.

LEMMA Heads ==
    ASSUME TypeOK, InLoop
    PROVE  /\ bi \in 1 .. Len(bids) /\ ai \in 1 .. Len(asks)
           /\ bids[bi] \in Slot /\ asks[ai] \in Slot
           /\ Bid \in Order /\ Ask \in Order
  <1>1. Len(bids) \in Nat /\ Len(asks) \in Nat
    BY LenProperties DEF TypeOK
  <1>2. bi \in 1 .. Len(bids) /\ ai \in 1 .. Len(asks)
    BY <1>1 DEF TypeOK, InLoop
  <1>3. bids[bi] \in Slot /\ asks[ai] \in Slot
    BY <1>2, ElementOfSeq DEF TypeOK
  <1>4. QED
    BY <1>2, <1>3 DEF TypeOK, Bid, Ask

\* In a running batch they are different, open, and backed by notes.
LEMMA OpenHeads ==
    ASSUME TypeOK, InBatch, InLoop
    PROVE  /\ bids[bi] # asks[ai]
           /\ InBook(bids[bi]) /\ InBook(asks[ai])
           /\ Bid.amount > 0 /\ Ask.amount > 0
           /\ Bid.note \in Note /\ Ask.note \in Note
           /\ Bid.type # "killed" /\ Ask.type # "killed"
           /\ Bid.type = "fok" => gained[bids[bi]] = 0
           /\ Ask.type = "fok" => gained[asks[ai]] = 0
  <1>1. /\ bi \in 1 .. Len(bids) /\ ai \in 1 .. Len(asks)
        /\ bids[bi] \in Slot /\ asks[ai] \in Slot
    BY Heads
  <1>2. slots[bids[bi]].side = "bid" /\ slots[asks[ai]].side = "ask"
    BY <1>1 DEF InBatch, Lists
  <1>3. InBook(bids[bi]) /\ InBook(asks[ai])
    BY <1>1 DEF InBook
  <1>4. Bid.note \in Note /\ Ask.note \in Note
    BY <1>1, <1>3 DEF InBatch, SnapSound, Bid, Ask
  <1>5. bi \in bi .. Len(bids) /\ ai \in ai .. Len(asks)
    BY <1>1
  <1>6. QED
    BY <1>2, <1>3, <1>4, <1>5 DEF InBatch, Ahead, Bid, Ask

LEMMA CrossableFacts ==
    ASSUME TypeOK, InBatch, InLoop
    PROVE  /\ Crossable \in Nat /\ Crossable > 0
           /\ Crossable <= Bid.amount /\ Crossable <= Ask.amount
  <1>1. /\ Bid.amount \in Nat /\ Ask.amount \in Nat
        /\ Bid.amount > 0 /\ Ask.amount > 0
    BY Heads, OpenHeads DEF Order
  <1>2. QED
    BY <1>1 DEF Crossable, Lesser

\* The amounts of a match are natural numbers once the checked subtractions succeed.
LEMMA MatchAmounts ==
    ASSUME TypeOK, InBatch, InLoop
    PROVE  /\ QuoteAmt \in Nat /\ FeeOn(QuoteAmt) \in Nat /\ FeeOn(Crossable) \in Nat
           /\ BuyerCharge \in Nat /\ SellerCharge \in Nat
           /\ Affordable => BuyerChange \in Nat /\ SellerChange \in Nat
           /\ MatchIdNow \in Nat
  <1>0. env.price \in Nat /\ env.rate \in Nat
    <2>1. env.price \in Nat /\ env.rate \in 0 .. BpsBase
      BY DEF TypeOK
    <2>2. \A r \in 0 .. BpsBase : r \in Nat
      BY DEF BpsBase
    <2>3. QED
      BY <2>1, <2>2
  <1>1. Crossable \in Nat /\ env.price \in Nat /\ env.rate \in Nat
    BY <1>0, CrossableFacts
  <1>2. QuoteAmt \in Nat
    BY <1>1 DEF QuoteAmt
  <1>3. FeeOn(QuoteAmt) \in Nat /\ FeeOn(Crossable) \in Nat
    BY <1>1, <1>2, FeeNat DEF FeeOn
  <1>4. BuyerCharge \in Nat /\ SellerCharge \in Nat
    BY <1>1, <1>2, <1>3 DEF BuyerCharge, SellerCharge
  <1>5. Bid.noteAmount \in Nat /\ Ask.noteAmount \in Nat
    BY Heads DEF Order
  <1>6. Affordable => BuyerChange \in Nat /\ SellerChange \in Nat
    BY <1>4, <1>5 DEF Affordable, BuyerChange, SellerChange
  <1>7. MatchIdNow \in Nat
    BY LenProperties DEF MatchIdNow, TypeOK
  <1>8. QED
    BY <1>2, <1>3, <1>4, <1>6, <1>7

LEMMA ChangeNoteType ==
    ASSUME NEW m \in {Base, Quote}, NEW a \in Nat, NEW w \in Trader, MatchIdNow \in Nat
    PROVE  /\ ChangeNote(m, a, w) \in Note \cup {NoNote}
           /\ a > 0 => ChangeNote(m, a, w) \in Note
  BY DEF ChangeNote, Note

LEMMA MatchNotes ==
    ASSUME TypeOK, InBatch, InLoop, Affordable
    PROVE  /\ NoteE \in Note \cup {NoNote} /\ NoteF \in Note \cup {NoNote}
           /\ BuyerChange > 0 => NoteE \in Note
           /\ SellerChange > 0 => NoteF \in Note
  <1>1. TraderOf[bids[bi]] \in Trader /\ TraderOf[asks[ai]] \in Trader
    BY Heads, EngineAssumption
  <1>2. QED
    BY <1>1, MatchAmounts, ChangeNoteType DEF NoteE, NoteF

LEMMA MatchResultType ==
    ASSUME TypeOK, InBatch, InLoop, Affordable
    PROVE  MatchResult \in MatchRecord
  <1>1. /\ Bid.noteAmount \in Nat /\ Ask.noteAmount \in Nat
        /\ Bid.orderId \in Nat /\ Ask.orderId \in Nat
        /\ Bid.expiry \in Nat /\ Ask.expiry \in Nat
    BY Heads DEF Order
  <1>0. env.price \in Nat /\ clock \in Nat
    BY EngineAssumption DEF TypeOK
  <1>2. Crossable \in Nat /\ Bid.note \in Note /\ Ask.note \in Note
    BY CrossableFacts, OpenHeads
  <1>3. QED
    BY <1>0, <1>1, <1>2, MatchAmounts, MatchNotes DEF MatchResult, MatchRecord

\* What is left of a snapshot after a match.
LEMMA RestFacts ==
    ASSUME NEW o \in Order, NEW change \in Nat, NEW note, o.note \in Note,
           change > 0 => note \in Note,
           Crossable \in Nat, Crossable <= o.amount
    PROVE  LET r == Rest(o, change, note)
           IN  /\ r \in Order
               /\ r.amount = o.amount - Crossable
               /\ r.type = o.type /\ r.note \in Note
  <1>1. o.amount - Crossable \in Nat
    BY DEF Order
  <1>2. CASE Relocks(o, change)
    <2>1. note \in Note
      BY <1>2 DEF Relocks
    <2>2. Rest(o, change, note) = [o EXCEPT !.amount = @ - Crossable,
                                           !.noteAmount = change, !.note = note]
      BY <1>2 DEF Rest
    <2>3. QED
      BY <1>1, <2>1, <2>2, ZenonT(60) DEF Order
  <1>3. CASE ~Relocks(o, change)
    <2>1. Rest(o, change, note) = [o EXCEPT !.amount = @ - Crossable]
      BY <1>3 DEF Rest
    <2>2. QED
      BY <1>1, <2>1 DEF Order
  <1>4. QED
    BY <1>2, <1>3

-----------------------------------------------------------------------------
\* Outside a batch.

LEMMA InitOK == Init => IndInv
  <1> SUFFICES ASSUME Init PROVE IndInv
    OBVIOUS
  <1>1. NoOrder("absent") \in Order
    BY NoOrderType DEF Status
  <1>2. NoBatch \in [price : Nat, rate : 0 .. BpsBase, owner : {NoOwner, Treasury},
                     twap : Nat, tripped : BOOLEAN, root : SUBSET (Nat \X Note \X Trader)]
    BY DEF NoBatch, BpsBase
  <1>3. 0 \in 0 .. MaxSlot
    BY EngineAssumption
  <1>4. /\ <<>> \in Seq(Slot) /\ <<>> \in Seq(MatchRecord) /\ Len(<<>>) = 0
    BY EmptySeq
  <1>5. TypeOK
    <2>1. /\ results \in [0 .. RingCapacity - 1 -> MatchRecord \cup {NoMatch}]
          /\ fees \in [{Base, Quote} -> [amount : Nat, flushed : Note \cup {NoNote}]]
          /\ nextMatchId \in Nat
      BY DEF Init, NoFee
    <2>2. summary \in [root : SUBSET (Nat \X Note \X Trader), slot : Nat, count : Nat,
                       price : Nat, twap : Nat, tripped : BOOLEAN]
      BY DEF Init
    <2>3. /\ slots \in [Slot -> Order] /\ snap \in [Slot -> Order]
          /\ gained \in [Slot -> Nat] /\ executed \in [Slot -> Nat]
          /\ acc \in [{Base, Quote} -> Nat]
      BY <1>1 DEF Init, Idle
    <2>4. bi \in 1 .. Len(bids) + 1 /\ ai \in 1 .. Len(asks) + 1
      BY <1>4 DEF Init, Idle
    <2>0. intake \in Intake
      BY DEF Init, Intake
    <2>5. /\ phase \in {"idle", "match", "publish"}
          /\ bids \in Seq(Slot) /\ asks \in Seq(Slot)
          /\ out \in Seq(MatchRecord) /\ log \in Seq(MatchRecord)
          /\ clock \in 0 .. MaxSlot
      BY <1>3, <1>4 DEF Init, Idle
    <2>6. env = NoBatch
      BY DEF Init, Idle
    <2>7. QED
      BY <1>2, <2>0, <2>1, <2>2, <2>3, <2>4, <2>5, <2>6 DEF TypeOK
  <1>6. BookTruth
    BY DEF Init, BookTruth, NoOrder
  <1>7. BatchBooks
    <2>1. SlotsSound
      BY DEF Init, SlotsSound, NoOrder
    <2>2. QED
      BY <2>1 DEF Init, BatchBooks, Idle
  <1>8. QED
    BY <1>5, <1>6, <1>7 DEF IndInv

\* A step outside a batch that leaves results, fees and locals alone.
LEMMA IdleStep ==
    ASSUME IndInv, phase = "idle",
           slots' \in [Slot -> Order], executed' \in [Slot -> Nat],
           intake' \in Intake, clock' \in 0 .. MaxSlot,
           UNCHANGED <<results, nextMatchId, fees, summary, locals, log>>
    PROVE  TypeOK' /\ Idle'
  <1>1. Idle
    BY DEF IndInv, BatchBooks
  <1>2. Idle'
    BY <1>1 DEF Idle, locals
  <1>3. TypeOK'
    BY DEF IndInv, TypeOK, locals
  <1>4. QED
    BY <1>2, <1>3

LEMMA InitSlotOK ==
    ASSUME IndInv, NEW s \in Slot, InitPendingOrderSlot(s)
    PROVE  IndInv'
  <1>1. NoOrder("empty") \in Order
    BY NoOrderType DEF Status
  <1>2. slots \in [Slot -> Order] /\ executed \in [Slot -> Nat]
    BY DEF IndInv, TypeOK
  <1>3. slots' = [slots EXCEPT ![s] = NoOrder("empty")] /\ executed' = executed
    BY DEF InitPendingOrderSlot
  <1>4. TypeOK' /\ Idle'
    <2>1. slots' \in [Slot -> Order]
      BY <1>1, <1>2, <1>3
    <2>2. executed' \in [Slot -> Nat] /\ intake' \in Intake /\ clock' \in 0 .. MaxSlot
      BY DEF InitPendingOrderSlot, IndInv, TypeOK
    <2>3. QED
      BY <2>1, <2>2, IdleStep DEF InitPendingOrderSlot
  <1>5. executed[s] = 0
    BY DEF InitPendingOrderSlot, IndInv, BatchBooks, SlotsSound
  <1>6. BookTruth'
    BY <1>2, <1>3, <1>5 DEF IndInv, BookTruth, NoOrder
  <1>7. SlotsSound'
    BY <1>2, <1>3 DEF IndInv, BatchBooks, SlotsSound, NoOrder
  <1>8. QED
    BY <1>4, <1>6, <1>7 DEF IndInv, BatchBooks, Idle

LEMMA CancelOK ==
    ASSUME IndInv, NEW s \in Slot, CancelOrder(s)
    PROVE  IndInv'
  <1>1. slots \in [Slot -> Order] /\ executed \in [Slot -> Nat]
    BY DEF IndInv, TypeOK
  <1>2. /\ slots' = [slots EXCEPT ![s] = Wiped(slots[s], "cancelled", slots[s].filled)]
        /\ executed' = executed
    BY DEF CancelOrder
  <1>3. slots[s] \in Order /\ slots[s].filled \in Nat
    BY <1>1 DEF Order
  <1>4. TypeOK' /\ Idle'
    <2>1. slots' \in [Slot -> Order]
      BY <1>1, <1>2, <1>3, WipedType DEF Status
    <2>2. executed' \in [Slot -> Nat] /\ intake' \in Intake /\ clock' \in 0 .. MaxSlot
      BY DEF CancelOrder, IndInv, TypeOK
    <2>3. QED
      BY <2>1, <2>2, IdleStep DEF CancelOrder
  <1>5. BookTruth'
    BY <1>1, <1>2 DEF IndInv, BookTruth, Wiped
  <1>6. SlotsSound'
    BY <1>1, <1>2 DEF IndInv, BatchBooks, SlotsSound, Wiped
  <1>7. QED
    BY <1>4, <1>5, <1>6 DEF IndInv, BatchBooks, Idle

\* Whatever a client names is a note.
LEMMA NameableNotes ==
    ASSUME IndInv, NEW s \in Slot, NEW sh \in OrderShape, NEW n \in Nameable(s, sh)
    PROVE  n \in Note
  <1>1. sh \in Shape /\ TraderOf[s] \in Trader /\ intake \in Intake /\ log \in Seq(MatchRecord)
    BY EngineAssumption DEF IndInv, TypeOK
  <1>2. DepositOf(s, sh) \in Note
    BY <1>1 DEF DepositOf, Note, MintOf, Shape, Intake
  <1>3. ChangeNotes(log) \subseteq Note
    <2>1. \A i \in 1 .. Len(log) : log[i] \in MatchRecord
      BY <1>1, ElementOfSeq
    <2>2. \A i \in 1 .. Len(log) : /\ log[i].noteE \in Note \cup {NoNote}
                                    /\ log[i].noteF \in Note \cup {NoNote}
      BY <2>1 DEF MatchRecord
    <2>3. QED
      BY <2>2 DEF ChangeNotes
  <1>4. intake.named \subseteq Note
    BY <1>1 DEF Intake
  <1>5. QED
    BY <1>2, <1>3, <1>4, NoNoteAssumption DEF Nameable

LEMMA SubmitOK ==
    ASSUME IndInv, NEW s \in Slot, NEW o \in OrderId, NEW sh \in OrderShape,
           NEW expiry \in Expiry, NEW n \in Nameable(s, sh), SubmitOrder(s, o, n, sh, expiry)
    PROVE  IndInv'
  <1>0. clock \in Nat
    <2>1. clock \in 0 .. MaxSlot
      BY DEF IndInv, TypeOK
    <2>2. QED
      BY <2>1
  <1>1. slots \in [Slot -> Order] /\ executed \in [Slot -> Nat]
    BY DEF IndInv, TypeOK
  <1>2. sh \in Shape /\ o \in Nat /\ expiry \in Nat /\ TraderOf[s] \in Trader
    BY EngineAssumption
  <1>3. n \in Note
    BY NameableNotes
  <1> DEFINE new == [status |-> "pending", side |-> sh.side, type |-> sh.type,
                     arrival |-> clock, expiry |-> expiry, price |-> sh.price,
                     amount |-> sh.amount, total |-> sh.amount, filled |-> 0,
                     minFill |-> sh.minFill, noteAmount |-> sh.noteAmount,
                     note |-> n, orderId |-> o,
                     inclusion |-> <<clock, n, TraderOf[s]>>]
  <1>4. /\ new \in Order /\ new.note \in Note /\ new.type # "killed"
        /\ new.inclusion \in Nat \X Note \X Trader
        /\ new.status = "pending" /\ new.amount \in Nat /\ new.filled = 0
        /\ new.total = new.amount
    BY <1>0, <1>1, <1>2, <1>3 DEF Order, Shape, OrderType, Side, Status
  <1>5. /\ slots' = [slots EXCEPT ![s] = new]
        /\ executed' = [executed EXCEPT ![s] = 0]
        /\ new.amount > 0
    BY DEF SubmitOrder
  <1> HIDE DEF new
  <1>6. TypeOK' /\ Idle'
    <2>1. slots' \in [Slot -> Order] /\ executed' \in [Slot -> Nat]
      BY <1>1, <1>4, <1>5
    <2>a. intake \in Intake
      BY DEF IndInv, TypeOK
    <2>b. Naming(n) \in Intake
      BY <1>3, <2>a DEF Naming, Intake
    <2>2. intake' \in Intake /\ clock' \in 0 .. MaxSlot
      BY <2>b DEF SubmitOrder, IndInv, TypeOK
    <2>3. QED
      BY <2>1, <2>2, IdleStep DEF SubmitOrder
  <1>7. BookTruth'
    BY <1>1, <1>4, <1>5 DEF IndInv, BookTruth
  <1>8. SlotsSound'
    BY <1>1, <1>4, <1>5 DEF IndInv, BatchBooks, SlotsSound
  <1>9. QED
    BY <1>6, <1>7, <1>8 DEF IndInv, BatchBooks, Idle

LEMMA TickOK ==
    ASSUME IndInv, Tick
    PROVE  IndInv'
  <1>1. TypeOK' /\ Idle'
    <2>1. /\ slots' \in [Slot -> Order] /\ executed' \in [Slot -> Nat]
          /\ intake' \in Intake
      BY DEF Tick, accounts, IndInv, TypeOK
    <2>2. clock' \in 0 .. MaxSlot
      BY EngineAssumption DEF Tick, IndInv, TypeOK
    <2>3. QED
      BY <2>1, <2>2, IdleStep DEF Tick, accounts
  <1>2. BookTruth' /\ SlotsSound'
    BY DEF Tick, accounts, IndInv, BookTruth, BatchBooks, SlotsSound
  <1>3. QED
    BY <1>1, <1>2 DEF IndInv, BatchBooks, Idle

-----------------------------------------------------------------------------
\* run_batch.

LEMMA BeginOK ==
    ASSUME IndInv, NEW S \in SUBSET Pending(Slot), NEW rate \in FeeRate,
           NEW owner \in FeeOwner, NEW twap \in OraclePrice,
           BeginBatch(S, rate, owner, twap)
    PROVE  IndInv'
  <1> DEFINE B == OfSide(Eligible(S), "bid")
             A == OfSide(Eligible(S), "ask")
  <1>1. /\ slots \in [Slot -> Order] /\ gained \in [Slot -> Nat]
        /\ S \in SUBSET Slot
    BY DEF IndInv, TypeOK, Pending
  <1>2. Idle
    BY DEF BeginBatch, IndInv, BatchBooks
  <1>3. /\ B \in SUBSET Slot /\ A \in SUBSET Slot
        /\ \A s \in B : slots[s].status = "pending" /\ slots[s].side = "bid"
        /\ \A s \in A : slots[s].status = "pending" /\ slots[s].side = "ask"
        /\ \A s \in B \cup A : s \notin Expiring(S)
    BY <1>1 DEF OfSide, Eligible, Pending
  <1>4. bids' \in Enumerations(B) /\ asks' \in Enumerations(A)
    BY DEF BeginBatch, SortedBids, SortedAsks
  <1> HIDE DEF A, B
  <1>5. /\ bids' \in Seq(Slot) /\ asks' \in Seq(Slot)
        /\ \A i \in 1 .. Len(bids') : bids'[i] \in B
        /\ \A i \in 1 .. Len(asks') : asks'[i] \in A
        /\ \A i, j \in 1 .. Len(bids') : i # j => bids'[i] # bids'[j]
        /\ \A i, j \in 1 .. Len(asks') : i # j => asks'[i] # asks'[j]
    BY <1>3, <1>4, EnumerationSeq
  <1>6. snap' \in [Slot -> Order]
    <2>1. \A s \in Slot : Dropped(slots[s], "expired", slots[s].filled, slots[s].noteAmount)
                            \in Order
      <3> SUFFICES ASSUME NEW s \in Slot
                   PROVE  Dropped(slots[s], "expired", slots[s].filled, slots[s].noteAmount)
                            \in Order
        OBVIOUS
      <3>1. slots[s] \in Order /\ slots[s].filled \in Nat /\ slots[s].noteAmount \in Nat
        BY <1>1 DEF Order
      <3>2. QED
        BY <3>1, DroppedType DEF Status
    <2>2. QED
      BY <1>1, <2>1 DEF BeginBatch
  <1>7. /\ UNCHANGED <<accounts, clock, bi, ai, out, acc, gained, executed, log, intake>>
        /\ phase' \in {"match", "publish"}
    BY DEF BeginBatch
  <1>8. env' \in [price : Nat, rate : 0 .. BpsBase, owner : {NoOwner, Treasury}, twap : Nat,
                  tripped : BOOLEAN, root : SUBSET (Nat \X Note \X Trader)]
    <2>1. PICK price \in ClearingPrices(OfSide(Eligible(S), "bid"), OfSide(Eligible(S), "ask")) :
             LET tripped == price # 0 /\ DeviatesByMoreThanBps(price, twap, CircuitBreakerBps)
             IN  env' = [price |-> IF tripped THEN 0 ELSE price, rate |-> rate,
                         owner |-> owner, twap |-> twap, tripped |-> tripped,
                         root |-> {slots[s].inclusion : s \in Eligible(S)}]
      BY DEF BeginBatch
    <2>2. price \in Nat
      <3>1. \A s \in Slot : slots[s].price \in Nat
        BY <1>1 DEF Order
      <3>2. QED
        BY <2>1, <3>1, <1>3 DEF ClearingPrices, A, B
    <2>3. {slots[s].inclusion : s \in Eligible(S)} \in SUBSET (Nat \X Note \X Trader)
      BY <1>1 DEF IndInv, BatchBooks, SlotsSound, Eligible, Pending
    <2>4. rate \in 0 .. BpsBase /\ owner \in {NoOwner, Treasury} /\ twap \in Nat
      BY EngineAssumption
    <2> DEFINE tripped == price # 0 /\ DeviatesByMoreThanBps(price, twap, CircuitBreakerBps)
    <2>5. tripped \in BOOLEAN
      OBVIOUS
    <2>6. env' = [price |-> IF tripped THEN 0 ELSE price, rate |-> rate,
                  owner |-> owner, twap |-> twap, tripped |-> tripped,
                  root |-> {slots[s].inclusion : s \in Eligible(S)}]
      BY <2>1
    <2> HIDE DEF tripped
    <2>7. QED
      BY <2>2, <2>3, <2>4, <2>5, <2>6
  <1>9. bi' = 1 /\ ai' = 1 /\ gained' = [s \in Slot |-> 0]
    BY <1>2, <1>7 DEF Idle
  <1>10. TypeOK'
    <2>1. Len(bids') \in Nat /\ Len(asks') \in Nat
      BY <1>5, LenProperties
    <2>2. bi' \in 1 .. Len(bids') + 1 /\ ai' \in 1 .. Len(asks') + 1
      BY <2>1, <1>9
    <2>3. QED
      BY <2>2, <1>5, <1>6, <1>7, <1>8 DEF IndInv, TypeOK, accounts
  <1>11. BookTruth' /\ SlotsSound'
    BY <1>7 DEF accounts, IndInv, BookTruth, BatchBooks, SlotsSound
  <1>12. \A s \in Slot : s \notin Expiring(S) => snap'[s] = slots[s]
    BY DEF BeginBatch
  <1>13. slots' = slots
    BY <1>7 DEF accounts
  <1>14. Lists(bids, "bid")' /\ Lists(asks, "ask")'
    BY <1>3, <1>5, <1>13 DEF Lists
  <1>15. \A s \in B \cup A : /\ snap'[s].amount > 0 /\ snap'[s].type # "killed"
                              /\ snap'[s] = slots[s] /\ slots[s].note \in Note
                              /\ slots[s].amount \in Nat
    <2> SUFFICES ASSUME NEW s \in B \cup A
                 PROVE  /\ slots[s].amount > 0 /\ slots[s].type # "killed"
                        /\ slots[s].note \in Note /\ slots[s].amount \in Nat
                        /\ snap'[s] = slots[s]
      OBVIOUS
    <2>1. s \in Slot /\ slots[s].status = "pending" /\ snap'[s] = slots[s]
      BY <1>3, <1>12
    <2>2. slots[s].amount > 0
      BY <2>1 DEF IndInv, BookTruth
    <2>3. slots[s].type # "killed" /\ slots[s].note \in Note
      BY <2>1 DEF IndInv, BatchBooks, SlotsSound
    <2>4. slots[s].amount \in Nat
      BY <2>1, <1>1 DEF Order
    <2>5. QED
      BY <2>1, <2>2, <2>3, <2>4
  <1>16. Ahead(bids, bi)' /\ Ahead(asks, ai)'
    BY <1>3, <1>5, <1>9, <1>15 DEF Ahead
  <1>17. ASSUME NEW s \in Slot PROVE SnapSound(s)'
    <2>1. CASE InBook(s)'
      <3>1. s \in B \cup A
        BY <2>1, <1>5 DEF InBook
      <3>2. QED
        BY <2>1, <3>1, <1>15, <1>13, <1>9 DEF SnapSound
    <2>2. CASE ~InBook(s)'
      <3>1. snap'[s] \in {slots[s], Dropped(slots[s], "expired", slots[s].filled,
                                            slots[s].noteAmount)}
        BY DEF BeginBatch
      <3>2. QED
        BY <2>2, <3>1, <1>13, <1>9 DEF SnapSound
    <2>3. QED
      BY <2>1, <2>2
  <1>18. QED
    BY <1>7, <1>10, <1>11, <1>14, <1>16, <1>17 DEF IndInv, BatchBooks, InBatch

\* What a turn of the loop leaves alone.
LEMMA LoopFrame ==
    ASSUME IndInv, phase # "idle",
           UNCHANGED <<accounts, clock, env, bids, asks, executed, log, intake>>,
           phase' \in {"match", "publish"},
           snap' \in [Slot -> Order], gained' \in [Slot -> Nat],
           acc' \in [{Base, Quote} -> Nat], out' \in Seq(MatchRecord),
           bi' \in 1 .. Len(bids) + 1, ai' \in 1 .. Len(asks) + 1,
           Ahead(bids, bi)', Ahead(asks, ai)',
           \A s \in Slot : SnapSound(s)'
    PROVE  IndInv'
  <1>1. TypeOK'
    BY DEF IndInv, TypeOK, accounts
  <1>2. BookTruth' /\ SlotsSound'
    BY DEF accounts, IndInv, BookTruth, BatchBooks, SlotsSound
  <1>3. Lists(bids, "bid")' /\ Lists(asks, "ask")'
    <2>1. Lists(bids, "bid") /\ Lists(asks, "ask")
      BY DEF IndInv, BatchBooks, InBatch
    <2>2. bids' = bids /\ asks' = asks /\ slots' = slots /\ env' = env
      BY DEF accounts
    <2>3. QED
      BY ONLY <2>1, <2>2 DEF Lists
  <1>4. QED
    BY <1>1, <1>2, <1>3 DEF IndInv, BatchBooks, InBatch

\* A turn of the loop that only moves the indices.
LEMMA SkipOK ==
    ASSUME IndInv, phase # "idle",
           UNCHANGED <<accounts, clock, env, bids, asks, executed, log, intake>>,
           UNCHANGED <<snap, out, acc, gained>>,
           phase' \in {"match", "publish"},
           bi' \in {bi, bi + 1}, ai' \in {ai, ai + 1},
           bi' \in 1 .. Len(bids) + 1, ai' \in 1 .. Len(asks) + 1
    PROVE  IndInv'
  <1>1. /\ snap' \in [Slot -> Order] /\ gained' \in [Slot -> Nat]
        /\ acc' \in [{Base, Quote} -> Nat] /\ out' \in Seq(MatchRecord)
    BY DEF IndInv, TypeOK
  <1>2. Len(bids) \in Nat /\ Len(asks) \in Nat
    BY LenProperties DEF IndInv, TypeOK
  <1>3. bi' .. Len(bids) \subseteq bi .. Len(bids) /\ ai' .. Len(asks) \subseteq ai .. Len(asks)
    <2>1. bi \in Nat /\ ai \in Nat
      BY <1>2 DEF IndInv, TypeOK
    <2>2. QED
      BY <2>1, <1>2
  <1>4. Ahead(bids, bi)' /\ Ahead(asks, ai)'
    BY <1>3 DEF Ahead, IndInv, BatchBooks, InBatch
  <1>5. ASSUME NEW s \in Slot PROVE SnapSound(s)'
    <2>1. SnapSound(s)
      BY DEF IndInv, BatchBooks, InBatch
    <2>2. slots' = slots /\ (InBook(s)' <=> InBook(s))
      BY DEF accounts, InBook
    <2>3. QED
      BY <2>1, <2>2 DEF SnapSound
  <1>6. QED
    BY <1>1, <1>4, <1>5, LoopFrame

LEMMA SkipLimitsOK ==
    ASSUME IndInv, SkipLimits
    PROVE  IndInv'
  <1>1. bi \in 1 .. Len(bids) /\ ai \in 1 .. Len(asks)
    BY Heads DEF IndInv, SkipLimits
  <1>2. Len(bids) \in Nat /\ Len(asks) \in Nat
    BY LenProperties DEF IndInv, TypeOK
  <1>3. bi' \in {bi, bi + 1} /\ ai' \in {ai, ai + 1}
    BY DEF SkipLimits
  <1>4. bi' \in 1 .. Len(bids) + 1 /\ ai' \in 1 .. Len(asks) + 1
    BY <1>1, <1>2, <1>3
  <1>5. QED
    BY <1>3, <1>4, SkipOK DEF SkipLimits, InLoop

LEMMA SkipMinFillOK ==
    ASSUME IndInv, SkipMinFill
    PROVE  IndInv'
  <1>1. bi \in 1 .. Len(bids) /\ ai \in 1 .. Len(asks)
    BY Heads DEF IndInv, SkipMinFill
  <1>2. Len(bids) \in Nat /\ Len(asks) \in Nat
    BY LenProperties DEF IndInv, TypeOK
  <1>3. bi' \in {bi, bi + 1} /\ ai' \in {ai, ai + 1}
    BY DEF SkipMinFill
  <1>4. bi' \in 1 .. Len(bids) + 1 /\ ai' \in 1 .. Len(asks) + 1
    BY <1>1, <1>2, <1>3
  <1>5. QED
    BY <1>3, <1>4, SkipOK DEF SkipMinFill, InLoop

LEMMA EndLoopOK ==
    ASSUME IndInv, EndLoop
    PROVE  IndInv'
  <1>1. bi' \in 1 .. Len(bids) + 1 /\ ai' \in 1 .. Len(asks) + 1
    BY DEF EndLoop, IndInv, TypeOK
  <1>2. QED
    BY <1>1, SkipOK DEF EndLoop

\* Orders of one list differ, and differ from those of the other.
LEMMA BooksApart ==
    ASSUME InBatch
    PROVE  /\ \A i, j \in 1 .. Len(bids) : i # j => bids[i] # bids[j]
           /\ \A i, j \in 1 .. Len(asks) : i # j => asks[i] # asks[j]
           /\ \A i \in 1 .. Len(bids), j \in 1 .. Len(asks) : bids[i] # asks[j]
  <1>1. \A i \in 1 .. Len(bids) : slots[bids[i]].side = "bid"
    BY DEF InBatch, Lists
  <1>2. \A i \in 1 .. Len(asks) : slots[asks[i]].side = "ask"
    BY DEF InBatch, Lists
  <1>3. QED
    BY <1>1, <1>2 DEF InBatch, Lists

LEMMA KillBidOK ==
    ASSUME IndInv, KillBid
    PROVE  IndInv'
  <1>1. TypeOK /\ InBatch /\ InLoop
    BY DEF IndInv, BatchBooks, KillBid, InLoop
  <1>2. /\ bi \in 1 .. Len(bids) /\ ai \in 1 .. Len(asks)
        /\ bids[bi] \in Slot /\ Bid \in Order
        /\ InBook(bids[bi]) /\ Bid.note \in Note
        /\ gained[bids[bi]] = 0
    BY <1>1, Heads, OpenHeads DEF KillBid, KillsBid
  <1>3. Len(bids) \in Nat /\ Len(asks) \in Nat
    BY <1>1, LenProperties DEF TypeOK
  <1>4. /\ snap \in [Slot -> Order] /\ gained \in [Slot -> Nat]
        /\ acc \in [{Base, Quote} -> Nat] /\ out \in Seq(MatchRecord)
        /\ ai \in 1 .. Len(asks) + 1
    BY <1>1 DEF TypeOK
  <1>5. /\ snap' = [snap EXCEPT ![bids[bi]] = Killed(Bid)]
        /\ bi' = bi + 1
        /\ UNCHANGED <<accounts, clock, phase, env, bids, asks, ai, out, acc, gained,
                       executed, log, intake>>
        /\ phase = "match"
    BY DEF KillBid, InLoop
  <1>6. /\ Killed(Bid) \in Order /\ Killed(Bid).type = "killed"
        /\ Killed(Bid).note \in Note
    BY <1>2, KilledType
  <1>7. snap' \in [Slot -> Order] /\ bi' \in 1 .. Len(bids) + 1
    BY <1>2, <1>3, <1>4, <1>5, <1>6
  <1>8. Ahead(bids, bi)' /\ Ahead(asks, ai)'
    <2>1. Ahead(bids, bi) /\ Ahead(asks, ai)
      BY <1>1 DEF InBatch
    <2>2. ASSUME NEW i \in bi' .. Len(bids) PROVE snap'[bids[i]] = snap[bids[i]]
      <3>1. i \in 1 .. Len(bids) /\ i # bi
        BY <1>2, <1>3, <1>5
      <3>2. bids[i] # bids[bi]
        BY <3>1, <1>1, <1>2, BooksApart
      <3>3. bids[i] \in Slot
        BY <3>1, <1>1, ElementOfSeq DEF TypeOK
      <3>4. QED
        BY <3>2, <3>3, <1>4, <1>5
    <2>3. ASSUME NEW i \in ai .. Len(asks) PROVE snap'[asks[i]] = snap[asks[i]]
      <3>1. i \in 1 .. Len(asks)
        BY <1>2, <1>3
      <3>2. asks[i] # bids[bi]
        BY <3>1, <1>1, <1>2, BooksApart
      <3>3. asks[i] \in Slot
        BY <3>1, <1>1, ElementOfSeq DEF TypeOK
      <3>4. QED
        BY <3>2, <3>3, <1>4, <1>5
    <2>4. \A i \in bi' .. Len(bids) : i \in bi .. Len(bids)
      BY <1>2, <1>3, <1>5
    <2>5. QED
      BY <2>1, <2>2, <2>3, <2>4, <1>5 DEF Ahead
  <1>9. ASSUME NEW s \in Slot PROVE SnapSound(s)'
    <2>1. SnapSound(s) /\ slots' = slots /\ (InBook(s)' <=> InBook(s)) /\ gained' = gained
      BY <1>1, <1>5 DEF InBatch, accounts, InBook
    <2>2. CASE s = bids[bi]
      <3>1. snap'[s] = Killed(Bid)
        BY <2>2, <1>4, <1>5
      <3>2. QED
        BY <2>1, <2>2, <3>1, <1>2, <1>6 DEF SnapSound
    <2>3. CASE s # bids[bi]
      <3>1. snap'[s] = snap[s]
        BY <2>3, <1>4, <1>5
      <3>2. QED
        BY <2>1, <3>1 DEF SnapSound
    <2>4. QED
      BY <2>2, <2>3
  <1>10. QED
    BY <1>4, <1>5, <1>7, <1>8, <1>9, LoopFrame

LEMMA KillAskOK ==
    ASSUME IndInv, KillAsk
    PROVE  IndInv'
  <1>1. TypeOK /\ InBatch /\ InLoop
    BY DEF IndInv, BatchBooks, KillAsk, InLoop
  <1>2. /\ ai \in 1 .. Len(asks) /\ bi \in 1 .. Len(bids)
        /\ asks[ai] \in Slot /\ Ask \in Order
        /\ InBook(asks[ai]) /\ Ask.note \in Note
        /\ gained[asks[ai]] = 0
    BY <1>1, Heads, OpenHeads DEF KillAsk, KillsAsk
  <1>3. Len(asks) \in Nat /\ Len(bids) \in Nat
    BY <1>1, LenProperties DEF TypeOK
  <1>4. /\ snap \in [Slot -> Order] /\ gained \in [Slot -> Nat]
        /\ acc \in [{Base, Quote} -> Nat] /\ out \in Seq(MatchRecord)
        /\ bi \in 1 .. Len(bids) + 1
    BY <1>1 DEF TypeOK
  <1>5. /\ snap' = [snap EXCEPT ![asks[ai]] = Killed(Ask)]
        /\ ai' = ai + 1
        /\ UNCHANGED <<accounts, clock, phase, env, bids, asks, bi, out, acc, gained,
                       executed, log, intake>>
        /\ phase = "match"
    BY DEF KillAsk, InLoop
  <1>6. /\ Killed(Ask) \in Order /\ Killed(Ask).type = "killed"
        /\ Killed(Ask).note \in Note
    BY <1>2, KilledType
  <1>7. snap' \in [Slot -> Order] /\ ai' \in 1 .. Len(asks) + 1
    BY <1>2, <1>3, <1>4, <1>5, <1>6
  <1>8. Ahead(asks, ai)' /\ Ahead(bids, bi)'
    <2>1. Ahead(asks, ai) /\ Ahead(bids, bi)
      BY <1>1 DEF InBatch
    <2>2. ASSUME NEW i \in ai' .. Len(asks) PROVE snap'[asks[i]] = snap[asks[i]]
      <3>1. i \in 1 .. Len(asks) /\ i # ai
        BY <1>2, <1>3, <1>5
      <3>2. asks[i] # asks[ai]
        BY <3>1, <1>1, <1>2, BooksApart
      <3>3. asks[i] \in Slot
        BY <3>1, <1>1, ElementOfSeq DEF TypeOK
      <3>4. QED
        BY <3>2, <3>3, <1>4, <1>5
    <2>3. ASSUME NEW i \in bi .. Len(bids) PROVE snap'[bids[i]] = snap[bids[i]]
      <3>1. i \in 1 .. Len(bids)
        BY <1>2, <1>3
      <3>2. bids[i] # asks[ai]
        BY <3>1, <1>1, <1>2, BooksApart
      <3>3. bids[i] \in Slot
        BY <3>1, <1>1, ElementOfSeq DEF TypeOK
      <3>4. QED
        BY <3>2, <3>3, <1>4, <1>5
    <2>4. \A i \in ai' .. Len(asks) : i \in ai .. Len(asks)
      BY <1>2, <1>3, <1>5
    <2>5. QED
      BY <2>1, <2>2, <2>3, <2>4, <1>5 DEF Ahead
  <1>9. ASSUME NEW s \in Slot PROVE SnapSound(s)'
    <2>1. SnapSound(s) /\ slots' = slots /\ (InBook(s)' <=> InBook(s)) /\ gained' = gained
      BY <1>1, <1>5 DEF InBatch, accounts, InBook
    <2>2. CASE s = asks[ai]
      <3>1. snap'[s] = Killed(Ask)
        BY <2>2, <1>4, <1>5
      <3>2. QED
        BY <2>1, <2>2, <3>1, <1>2, <1>6 DEF SnapSound
    <2>3. CASE s # asks[ai]
      <3>1. snap'[s] = snap[s]
        BY <2>3, <1>4, <1>5
      <3>2. QED
        BY <2>1, <3>1 DEF SnapSound
    <2>4. QED
      BY <2>2, <2>3
  <1>10. QED
    BY <1>4, <1>5, <1>7, <1>8, <1>9, LoopFrame

\* Between batches only Idle is required of the locals.
LEMMA ResetType ==
    ASSUME Reset
    PROVE  /\ Idle'
           /\ env' \in [price : Nat, rate : 0 .. BpsBase, owner : {NoOwner, Treasury},
                        twap : Nat, tripped : BOOLEAN, root : SUBSET (Nat \X Note \X Trader)]
           /\ snap' \in [Slot -> Order] /\ gained' \in [Slot -> Nat]
           /\ acc' \in [{Base, Quote} -> Nat] /\ out' \in Seq(MatchRecord)
           /\ bids' \in Seq(Slot) /\ asks' \in Seq(Slot)
           /\ bi' \in 1 .. Len(bids') + 1 /\ ai' \in 1 .. Len(asks') + 1
  <1>1. Idle'
    BY DEF Reset, Idle
  <1>2. NoBatch \in [price : Nat, rate : 0 .. BpsBase, owner : {NoOwner, Treasury},
                     twap : Nat, tripped : BOOLEAN, root : SUBSET (Nat \X Note \X Trader)]
    BY DEF NoBatch, BpsBase
  <1>3. snap' \in [Slot -> Order]
    BY NoOrderType DEF Reset, Status
  <1>4. gained' \in [Slot -> Nat] /\ acc' \in [{Base, Quote} -> Nat]
    BY DEF Reset
  <1>5. <<>> \in Seq(Slot) /\ <<>> \in Seq(MatchRecord) /\ Len(<<>>) = 0
    BY EmptySeq
  <1>6. bi' \in 1 .. Len(bids') + 1 /\ ai' \in 1 .. Len(asks') + 1
    BY <1>5 DEF Reset
  <1>7. env' = NoBatch /\ bids' = <<>> /\ asks' = <<>> /\ out' = <<>>
    BY DEF Reset
  <1>8. QED
    BY <1>1, <1>2, <1>3, <1>4, <1>5, <1>6, <1>7

LEMMA AbortOK ==
    ASSUME IndInv, Abort
    PROVE  IndInv'
  <1>1. Reset /\ UNCHANGED <<accounts, clock, executed, log, intake>>
    BY DEF Abort
  <1>2. TypeOK'
    BY <1>1, ResetType DEF IndInv, TypeOK, accounts, Idle
  <1>3. BookTruth' /\ SlotsSound'
    BY <1>1 DEF accounts, IndInv, BookTruth, BatchBooks, SlotsSound
  <1>4. QED
    BY <1>1, <1>2, <1>3, ResetType DEF IndInv, BatchBooks, Idle

LEMMA MatchOK ==
    ASSUME IndInv, Match
    PROVE  IndInv'
  <1> DEFINE b == bids[bi]
             a == asks[ai]
             rb == Rest(Bid, BuyerChange, NoteE)
             ra == Rest(Ask, SellerChange, NoteF)
             c == Crossable
  <1>1. TypeOK /\ InBatch /\ InLoop /\ Affordable /\ Matches
    BY DEF IndInv, BatchBooks, Match, Matches, InLoop
  <1>2. /\ bi \in 1 .. Len(bids) /\ ai \in 1 .. Len(asks)
        /\ b \in Slot /\ a \in Slot /\ b # a
        /\ Bid \in Order /\ Ask \in Order
        /\ InBook(b) /\ InBook(a)
        /\ Bid.note \in Note /\ Ask.note \in Note
        /\ Bid.type # "killed" /\ Ask.type # "killed"
        /\ c \in Nat /\ c > 0 /\ c <= Bid.amount /\ c <= Ask.amount
    BY <1>1, Heads, OpenHeads, CrossableFacts
  <1>3. BuyerChange \in Nat /\ SellerChange \in Nat
    BY <1>1, MatchAmounts
  <1>4. /\ rb \in Order /\ rb.amount = Bid.amount - c
        /\ rb.type = Bid.type /\ rb.note \in Note
    BY <1>1, <1>2, <1>3, MatchNotes, RestFacts
  <1>5. /\ ra \in Order /\ ra.amount = Ask.amount - c
        /\ ra.type = Ask.type /\ ra.note \in Note
    BY <1>1, <1>2, <1>3, MatchNotes, RestFacts
  <1>6. Len(bids) \in Nat /\ Len(asks) \in Nat
    BY <1>1, LenProperties DEF TypeOK
  <1>7. /\ snap \in [Slot -> Order] /\ gained \in [Slot -> Nat]
        /\ acc \in [{Base, Quote} -> Nat] /\ out \in Seq(MatchRecord)
    BY <1>1 DEF TypeOK
  <1>8. /\ out' = Append(out, MatchResult)
        /\ acc' = [acc EXCEPT ![Base] = @ + FeeOn(Crossable), ![Quote] = @ + FeeOn(QuoteAmt)]
        /\ snap' = [snap EXCEPT ![b] = rb, ![a] = ra]
        /\ gained' = [gained EXCEPT ![b] = @ + c, ![a] = @ + c]
        /\ bi' = IF Bid.amount = c THEN bi + 1 ELSE bi
        /\ ai' = IF Ask.amount = c THEN ai + 1 ELSE ai
        /\ UNCHANGED <<accounts, clock, phase, env, bids, asks, executed, log, intake>>
        /\ phase = "match"
    BY DEF Match, Matches, InLoop
  <1>9. Bid = snap[b] /\ Ask = snap[a]
    BY DEF Bid, Ask
  <1>10. Bid.amount \in Nat /\ Ask.amount \in Nat
    BY <1>2 DEF Order
  <1>11. Bid.type = "fok" => Bid.amount = c
    <2>1. ~(Bid.type = "fok" /\ Crossable < Bid.amount)
      BY <1>1 DEF Matches, KillsBid
    <2>2. QED
      BY <2>1, <1>2, <1>10
  <1>12. Ask.type = "fok" => Ask.amount = c
    <2>1. ~(Ask.type = "fok" /\ Crossable < Ask.amount)
      BY <1>1 DEF Matches, KillsAsk
    <2>2. QED
      BY <2>1, <1>2, <1>10
  <1> HIDE DEF b, a, rb, ra, c
  <1>13. snap' \in [Slot -> Order] /\ gained' \in [Slot -> Nat]
    <2>1. snap' \in [Slot -> Order]
      BY <1>2, <1>4, <1>5, <1>7, <1>8
    <2>2. gained[b] + c \in Nat /\ gained[a] + c \in Nat
      BY <1>2, <1>7
    <2>3. gained' = [gained EXCEPT ![b] = gained[b] + c, ![a] = gained[a] + c]
      BY <1>2, <1>7, <1>8
    <2>4. QED
      BY <2>1, <2>2, <2>3, <1>2, <1>7
  <1>14. acc' \in [{Base, Quote} -> Nat]
    <2>1. FeeOn(Crossable) \in Nat /\ FeeOn(QuoteAmt) \in Nat
      BY <1>1, MatchAmounts
    <2>2. QED
      BY <2>1, <1>7, <1>8
  <1>15. out' \in Seq(MatchRecord)
    BY <1>1, <1>7, <1>8, MatchResultType, AppendProperties
  <1>16. bi' \in 1 .. Len(bids) + 1 /\ ai' \in 1 .. Len(asks) + 1
    BY <1>2, <1>6, <1>8
  <1>17. /\ snap'[b] = rb /\ snap'[a] = ra
         /\ gained'[b] = gained[b] + c /\ gained'[a] = gained[a] + c
         /\ \A s \in Slot : s # b /\ s # a => snap'[s] = snap[s] /\ gained'[s] = gained[s]
    BY <1>2, <1>7, <1>8
  <1>18. Ahead(bids, bi)'
    <2> SUFFICES ASSUME NEW i \in bi' .. Len(bids)
                 PROVE  /\ snap'[bids[i]].amount > 0 /\ snap'[bids[i]].type # "killed"
                        /\ snap'[bids[i]].type = "fok" => gained'[bids[i]] = 0
      BY <1>8 DEF Ahead
    <2>1. i \in 1 .. Len(bids) /\ i \in bi .. Len(bids)
      BY <1>2, <1>6, <1>8
    <2>2. bids[i] \in Slot /\ bids[i] # a
      BY <2>1, <1>1, <1>2, ElementOfSeq, BooksApart DEF TypeOK, a
    <2>3. CASE i = bi
      <3>1. Bid.amount # c /\ bids[i] = b
        BY <2>3, <1>2, <1>6, <1>8 DEF b
      <3>2. rb.amount > 0
        BY <3>1, <1>2, <1>4, <1>10
      <3>3. QED
        BY <3>1, <3>2, <1>2, <1>4, <1>11, <1>17
    <2>4. CASE i # bi
      <3>1. bids[i] # b
        BY <2>1, <2>4, <1>1, <1>2, BooksApart DEF b
      <3>2. QED
        BY <2>1, <2>2, <3>1, <1>1, <1>17 DEF InBatch, Ahead
    <2>5. QED
      BY <2>3, <2>4
  <1>19. Ahead(asks, ai)'
    <2> SUFFICES ASSUME NEW i \in ai' .. Len(asks)
                 PROVE  /\ snap'[asks[i]].amount > 0 /\ snap'[asks[i]].type # "killed"
                        /\ snap'[asks[i]].type = "fok" => gained'[asks[i]] = 0
      BY <1>8 DEF Ahead
    <2>1. i \in 1 .. Len(asks) /\ i \in ai .. Len(asks)
      BY <1>2, <1>6, <1>8
    <2>2. asks[i] \in Slot /\ asks[i] # b
      BY <2>1, <1>1, <1>2, ElementOfSeq, BooksApart DEF TypeOK, b
    <2>3. CASE i = ai
      <3>1. Ask.amount # c /\ asks[i] = a
        BY <2>3, <1>2, <1>6, <1>8 DEF a
      <3>2. ra.amount > 0
        BY <3>1, <1>2, <1>5, <1>10
      <3>3. QED
        BY <3>1, <3>2, <1>2, <1>5, <1>12, <1>17
    <2>4. CASE i # ai
      <3>1. asks[i] # a
        BY <2>1, <2>4, <1>1, <1>2, BooksApart DEF a
      <3>2. QED
        BY <2>1, <2>2, <3>1, <1>1, <1>17 DEF InBatch, Ahead
    <2>5. QED
      BY <2>3, <2>4
  <1>20. ASSUME NEW s \in Slot PROVE SnapSound(s)'
    <2>1. SnapSound(s) /\ slots' = slots /\ (InBook(s)' <=> InBook(s))
      BY <1>1, <1>8 DEF InBatch, accounts, InBook
    <2>2. gained[s] \in Nat /\ slots[s].amount \in Nat
      BY <1>1, <1>7 DEF TypeOK, Order
    <2>3. CASE s = b
      <3>1. Bid.amount + gained[s] = slots[s].amount
        BY <2>1, <2>3, <1>2, <1>9 DEF SnapSound
      <3>2. rb.amount + gained'[s] = slots[s].amount
        BY <3>1, <2>2, <2>3, <1>2, <1>4, <1>10, <1>17
      <3>3. InBook(s)' /\ snap'[s] = rb /\ rb.type # "killed" /\ rb.note \in Note
        BY <2>1, <2>3, <1>2, <1>4, <1>17
      <3>4. QED
        BY <2>1, <3>2, <3>3 DEF SnapSound
    <2>4. CASE s = a
      <3>1. Ask.amount + gained[s] = slots[s].amount
        BY <2>1, <2>4, <1>2, <1>9 DEF SnapSound
      <3>2. ra.amount + gained'[s] = slots[s].amount
        BY <3>1, <2>2, <2>4, <1>2, <1>5, <1>10, <1>17
      <3>3. InBook(s)' /\ snap'[s] = ra /\ ra.type # "killed" /\ ra.note \in Note
        BY <2>1, <2>4, <1>2, <1>5, <1>17
      <3>4. QED
        BY <2>1, <3>2, <3>3 DEF SnapSound
    <2>5. CASE s # b /\ s # a
      BY <2>1, <2>5, <1>17 DEF SnapSound
    <2>6. QED
      BY <2>3, <2>4, <2>5
  <1>21. QED
    BY <1>8, <1>13, <1>14, <1>15, <1>16, <1>18, <1>19, <1>20, LoopFrame

\* An account as BookTruth and BatchBooks want it, with e matched for its order.
Booked(o, e) ==
    /\ o.status = "pending" =>
          /\ o.amount > 0 /\ o.filled + o.amount = o.total /\ e = o.filled
          /\ o.note \in Note /\ o.inclusion \in Nat \X Note \X Trader
    /\ o.status = "matched" => e = o.total /\ o.filled = o.total
    /\ e <= o.total
    /\ o.type # "killed"
    /\ o.status = "absent" => e = 0

LEMMA BookedAll ==
    BookTruth /\ SlotsSound <=> \A s \in Slot : Booked(slots[s], executed[s])
  BY DEF BookTruth, SlotsSound, Booked

\* apply_slot_updates books what the batch matched.
LEMMA AppliedBooked ==
    ASSUME NEW o \in Order, NEW r \in Order, NEW g \in Nat, NEW e \in Nat,
           o.status = "pending", Booked(o, e), r.note \in Note,
           IF r.type = "killed" THEN g = 0 ELSE r.amount + g = o.amount
    PROVE  Applied(o, r) \in Order /\ Booked(Applied(o, r), e + g)
  <1>1. /\ o.amount \in Nat /\ o.filled \in Nat /\ o.total \in Nat /\ o.noteAmount \in Nat
        /\ r.amount \in Nat /\ r.noteAmount \in Nat
    BY DEF Order
  <1>2. /\ o.amount > 0 /\ o.filled + o.amount = o.total /\ e = o.filled
        /\ o.inclusion \in Nat \X Note \X Trader /\ o.type # "killed"
    BY DEF Booked
  <1>3. CASE r.type = "killed"
    <2>1. Applied(o, r) = Dropped(o, "cancelled", o.filled, o.noteAmount)
      BY <1>3 DEF Applied
    <2>2. QED
      BY <1>1, <1>2, <1>3, <2>1, DroppedType DEF Booked, Dropped, Status
  <1>4. CASE r.type # "killed" /\ r.amount = 0
    <2>1. Applied(o, r) = Wiped(o, "matched", o.total)
      BY <1>4 DEF Applied
    <2>2. e + g = o.total
      BY <1>1, <1>2, <1>4
    <2>3. QED
      BY <1>1, <1>2, <2>1, <2>2, WipedType DEF Booked, Wiped, Status
  <1>5. CASE r.type # "killed" /\ r.amount # 0 /\ r.amount < o.amount
    <2>1. /\ g = o.amount - r.amount /\ o.filled + (o.amount - r.amount) \in Nat
          /\ o.filled + (o.amount - r.amount) <= o.total
          /\ e + g = o.filled + (o.amount - r.amount)
      BY <1>1, <1>2, <1>5
    <2>2. CASE r.type = "ioc"
      <3>1. Applied(o, r) =
               Dropped(o, "cancelled", o.filled + (o.amount - r.amount), r.noteAmount)
        BY <1>5, <2>2 DEF Applied
      <3>2. QED
        BY <1>1, <1>2, <2>1, <3>1, DroppedType DEF Booked, Dropped, Status
    <2>3. CASE r.type # "ioc"
      <3>1. Applied(o, r) =
               [o EXCEPT !.filled = o.filled + (o.amount - r.amount), !.amount = r.amount,
                         !.note = r.note, !.noteAmount = r.noteAmount]
        BY <1>5, <2>3 DEF Applied
      <3>2. /\ Applied(o, r) \in Order
            /\ Applied(o, r).filled = o.filled + (o.amount - r.amount)
            /\ Applied(o, r).amount = r.amount /\ Applied(o, r).note = r.note
            /\ Applied(o, r).total = o.total /\ Applied(o, r).status = "pending"
            /\ Applied(o, r).inclusion = o.inclusion /\ Applied(o, r).type = o.type
        BY <1>1, <2>1, <3>1, ZenonT(60) DEF Order
      <3>3. QED
        BY <1>1, <1>2, <1>5, <2>1, <3>2 DEF Booked
    <2>4. QED
      BY <2>2, <2>3
  <1>6. CASE r.type # "killed" /\ r.amount # 0 /\ ~(r.amount < o.amount)
    <2>1. Applied(o, r) = o
      BY <1>6 DEF Applied
    <2>2. e + g = e
      BY <1>1, <1>6
    <2>3. QED
      BY <2>1, <2>2
  <1>7. QED
    BY <1>3, <1>4, <1>5, <1>6

LEMMA PublishOK ==
    ASSUME IndInv, Publish
    PROVE  IndInv'
  <1>1. TypeOK /\ InBatch /\ BookTruth /\ SlotsSound
    BY DEF IndInv, BatchBooks, Publish
  <1>2. /\ slots \in [Slot -> Order] /\ snap \in [Slot -> Order]
        /\ executed \in [Slot -> Nat] /\ gained \in [Slot -> Nat]
    BY <1>1 DEF TypeOK
  <1>3. /\ slots' = [s \in Slot |-> IF InBook(s) THEN Applied(slots[s], snap[s]) ELSE snap[s]]
        /\ executed' = [s \in Slot |-> executed[s] + gained[s]]
    BY DEF Publish
  <1>4. ASSUME NEW s \in Slot
        PROVE  slots'[s] \in Order /\ Booked(slots'[s], executed'[s])
    <2>1. /\ slots[s] \in Order /\ snap[s] \in Order /\ executed[s] \in Nat
          /\ gained[s] \in Nat /\ Booked(slots[s], executed[s]) /\ SnapSound(s)
      BY <1>1, <1>2, BookedAll DEF InBatch
    <2>2. CASE InBook(s)
      <3>1. slots[s].status = "pending"
        BY <1>1, <2>2 DEF InBatch, Lists, InBook
      <3>2. slots'[s] = Applied(slots[s], snap[s]) /\ executed'[s] = executed[s] + gained[s]
        BY <1>3, <2>2
      <3>3. QED
        BY <2>1, <2>2, <3>1, <3>2, AppliedBooked DEF SnapSound
    <2>3. CASE ~InBook(s)
      <3>1. slots'[s] = snap[s] /\ executed'[s] = executed[s]
        BY <1>3, <2>1, <2>3 DEF SnapSound
      <3>2. CASE snap[s] = slots[s]
        BY <2>1, <3>1, <3>2
      <3>3. CASE snap[s] = Dropped(slots[s], "expired", slots[s].filled, slots[s].noteAmount)
        BY <2>1, <3>1, <3>3 DEF Booked, Dropped
      <3>4. QED
        BY <2>1, <2>3, <3>2, <3>3 DEF SnapSound
    <2>4. QED
      BY <2>2, <2>3
  <1>5. \A s \in Slot : executed[s] + gained[s] \in Nat
    BY <1>2
  <1>6. /\ slots' \in [Slot -> Order] /\ executed' \in [Slot -> Nat]
        /\ BookTruth' /\ SlotsSound'
    <2>1. slots' \in [Slot -> Order] /\ executed' \in [Slot -> Nat]
      BY <1>3, <1>4, <1>5
    <2>2. BookTruth' /\ SlotsSound'
      BY <1>4 DEF BookTruth, SlotsSound, Booked
    <2>3. QED
      BY <2>1, <2>2
  <1>7. results' \in [0 .. RingCapacity - 1 -> MatchRecord \cup {NoMatch}]
    <2> SUFFICES ASSUME NEW i \in 0 .. RingCapacity - 1
                 PROVE  RingAfter(i) \in MatchRecord \cup {NoMatch}
      BY DEF Publish
    <2>1. CASE WritesTo(i) = {}
      BY <2>1, <1>1 DEF RingAfter, TypeOK
    <2>2. CASE WritesTo(i) # {}
      <3>1. Len(out) \in Nat /\ WritesTo(i) \subseteq 1 .. Len(out)
        BY <1>1, LenProperties DEF WritesTo, TypeOK
      <3>2. Max(WritesTo(i)) \in 1 .. Len(out)
        BY <3>1, <2>2, MaxExists
      <3>3. QED
        BY <2>2, <3>2, <1>1, ElementOfSeq DEF RingAfter, TypeOK
    <2>3. QED
      BY <2>1, <2>2
  <1>8. nextMatchId' \in Nat /\ Len(out) \in Nat
    BY <1>1, LenProperties DEF Publish, TypeOK
  <1>9. clock' \in 0 .. MaxSlot /\ clock \in Nat /\ intake' \in Intake
    <2>1. clock \in 0 .. MaxSlot /\ intake' \in Intake /\ clock' = clock
      BY <1>1 DEF Publish, TypeOK
    <2>2. QED
      BY <2>1
  <1>10. fees' \in [{Base, Quote} -> [amount : Nat, flushed : Note \cup {NoNote}]]
    <2>1. ASSUME NEW m \in {Base, Quote}
          PROVE  acc[m] \in Nat /\ FlushedFee(m) \in Note \cup {NoNote}
      <3>1. acc[m] \in Nat /\ env.owner \in {NoOwner, Treasury}
        BY <1>1 DEF TypeOK
      <3>2. QED
        BY <3>1, <1>9 DEF FlushedFee, Note
    <2>2. QED
      BY <2>1 DEF Publish
  <1>11. summary' \in [root : SUBSET (Nat \X Note \X Trader), slot : Nat, count : Nat,
                       price : Nat, twap : Nat, tripped : BOOLEAN]
    <2>1. /\ env.price \in Nat /\ env.twap \in Nat /\ env.tripped \in BOOLEAN
          /\ env.root \in SUBSET (Nat \X Note \X Trader)
      BY <1>1 DEF TypeOK
    <2>2. summary' = [root |-> env.root, slot |-> clock, count |-> Len(out),
                      price |-> env.price, twap |-> env.twap, tripped |-> env.tripped]
      BY DEF Publish
    <2>3. QED
      BY <2>1, <2>2, <1>8, <1>9
  <1>12. log' \in Seq(MatchRecord)
    BY <1>1, ConcatProperties DEF Publish, TypeOK
  <1>13. Reset
    BY DEF Publish
  <1>14. TypeOK'
    BY <1>6, <1>7, <1>8, <1>9, <1>10, <1>11, <1>12, <1>13, ResetType DEF TypeOK, Idle
  <1>15. QED
    BY <1>6, <1>13, <1>14, ResetType DEF IndInv, BatchBooks, Idle

-----------------------------------------------------------------------------

LEMMA StutterOK ==
    ASSUME IndInv, UNCHANGED vars
    PROVE  IndInv'
  <1>1. TypeOK'
    BY DEF IndInv, TypeOK, vars, accounts, locals
  <1>2. BookTruth' /\ SlotsSound'
    BY DEF IndInv, BookTruth, BatchBooks, SlotsSound, vars, accounts, locals
  <1>3. phase = "idle" => Idle'
    BY DEF IndInv, BatchBooks, Idle, vars, locals
  <1>4. phase # "idle" => InBatch'
    <2> SUFFICES ASSUME phase # "idle" PROVE InBatch'
      OBVIOUS
    <2>1. InBatch
      BY DEF IndInv, BatchBooks
    <2>2. UNCHANGED <<slots, bids, asks, bi, ai, snap, gained>>
      BY DEF vars, accounts, locals
    <2>3. Lists(bids, "bid")' /\ Lists(asks, "ask")'
      BY <2>1, <2>2 DEF InBatch, Lists
    <2>4. Ahead(bids, bi)' /\ Ahead(asks, ai)'
      BY <2>1, <2>2 DEF InBatch, Ahead
    <2>5. ASSUME NEW s \in Slot PROVE SnapSound(s)'
      BY <2>1, <2>2 DEF InBatch, SnapSound, InBook
    <2>6. QED
      BY <2>3, <2>4, <2>5 DEF InBatch
  <1>5. phase' = phase
    BY DEF vars, locals
  <1>6. QED
    BY <1>1, <1>2, <1>3, <1>4, <1>5 DEF IndInv, BatchBooks

LEMMA Inductive ==
    ASSUME IndInv, [Next]_vars
    PROVE  IndInv'
  <1>1. CASE SomeInit
    BY <1>1, InitSlotOK DEF SomeInit
  <1>2. CASE SomeSubmit
    BY <1>2, SubmitOK DEF SomeSubmit
  <1>3. CASE SomeCancel
    BY <1>3, CancelOK DEF SomeCancel
  <1>4. CASE SomeBatch
    BY <1>4, BeginOK DEF SomeBatch
  <1>5. CASE Tick
    BY <1>5, TickOK
  <1>6. CASE BatchStep
    BY <1>6, SkipLimitsOK, KillBidOK, KillAskOK, SkipMinFillOK, MatchOK, AbortOK,
       EndLoopOK, PublishOK DEF BatchStep
  <1>7. CASE UNCHANGED vars
    BY <1>7, StutterOK
  <1>8. QED
    BY <1>1, <1>2, <1>3, <1>4, <1>5, <1>6, <1>7 DEF Next

LEMMA Invariance == Spec => []IndInv
  BY InitOK, Inductive, PTL DEF Spec

(***************************************************************************)
(* Type correctness of the engine: no batch leaves an order, a match or a  *)
(* fee account outside its domain; in particular the notes named as inputs *)
(* of a match are real notes and no amount is ever negative.               *)
(***************************************************************************)
THEOREM TypeCorrect == Spec => []TypeOK
  BY Invariance, PTL DEF IndInv

(***************************************************************************)
(* run_batch, cancel_order and submit_order keep the books truthfully, for *)
(* any number of slots and any sequence of batches, partial fills, kills,  *)
(* aborts and re-used slots.                                               *)
(***************************************************************************)
THEOREM BookTruthCorrect == Spec => []BookTruth
  BY Invariance, PTL DEF IndInv

\* What the loop of generate_matches maintains, for every size of the book.
THEOREM BatchBooksCorrect == Spec => []BatchBooks
  BY Invariance, PTL DEF IndInv

-----------------------------------------------------------------------------
(***************************************************************************)
(* Termination of the loop.  One turn passes an order on one side or both. *)
(***************************************************************************)
Passes == bi' \in {bi, bi + 1} /\ ai' \in {ai, ai + 1} /\ bi' + ai' > bi + ai

LEMMA TurnPasses ==
    ASSUME IndInv, SkipLimits \/ KillBid \/ KillAsk \/ SkipMinFill \/ Match
    PROVE  Passes /\ turns' = turns + 1
  <1>1. bi \in Nat /\ ai \in Nat
    BY DEF IndInv, TypeOK
  <1>2. InLoop
    BY DEF SkipLimits, KillBid, KillAsk, SkipMinFill, Match, Matches
  <1>3. Bid \in Order /\ Ask \in Order
    BY <1>2, Heads DEF IndInv
  <1>4. Bid.price \in Nat /\ Ask.price \in Nat /\ Bid.amount \in Nat /\ Ask.amount \in Nat
    BY <1>3 DEF Order
  <1>5. env.price \in Nat
    BY DEF IndInv, TypeOK
  <1>6. CASE SkipLimits
    BY <1>1, <1>4, <1>5, <1>6 DEF SkipLimits, Crossing, Passes
  <1>7. CASE KillBid \/ KillAsk
    BY <1>1, <1>7 DEF KillBid, KillAsk, Passes
  <1>8. CASE SkipMinFill
    BY <1>1, <1>8 DEF SkipMinFill, Passes
  <1>9. CASE Match
    <2>1. Crossable = Bid.amount \/ Crossable = Ask.amount
      BY DEF Crossable, Lesser
    <2>2. QED
      BY <1>1, <1>9, <2>1 DEF Match, Passes
  <1>10. QED
    BY <1>6, <1>7, <1>8, <1>9

LEMMA Indices ==
    ASSUME NEW t \in Nat, NEW b \in Nat, NEW a \in Nat, NEW m \in Nat, NEW n \in Nat,
           b \in 1 .. m + 1, a \in 1 .. n + 1, t + 2 <= b + a
    PROVE  t \in 0 .. (b - 1) + (a - 1) /\ t <= m + n
  OBVIOUS

LEMMA Room ==
    ASSUME NEW t, NEW b \in Nat, NEW a \in Nat, t \in 0 .. (b - 1) + (a - 1)
    PROVE  t \in Nat /\ t + 2 <= b + a
  OBVIOUS

LEMMA NextRoom ==
    ASSUME NEW t \in Nat, NEW b \in Nat, NEW a \in Nat, NEW c \in Nat, NEW d \in Nat,
           t + 2 <= b + a, c + d > b + a
    PROVE  t + 1 \in Nat /\ (t + 1) + 2 <= c + d
  OBVIOUS

LEMMA LoopBoundedStep ==
    ASSUME IndInv, IndInv', LoopBounded, [Next]_vars
    PROVE  LoopBounded'
  <1>1. /\ bids \in Seq(Slot) /\ asks \in Seq(Slot)
        /\ bi \in 1 .. Len(bids) + 1 /\ ai \in 1 .. Len(asks) + 1
    BY DEF IndInv, TypeOK
  <1>2. /\ bids' \in Seq(Slot) /\ asks' \in Seq(Slot)
        /\ bi' \in 1 .. Len(bids') + 1 /\ ai' \in 1 .. Len(asks') + 1
    BY DEF IndInv, TypeOK
  <1>3. Len(bids') \in Nat /\ Len(asks') \in Nat /\ Len(bids) \in Nat /\ Len(asks) \in Nat
    BY <1>1, <1>2, LenProperties
  <1>4. /\ bi \in Nat /\ ai \in Nat /\ bi >= 1 /\ ai >= 1
        /\ bi' \in Nat /\ ai' \in Nat /\ bi' >= 1 /\ ai' >= 1
    BY <1>1, <1>2, <1>3
  <1>5. ASSUME turns' \in Nat, turns' + 2 <= bi' + ai'
        PROVE  LoopBounded'
    <2>1. turns' \in 0 .. (bi' - 1) + (ai' - 1) /\ turns' <= Len(bids') + Len(asks')
      BY <1>2, <1>3, <1>4, <1>5, Indices
    <2>2. QED
      BY <2>1 DEF LoopBounded
  <1>6. turns \in Nat /\ turns + 2 <= bi + ai
    BY <1>4, Room DEF LoopBounded
  <1>7. CASE SkipLimits \/ KillBid \/ KillAsk \/ SkipMinFill \/ Match
    <2>1. Passes /\ turns' = turns + 1
      BY <1>7, TurnPasses
    <2>2. turns' \in Nat /\ turns' + 2 <= bi' + ai'
      BY <1>4, <1>6, <2>1, NextRoom DEF Passes
    <2>3. QED
      BY <2>2, <1>5
  <1>8. CASE Abort \/ Publish
    <2>1. Reset
      BY <1>8 DEF Abort, Publish
    <2>2. QED
      BY <1>5, <2>1 DEF Reset
  <1>9. CASE UNCHANGED <<turns, bi, ai>>
    BY <1>6, <1>5, <1>9
  <1>10. CASE EndLoop \/ SomeBatch \/ Tick \/ SomeInit \/ SomeSubmit \/ SomeCancel \/ UNCHANGED vars
    <2>1. UNCHANGED <<turns, bi, ai>>
      BY <1>10 DEF EndLoop, SomeBatch, BeginBatch, Tick, SomeInit, InitPendingOrderSlot,
         SomeSubmit, SubmitOrder, SomeCancel, CancelOrder, vars, locals
    <2>2. QED
      BY <2>1, <1>9
  <1>11. QED
    BY <1>7, <1>8, <1>10 DEF Next, BatchStep

(***************************************************************************)
(* The loop of generate_matches ends, for every size of the book and every *)
(* mix of order types: it takes no more turns than there are orders.       *)
(***************************************************************************)
THEOREM LoopBoundedCorrect == Spec => []LoopBounded
  <1>1. Init => LoopBounded
    <2>1. Len(<<>>) = 0
      OBVIOUS
    <2>2. QED
      BY <2>1 DEF Init, Idle, LoopBounded
  <1>2. QED
    BY <1>1, LoopBoundedStep, Invariance, PTL DEF Spec

-----------------------------------------------------------------------------
(***************************************************************************)
(* The results ring.  Within a batch the matches are numbered on from      *)
(* next_match_id.                                                          *)
(***************************************************************************)
Numbered == \A k \in 1 .. Len(out) : out[k].id = nextMatchId + k - 1
RingInv == RingLatest /\ Numbered

\* Numbers less than C apart go to different entries of a ring of size C.
LEMMA RingApart ==
    ASSUME NEW C \in Nat \ {0}, NEW a \in Nat, NEW b \in Nat, a <= b, b < a + C, a % C = b % C
    PROVE  a = b
  <1>1. ASSUME NEW z \in Nat
        PROVE  z \div C \in Nat /\ z % C \in Nat /\ z = C * (z \div C) + (z % C)
    OBVIOUS
  <1> DEFINE x == a \div C
             y == b \div C
             r == a % C
  <1>2. x \in Nat /\ y \in Nat /\ r \in Nat /\ a = C * x + r /\ b = C * y + r
    BY <1>1
  <1> HIDE DEF x, y, r
  <1>3. CASE x < y
    <2>1. PICK d \in Nat : y = x + 1 + d
      <3>1. y - x - 1 \in Nat /\ y = x + 1 + (y - x - 1)
        BY <1>2, <1>3
      <3>2. QED
        BY <3>1
    <2>2. C * (x + 1 + d) = C * x + C + C * d /\ C * d \in Nat /\ C * x \in Nat
      BY <1>2
    <2>3. QED
      BY <1>2, <2>1, <2>2
  <1>4. CASE y < x
    <2>1. PICK d \in Nat : x = y + 1 + d
      <3>1. x - y - 1 \in Nat /\ x = y + 1 + (x - y - 1)
        BY <1>2, <1>4
      <3>2. QED
        BY <3>1
    <2>2. C * (y + 1 + d) = C * y + C + C * d /\ C * d \in Nat /\ C * y \in Nat
      BY <1>2
    <2>3. QED
      BY <1>2, <2>1, <2>2
  <1>5. CASE x = y
    BY <1>2, <1>5
  <1>6. QED
    BY <1>2, <1>3, <1>4, <1>5

LEMMA RingInit == Init => RingInv
  BY EmptySeq, EngineAssumption DEF Init, Idle, RingInv, RingLatest, Numbered

\* A match goes on numbering.
LEMMA RingMatch ==
    ASSUME IndInv, RingInv, Match
    PROVE  RingInv'
  <1>1. TypeOK /\ InBatch /\ InLoop /\ Affordable
    BY DEF IndInv, BatchBooks, Match, Matches, InLoop
  <1>2. MatchResult \in MatchRecord /\ MatchResult.id = nextMatchId + Len(out)
    BY <1>1, MatchResultType DEF MatchResult, MatchIdNow
  <1>3. out \in Seq(MatchRecord) /\ Len(out) \in Nat /\ nextMatchId \in Nat
    BY <1>1, LenProperties DEF TypeOK
  <1>4. out' = Append(out, MatchResult) /\ UNCHANGED <<log, results, nextMatchId>>
    BY DEF Match, accounts
  <1>5. /\ Len(out') = Len(out) + 1
        /\ \A k \in 1 .. Len(out) : out'[k] = out[k]
        /\ out'[Len(out) + 1] = MatchResult
    BY <1>2, <1>3, <1>4, AppendProperties
  <1>6. ASSUME NEW k \in 1 .. Len(out') PROVE out'[k].id = nextMatchId' + k - 1
    <2>1. CASE k \in 1 .. Len(out)
      BY <2>1, <1>4, <1>5 DEF RingInv, Numbered
    <2>2. CASE k = Len(out) + 1
      BY <2>2, <1>2, <1>3, <1>4, <1>5
    <2>3. QED
      BY <1>3, <1>5, <2>1, <2>2
  <1>7. QED
    BY <1>4, <1>6 DEF RingInv, RingLatest, Numbered

\* The loop of run_batch that writes the matches to the ring.
LEMMA RingPublish ==
    ASSUME IndInv, RingInv, Publish
    PROVE  RingInv'
  <1> DEFINE n == Len(log)
             m == Len(out)
             C == RingCapacity
  <1>1. /\ log \in Seq(MatchRecord) /\ out \in Seq(MatchRecord) /\ n \in Nat /\ m \in Nat
        /\ C \in Nat \ {0} /\ nextMatchId = n
    BY LenProperties, EngineAssumption DEF IndInv, TypeOK, RingInv, RingLatest
  <1>2. /\ log' = log \o out /\ nextMatchId' = n + m /\ out' = <<>>
        /\ \A i \in 0 .. C - 1 : results'[i] = RingAfter(i)
    BY <1>1 DEF Publish, Reset
  <1>3. /\ Len(log') = n + m
        /\ \A k \in 1 .. n + m : log'[k] = IF k <= n THEN log[k] ELSE out[k - n]
    BY <1>1, <1>2, ConcatProperties
  <1>4. ASSUME NEW k \in 1 .. n + m PROVE log'[k].id = k - 1
    <2>1. CASE k <= n
      BY <1>1, <1>3, <2>1 DEF RingInv, RingLatest
    <2>2. CASE k > n
      <3>1. k - n \in 1 .. m /\ log'[k] = out[k - n]
        BY <1>1, <1>3, <2>2
      <3>2. out[k - n].id = n + (k - n) - 1
        BY <1>1, <3>1 DEF RingInv, Numbered
      <3>3. QED
        BY <1>1, <3>1, <3>2
    <2>3. QED
      BY <1>1, <2>1, <2>2
  <1>5. ASSUME NEW k \in 1 .. n + m, k > n + m - C
        PROVE  results'[(k - 1) % C] = log'[k]
    <2> DEFINE i == (k - 1) % C
    <2>1. k - 1 \in Nat /\ i \in 0 .. C - 1
      BY <1>1
    <2>2. results'[i] = RingAfter(i)
      BY <1>2, <2>1
    <2> DEFINE W == WritesTo(i)
    <2>3. /\ W \subseteq 1 .. m
          /\ \A j : j \in W <=> j \in 1 .. m /\ (n + j - 1) % C = i
      BY <1>1 DEF WritesTo
    <2>4. RingAfter(i) = IF W = {} THEN results[i] ELSE out[Max(W)]
      BY DEF RingAfter
    <2>5. ASSUME NEW j \in W PROVE n + j = k \/ n + j < k
      <3>1. j \in 1 .. m /\ (n + j - 1) % C = (k - 1) % C
        BY <2>3
      <3>2. CASE n + j > k
        <4>1. n + j - 1 \in Nat /\ k - 1 <= n + j - 1 /\ n + j - 1 < (k - 1) + C
          BY <1>1, <1>5, <3>1, <3>2
        <4>2. k - 1 = n + j - 1
          BY <1>1, <2>1, <3>1, <4>1, RingApart
        <4>3. QED
          BY <1>1, <3>1, <3>2, <4>2
      <3>3. QED
        BY <1>1, <3>1, <3>2
    <2> HIDE DEF W, i
    <2>6. CASE k <= n
      <3>1. W = {}
        <4>1. ASSUME NEW j \in W PROVE FALSE
          <5>1. j \in 1 .. m /\ (n + j = k \/ n + j < k)
            BY <2>3, <2>5
          <5>2. QED
            BY <1>1, <2>6, <5>1
        <4>2. QED
          BY <4>1
      <3>2. k \in 1 .. n /\ k > n - C
        BY <1>1, <1>5, <2>6
      <3>3. results[(k - 1) % C] = log[k]
        BY <3>2 DEF RingInv, RingLatest
      <3>4. results[i] = log[k] /\ results'[(k - 1) % C] = results'[i]
        BY <3>3 DEF i
      <3>5. QED
        BY <1>1, <1>3, <2>2, <2>4, <2>6, <3>1, <3>4
    <2>7. CASE k > n
      <3>1. k - n \in 1 .. m /\ n + (k - n) - 1 = k - 1
        BY <1>1, <2>7
      <3>2. k - n \in W
        BY <2>3, <3>1 DEF i
      <3>3. Max(W) \in W /\ Max(W) >= k - n
        BY <1>1, <2>3, <3>2, MaxExists
      <3>4. Max(W) = k - n
        <4>1. Max(W) \in 1 .. m /\ (n + Max(W) = k \/ n + Max(W) < k)
          BY <2>3, <2>5, <3>3
        <4>2. QED
          BY <1>1, <3>1, <3>3, <4>1
      <3>5. results'[i] = out[k - n]
        BY <2>2, <2>4, <3>2, <3>4
      <3>6. log'[k] = out[k - n]
        BY <1>1, <1>3, <2>7
      <3>7. QED
        BY <3>5, <3>6 DEF i
    <2>8. QED
      BY <1>1, <2>6, <2>7
  <1>6. RingLatest'
    <2>1. nextMatchId' = Len(log')
      BY <1>2, <1>3
    <2>2. ASSUME NEW k \in 1 .. Len(log')
          PROVE  /\ log'[k].id = k - 1
                 /\ k > Len(log') - C => results'[(k - 1) % C] = log'[k]
      <3>1. k \in 1 .. n + m
        BY <1>3
      <3>2. CASE k > n + m - C
        BY <1>4, <1>5, <3>1, <3>2
      <3>3. CASE ~(k > n + m - C)
        BY <1>1, <1>3, <1>4, <3>1, <3>3
      <3>4. QED
        BY <3>2, <3>3
    <2>3. QED
      BY <2>1, <2>2 DEF RingLatest
  <1>7. Numbered'
    BY <1>2, EmptySeq DEF Numbered
  <1>8. QED
    BY <1>6, <1>7 DEF RingInv

LEMMA RingStep ==
    ASSUME IndInv, RingInv, [Next]_vars
    PROVE  RingInv'
  <1>1. CASE UNCHANGED <<log, results, nextMatchId, out>>
    BY <1>1 DEF RingInv, RingLatest, Numbered
  <1>2. CASE Abort
    <2>1. UNCHANGED <<log, results, nextMatchId>> /\ out' = <<>>
      BY <1>2 DEF Abort, Reset, accounts
    <2>2. QED
      BY <2>1, EmptySeq DEF RingInv, RingLatest, Numbered
  <1>3. CASE Match
    BY <1>3, RingMatch
  <1>4. CASE Publish
    BY <1>4, RingPublish
  <1>5. CASE SomeInit \/ SomeSubmit \/ SomeCancel \/ SomeBatch \/ Tick
    <2>1. UNCHANGED <<log, results, nextMatchId, out>>
      BY <1>5 DEF SomeInit, SomeSubmit, SomeCancel, SomeBatch, Tick, InitPendingOrderSlot,
                  SubmitOrder, CancelOrder, BeginBatch, accounts, locals
    <2>2. QED
      BY <1>1, <2>1
  <1>6. CASE SkipLimits \/ KillBid \/ KillAsk \/ SkipMinFill \/ EndLoop
    <2>1. UNCHANGED <<log, results, nextMatchId, out>>
      BY <1>6 DEF SkipLimits, KillBid, KillAsk, SkipMinFill, EndLoop, accounts
    <2>2. QED
      BY <1>1, <2>1
  <1>7. CASE UNCHANGED vars
    BY <1>1, <1>7 DEF vars, accounts, locals
  <1>8. QED
    BY <1>2, <1>3, <1>4, <1>5, <1>6, <1>7 DEF Next, BatchStep

(***************************************************************************)
(* For every ring size, number of batches and number of matches in one     *)
(* batch, batches that overrun the ring included, BatchResults holds the   *)
(* last matches, each at the entry of its id, and ids are consecutive.     *)
(***************************************************************************)
THEOREM RingLatestCorrect == Spec => []RingLatest
  <1>1. RingInv => RingLatest
    BY DEF RingInv
  <1>2. QED
    BY <1>1, RingInit, RingStep, Invariance, PTL DEF Spec

-----------------------------------------------------------------------------
(***************************************************************************)
(* The auction.  Both vectors stay sorted; when every order takes any fill *)
(* of one unit, an order the loop has passed is done or out of the price,  *)
(* and only orders up to the index have traded; both sides have traded the *)
(* same quantity; and the loop ends when one side is exhausted.            *)
(***************************************************************************)
MinOne == \A s \in Slot : InBook(s) => slots[s].minFill <= 1
Priced(o, p) == IF o.side = "bid" THEN o.price >= p ELSE o.price <= p
Keeps(r, o) ==
    /\ r.price = o.price /\ r.minFill = o.minFill
    /\ r.type = o.type \/ (r.type = "killed" /\ o.type = "fok")
Sorted(q, sl) == \A i, j \in 1 .. Len(q) : i < j => ~Better(sl[q[j]], sl[q[i]])
Served(q, k, sl, sn, g, p) ==
    \A i \in 1 .. Len(q) :
       /\ Keeps(sn[q[i]], sl[q[i]])
       /\ g[q[i]] > 0 => Priced(sl[q[i]], p) /\ i <= k
       /\ i < k => sn[q[i]].amount = 0 \/ ~Priced(sl[q[i]], p)

InOrder == Sorted(bids, slots) /\ Sorted(asks, slots)
InTurn ==
    MinOne => /\ Served(bids, bi, slots, snap, gained, env.price)
              /\ Served(asks, ai, slots, snap, gained, env.price)
Balanced == Total(gained, Bidders) = Total(gained, Sellers)
Exhausted ==
    phase = "publish" /\ env.price > 0 => bi = Len(bids) + 1 \/ ai = Len(asks) + 1
AuctionInv == phase # "idle" => InOrder /\ InTurn /\ Balanced /\ Exhausted

\* A turn of the loop, for one of the vectors: only the order at the index may
\* change, and when the loop passes it, it is done or out of the price.
OthersSame(q, k, sn, tn, g, h) ==
    \A i \in 1 .. Len(q) : i # k => tn[q[i]] = sn[q[i]] /\ h[q[i]] = g[q[i]]
LEMMA ServedStep ==
    ASSUME NEW q, Len(q) \in Nat, NEW k \in 1 .. Len(q), NEW l \in {k, k + 1},
           NEW sl, NEW sn, NEW tn, NEW g, NEW h, NEW p,
           Served(q, k, sl, sn, g, p),
           OthersSame(q, k, sn, tn, g, h),
           Keeps(tn[q[k]], sl[q[k]]),
           h[q[k]] = g[q[k]] \/ Priced(sl[q[k]], p),
           l = k + 1 => tn[q[k]].amount = 0 \/ ~Priced(sl[q[k]], p)
    PROVE  Served(q, l, sl, tn, h, p)
  <1> SUFFICES ASSUME NEW i \in 1 .. Len(q)
               PROVE  /\ Keeps(tn[q[i]], sl[q[i]])
                      /\ h[q[i]] > 0 => Priced(sl[q[i]], p) /\ i <= l
                      /\ i < l => tn[q[i]].amount = 0 \/ ~Priced(sl[q[i]], p)
    BY DEF Served
  <1>1. /\ Keeps(sn[q[i]], sl[q[i]])
        /\ g[q[i]] > 0 => Priced(sl[q[i]], p) /\ i <= k
        /\ i < k => sn[q[i]].amount = 0 \/ ~Priced(sl[q[i]], p)
    BY DEF Served
  <1>2. CASE i = k
    BY <1>1, <1>2
  <1>3. CASE i # k
    <2>1. tn[q[i]] = sn[q[i]] /\ h[q[i]] = g[q[i]]
      BY <1>3 DEF OthersSame
    <2>2. i \in Nat /\ k \in Nat /\ (l = k \/ l = k + 1)
      OBVIOUS
    <2>3. (i < l => i < k) /\ (i <= k => i <= l)
      BY <1>3, <2>2
    <2>4. QED
      BY <1>1, <2>1, <2>3
  <1>4. QED
    BY <1>2, <1>3

\* What a turn leaves of the snapshots at the two indices.
LEMMA KeepsKilled ==
    ASSUME NEW r \in Order, NEW o, Keeps(r, o), r.type = "fok"
    PROVE  Keeps(Killed(r), o) /\ Killed(r).amount = 0
  BY DEF Keeps, Killed, Order, OrderType

LEMMA KeepsRest ==
    ASSUME NEW r \in Order, NEW o, Keeps(r, o), NEW c, NEW n
    PROVE  Keeps(Rest(r, c, n), o) /\ Rest(r, c, n).amount = r.amount - Crossable
  BY DEF Keeps, Rest, Order

\* The orders at the indices, when every order takes a fill of one unit.
LEMMA ServedHeads ==
    ASSUME IndInv, AuctionInv, MinOne, InLoop
    PROVE  /\ Served(bids, bi, slots, snap, gained, env.price)
           /\ Served(asks, ai, slots, snap, gained, env.price)
           /\ Keeps(Bid, slots[bids[bi]]) /\ Keeps(Ask, slots[asks[ai]])
           /\ Priced(slots[bids[bi]], env.price) <=> Bid.price >= env.price
           /\ Priced(slots[asks[ai]], env.price) <=> Ask.price <= env.price
           /\ ~TooSmall
  <1>1. TypeOK /\ InBatch /\ phase # "idle"
    BY DEF IndInv, BatchBooks, InLoop
  <1>2. /\ bi \in 1 .. Len(bids) /\ ai \in 1 .. Len(asks)
        /\ bids[bi] \in Slot /\ asks[ai] \in Slot
        /\ InBook(bids[bi]) /\ InBook(asks[ai])
    BY <1>1, Heads, OpenHeads
  <1>3. /\ Served(bids, bi, slots, snap, gained, env.price)
        /\ Served(asks, ai, slots, snap, gained, env.price)
    BY <1>1 DEF AuctionInv, InTurn
  <1>4. Keeps(Bid, slots[bids[bi]]) /\ Keeps(Ask, slots[asks[ai]])
    BY <1>2, <1>3 DEF Served, Bid, Ask
  <1>5. slots[bids[bi]].side = "bid" /\ slots[asks[ai]].side = "ask"
    BY <1>1, <1>2 DEF InBatch, Lists
  <1>6. /\ Priced(slots[bids[bi]], env.price) <=> Bid.price >= env.price
        /\ Priced(slots[asks[ai]], env.price) <=> Ask.price <= env.price
    BY <1>4, <1>5 DEF Priced, Keeps
  <1>7. Bid.minFill <= 1 /\ Ask.minFill <= 1
    BY <1>2, <1>4 DEF MinOne, Keeps
  <1>8. Crossable \in Nat /\ Crossable > 0 /\ Bid.minFill \in Nat /\ Ask.minFill \in Nat
    BY <1>1, CrossableFacts, Heads DEF Order
  <1>9. ~TooSmall
    BY <1>7, <1>8 DEF TooSmall
  <1>10. QED
    BY <1>3, <1>4, <1>6, <1>9

\* A step of the loop that does not trade.
LEMMA AuctionQuiet ==
    ASSUME IndInv, AuctionInv, phase = "match", phase' = "match",
           UNCHANGED <<slots, env, bids, asks, gained>>, InTurn'
    PROVE  AuctionInv'
  <1>1. InOrder'
    BY DEF AuctionInv, InOrder, Sorted, Better
  <1>2. Balanced'
    BY DEF AuctionInv, Balanced, Bidders, Sellers
  <1>3. QED
    BY <1>1, <1>2 DEF AuctionInv, Exhausted

LEMMA MinOneSame ==
    ASSUME UNCHANGED <<slots, bids, asks>>
    PROVE  MinOne' <=> MinOne
  BY DEF MinOne, InBook

LEMMA AuctionSkipLimits ==
    ASSUME IndInv, AuctionInv, SkipLimits
    PROVE  AuctionInv'
  <1>1. /\ InLoop /\ phase = "match" /\ phase' = "match"
        /\ UNCHANGED <<slots, env, bids, asks, gained, snap>>
        /\ bi' = IF Bid.price < env.price THEN bi + 1 ELSE bi
        /\ ai' = IF Ask.price > env.price THEN ai + 1 ELSE ai
    BY DEF SkipLimits, InLoop, accounts
  <1>2. TypeOK /\ bi \in 1 .. Len(bids) /\ ai \in 1 .. Len(asks) /\ Len(bids) \in Nat /\ Len(asks) \in Nat
    BY <1>1, Heads, LenProperties DEF IndInv, TypeOK
  <1>3. Bid.price \in Nat /\ Ask.price \in Nat /\ env.price \in Nat
    BY <1>1, <1>2, Heads DEF Order, TypeOK
  <1>4. ASSUME MinOne
        PROVE  /\ Served(bids, bi', slots, snap, gained, env.price)
               /\ Served(asks, ai', slots, snap, gained, env.price)
    <2>1. /\ Served(bids, bi, slots, snap, gained, env.price)
          /\ Served(asks, ai, slots, snap, gained, env.price)
          /\ Keeps(Bid, slots[bids[bi]]) /\ Keeps(Ask, slots[asks[ai]])
          /\ Priced(slots[bids[bi]], env.price) <=> Bid.price >= env.price
          /\ Priced(slots[asks[ai]], env.price) <=> Ask.price <= env.price
      BY <1>1, <1>4, ServedHeads
    <2>2. Keeps(snap[bids[bi]], slots[bids[bi]]) /\ Keeps(snap[asks[ai]], slots[asks[ai]])
      BY <2>1 DEF Bid, Ask
    <2>3. /\ bi' \in {bi, bi + 1} /\ ai' \in {ai, ai + 1}
          /\ bi' = bi + 1 => ~Priced(slots[bids[bi]], env.price)
          /\ ai' = ai + 1 => ~Priced(slots[asks[ai]], env.price)
      BY <1>1, <1>2, <1>3, <2>1
    <2>0. OthersSame(bids, bi, snap, snap, gained, gained) /\ OthersSame(asks, ai, snap, snap, gained, gained)
      BY DEF OthersSame
    <2>4. Served(bids, bi', slots, snap, gained, env.price)
      BY <1>2, <2>0, <2>1, <2>2, <2>3, ServedStep
    <2>5. Served(asks, ai', slots, snap, gained, env.price)
      BY <1>2, <2>0, <2>1, <2>2, <2>3, ServedStep
    <2>6. QED
      BY <2>4, <2>5
  <1>5. InTurn'
    BY <1>1, <1>4, MinOneSame DEF InTurn
  <1>6. QED
    BY <1>1, <1>5, AuctionQuiet

LEMMA AuctionSkipMinFill ==
    ASSUME IndInv, AuctionInv, SkipMinFill
    PROVE  AuctionInv'
  <1>1. /\ InLoop /\ TooSmall /\ phase = "match" /\ phase' = "match"
        /\ UNCHANGED <<slots, env, bids, asks, gained, snap>>
    BY DEF SkipMinFill, InLoop, accounts
  <1>2. ~MinOne
    BY <1>1, ServedHeads
  <1>3. InTurn'
    BY <1>1, <1>2, MinOneSame DEF InTurn
  <1>4. QED
    BY <1>1, <1>3, AuctionQuiet

\* The snapshots of a vector when one slot's changes.
LEMMA OthersKept ==
    ASSUME IndInv, InLoop
    PROVE  /\ \A i \in 1 .. Len(bids) : /\ bids[i] \in Slot /\ bids[i] # asks[ai]
                                        /\ i # bi => bids[i] # bids[bi]
           /\ \A i \in 1 .. Len(asks) : /\ asks[i] \in Slot /\ asks[i] # bids[bi]
                                        /\ i # ai => asks[i] # asks[ai]
  <1>1. TypeOK /\ InBatch
    BY DEF IndInv, BatchBooks, InLoop
  <1>2. bi \in 1 .. Len(bids) /\ ai \in 1 .. Len(asks)
    BY <1>1, Heads
  <1>3. \A i \in 1 .. Len(bids) : bids[i] \in Slot
    BY <1>1, ElementOfSeq DEF TypeOK
  <1>4. \A i \in 1 .. Len(asks) : asks[i] \in Slot
    BY <1>1, ElementOfSeq DEF TypeOK
  <1>5. QED
    BY <1>1, <1>2, <1>3, <1>4, BooksApart

LEMMA AuctionKillBid ==
    ASSUME IndInv, AuctionInv, KillBid
    PROVE  AuctionInv'
  <1>1. /\ InLoop /\ phase = "match" /\ phase' = "match" /\ Bid.type = "fok"
        /\ UNCHANGED <<slots, env, bids, asks, gained, ai>>
        /\ bi' = bi + 1 /\ snap' = [snap EXCEPT ![bids[bi]] = Killed(Bid)]
    BY DEF KillBid, KillsBid, InLoop, accounts
  <1>2. /\ bi \in 1 .. Len(bids) /\ ai \in 1 .. Len(asks) /\ Len(bids) \in Nat /\ Len(asks) \in Nat
        /\ snap \in [Slot -> Order] /\ Bid \in Order /\ bids[bi] \in Slot
    BY <1>1, Heads, LenProperties DEF IndInv, TypeOK
  <1>3. /\ snap'[bids[bi]] = Killed(Bid)
        /\ \A i \in 1 .. Len(bids) : i # bi => snap'[bids[i]] = snap[bids[i]]
        /\ \A i \in 1 .. Len(asks) : snap'[asks[i]] = snap[asks[i]]
    BY <1>1, <1>2, OthersKept
  <1>4. ASSUME MinOne
        PROVE  /\ Served(bids, bi + 1, slots, snap', gained, env.price)
               /\ Served(asks, ai, slots, snap', gained, env.price)
    <2>1. /\ Served(bids, bi, slots, snap, gained, env.price)
          /\ Served(asks, ai, slots, snap, gained, env.price)
          /\ Keeps(Bid, slots[bids[bi]])
      BY <1>1, <1>4, ServedHeads
    <2>2. Keeps(Killed(Bid), slots[bids[bi]]) /\ Killed(Bid).amount = 0
      BY <1>1, <1>2, <2>1, KeepsKilled
    <2>3. Served(bids, bi + 1, slots, snap', gained, env.price)
      <3>1. OthersSame(bids, bi, snap, snap', gained, gained)
        BY <1>3 DEF OthersSame
      <3>2. Keeps(snap'[bids[bi]], slots[bids[bi]]) /\ snap'[bids[bi]].amount = 0
        BY <1>3, <2>2
      <3>3. bi + 1 \in {bi, bi + 1}
        OBVIOUS
      <3>4. QED
        BY <1>2, <2>1, <3>1, <3>2, <3>3, ServedStep
    <2>4. Served(asks, ai, slots, snap', gained, env.price)
      BY <1>3, <2>1 DEF Served
    <2>5. QED
      BY <2>3, <2>4
  <1>5. InTurn'
    BY <1>1, <1>4, MinOneSame DEF InTurn
  <1>6. QED
    BY <1>1, <1>5, AuctionQuiet

LEMMA AuctionKillAsk ==
    ASSUME IndInv, AuctionInv, KillAsk
    PROVE  AuctionInv'
  <1>1. /\ InLoop /\ phase = "match" /\ phase' = "match" /\ Ask.type = "fok"
        /\ UNCHANGED <<slots, env, bids, asks, gained, bi>>
        /\ ai' = ai + 1 /\ snap' = [snap EXCEPT ![asks[ai]] = Killed(Ask)]
    BY DEF KillAsk, KillsAsk, InLoop, accounts
  <1>2. /\ bi \in 1 .. Len(bids) /\ ai \in 1 .. Len(asks) /\ Len(bids) \in Nat /\ Len(asks) \in Nat
        /\ snap \in [Slot -> Order] /\ Ask \in Order /\ asks[ai] \in Slot
    BY <1>1, Heads, LenProperties DEF IndInv, TypeOK
  <1>3. /\ snap'[asks[ai]] = Killed(Ask)
        /\ \A i \in 1 .. Len(asks) : i # ai => snap'[asks[i]] = snap[asks[i]]
        /\ \A i \in 1 .. Len(bids) : snap'[bids[i]] = snap[bids[i]]
    BY <1>1, <1>2, OthersKept
  <1>4. ASSUME MinOne
        PROVE  /\ Served(bids, bi, slots, snap', gained, env.price)
               /\ Served(asks, ai + 1, slots, snap', gained, env.price)
    <2>1. /\ Served(bids, bi, slots, snap, gained, env.price)
          /\ Served(asks, ai, slots, snap, gained, env.price)
          /\ Keeps(Ask, slots[asks[ai]])
      BY <1>1, <1>4, ServedHeads
    <2>2. Keeps(Killed(Ask), slots[asks[ai]]) /\ Killed(Ask).amount = 0
      BY <1>1, <1>2, <2>1, KeepsKilled
    <2>3. Served(asks, ai + 1, slots, snap', gained, env.price)
      <3>1. OthersSame(asks, ai, snap, snap', gained, gained)
        BY <1>3 DEF OthersSame
      <3>2. Keeps(snap'[asks[ai]], slots[asks[ai]]) /\ snap'[asks[ai]].amount = 0
        BY <1>3, <2>2
      <3>3. ai + 1 \in {ai, ai + 1}
        OBVIOUS
      <3>4. QED
        BY <1>2, <2>1, <3>1, <3>2, <3>3, ServedStep
    <2>4. Served(bids, bi, slots, snap', gained, env.price)
      BY <1>3, <2>1 DEF Served
    <2>5. QED
      BY <2>3, <2>4
  <1>5. InTurn'
    BY <1>1, <1>4, MinOneSame DEF InTurn
  <1>6. QED
    BY <1>1, <1>5, AuctionQuiet

LEMMA AuctionMatch ==
    ASSUME IndInv, AuctionInv, Match
    PROVE  AuctionInv'
  <1> DEFINE rb == Rest(Bid, BuyerChange, NoteE)
             ra == Rest(Ask, SellerChange, NoteF)
             b == bids[bi]
             a == asks[ai]
             c == Crossable
  <1>1. /\ InLoop /\ Crossing /\ phase = "match" /\ phase' = "match"
        /\ UNCHANGED <<slots, env, bids, asks>>
        /\ snap' = [snap EXCEPT ![b] = rb, ![a] = ra]
        /\ gained' = [gained EXCEPT ![b] = @ + c, ![a] = @ + c]
        /\ bi' = IF Bid.amount = c THEN bi + 1 ELSE bi
        /\ ai' = IF Ask.amount = c THEN ai + 1 ELSE ai
    BY DEF Match, Matches, InLoop, accounts
  <1>2. /\ bi \in 1 .. Len(bids) /\ ai \in 1 .. Len(asks) /\ Len(bids) \in Nat /\ Len(asks) \in Nat
        /\ snap \in [Slot -> Order] /\ gained \in [Slot -> Nat]
        /\ Bid \in Order /\ Ask \in Order /\ b \in Slot /\ a \in Slot
    BY <1>1, Heads, LenProperties DEF IndInv, TypeOK
  <1>3. a # b /\ c \in Nat
    BY <1>1, OpenHeads, CrossableFacts DEF IndInv, BatchBooks, InLoop
  <1>4. ASSUME MinOne
        PROVE  Keeps(rb, slots[b]) /\ Keeps(ra, slots[a])
    BY <1>1, <1>2, <1>4, ServedHeads, KeepsRest
  <1>5. rb.amount = Bid.amount - c /\ ra.amount = Ask.amount - c
    BY <1>2 DEF Rest, Order
  <1> HIDE DEF rb, ra, c, b, a
  <1>6. /\ snap'[b] = rb /\ snap'[a] = ra
        /\ gained'[b] = gained[b] + c /\ gained'[a] = gained[a] + c
        /\ \A s \in Slot : s # a /\ s # b => snap'[s] = snap[s] /\ gained'[s] = gained[s]
    BY <1>1, <1>2, <1>3
  <1>7. /\ \A i \in 1 .. Len(bids) : bids[i] \in Slot /\ bids[i] # a /\ (i # bi => bids[i] # b)
        /\ \A i \in 1 .. Len(asks) : asks[i] \in Slot /\ asks[i] # b /\ (i # ai => asks[i] # a)
    BY <1>1, OthersKept DEF a, b
  <1>8. OthersSame(bids, bi, snap, snap', gained, gained') /\ OthersSame(asks, ai, snap, snap', gained, gained')
    BY <1>6, <1>7 DEF OthersSame
  <1>9. ASSUME MinOne
        PROVE  /\ Served(bids, bi', slots, snap', gained', env.price)
               /\ Served(asks, ai', slots, snap', gained', env.price)
    <2>1. /\ Served(bids, bi, slots, snap, gained, env.price)
          /\ Served(asks, ai, slots, snap, gained, env.price)
          /\ Priced(slots[b], env.price) /\ Priced(slots[a], env.price)
      BY <1>1, <1>9, ServedHeads DEF Crossing, a, b
    <2>2. /\ bi' \in {bi, bi + 1} /\ ai' \in {ai, ai + 1}
          /\ bi' = bi + 1 => Bid.amount = c
          /\ ai' = ai + 1 => Ask.amount = c
      BY <1>1, <1>2
    <2>3. (bi' = bi + 1 => rb.amount = 0) /\ (ai' = ai + 1 => ra.amount = 0)
      BY <1>3, <1>5, <2>2
    <2>4. Keeps(snap'[bids[bi]], slots[bids[bi]]) /\ Keeps(snap'[asks[ai]], slots[asks[ai]])
      BY <1>4, <1>6, <1>9 DEF a, b
    <2>5. /\ bi' = bi + 1 => snap'[bids[bi]].amount = 0
          /\ ai' = ai + 1 => snap'[asks[ai]].amount = 0
      BY <1>6, <2>3 DEF a, b
    <2>6. Priced(slots[bids[bi]], env.price) /\ Priced(slots[asks[ai]], env.price)
      BY <2>1 DEF a, b
    <2>7. Served(bids, bi', slots, snap', gained', env.price)
      BY <1>2, <1>8, <2>1, <2>2, <2>4, <2>5, <2>6, ServedStep
    <2>8. Served(asks, ai', slots, snap', gained', env.price)
      BY <1>2, <1>8, <2>1, <2>2, <2>4, <2>5, <2>6, ServedStep
    <2>9. QED
      BY <2>7, <2>8
  <1>10. InTurn'
    BY <1>1, <1>9, MinOneSame DEF InTurn
  <1>11. InOrder'
    BY <1>1 DEF AuctionInv, InOrder, Sorted, Better
  <1>12. /\ Bidders' = Bidders /\ Sellers' = Sellers /\ Bidders \in SUBSET Slot /\ Sellers \in SUBSET Slot
         /\ b \in Bidders /\ a \in Sellers /\ a \notin Bidders /\ b \notin Sellers
    <2>1. b = bids[bi] /\ a = asks[ai]
      BY DEF a, b
    <2>2. QED
      BY <1>1, <1>2, <1>7, <2>1 DEF Bidders, Sellers
  <1>13. IsFiniteSet(Bidders) /\ IsFiniteSet(Sellers)
    BY <1>12, EngineAssumption, FS_Subset
  <1>14. Total(gained', Bidders) = Total(gained, Bidders) + c
    <2>1. \A x \in Bidders : gained[x] \in Nat
      BY <1>2, <1>12
    <2>2. \A x \in Bidders : x # b => gained'[x] = gained[x]
      BY <1>6, <1>12
    <2>3. QED
      BY <1>3, <1>6, <1>12, <1>13, <2>1, <2>2, TotalChange
  <1>15. Total(gained', Sellers) = Total(gained, Sellers) + c
    <2>1. \A x \in Sellers : gained[x] \in Nat
      BY <1>2, <1>12
    <2>2. \A x \in Sellers : x # a => gained'[x] = gained[x]
      BY <1>6, <1>12
    <2>3. QED
      BY <1>3, <1>6, <1>12, <1>13, <2>1, <2>2, TotalChange
  <1>16. Balanced'
    BY <1>1, <1>12, <1>14, <1>15 DEF AuctionInv, Balanced
  <1>17. QED
    BY <1>1, <1>10, <1>11, <1>16 DEF AuctionInv, Exhausted

LEMMA AuctionEndLoop ==
    ASSUME IndInv, AuctionInv, EndLoop
    PROVE  AuctionInv'
  <1>1. /\ phase = "match" /\ ~InLoop
        /\ UNCHANGED <<slots, env, bids, asks, gained, snap, bi, ai>>
    BY DEF EndLoop, accounts
  <1>2. bi \in 1 .. Len(bids) + 1 /\ ai \in 1 .. Len(asks) + 1 /\ Len(bids) \in Nat /\ Len(asks) \in Nat
    BY LenProperties DEF IndInv, TypeOK
  <1>3. bi = Len(bids) + 1 \/ ai = Len(asks) + 1
    BY <1>1, <1>2 DEF InLoop
  <1>4. InTurn'
    BY <1>1, MinOneSame DEF AuctionInv, InTurn
  <1>5. InOrder' /\ Balanced'
    BY <1>1 DEF AuctionInv, InOrder, Sorted, Better, Balanced, Bidders, Sellers
  <1>6. QED
    BY <1>1, <1>3, <1>4, <1>5 DEF AuctionInv, Exhausted

\* Which orders a batch starts with.
LEMMA BeginSnap ==
    ASSUME IndInv, NEW S \in SUBSET Pending(Slot), NEW rate \in FeeRate,
           NEW owner \in FeeOwner, NEW twap \in OraclePrice,
           BeginBatch(S, rate, owner, twap), NEW s \in Slot, InBook(s)'
    PROVE  slots[s].status = "pending" /\ snap'[s] = slots[s]
  <1>1. /\ OfSide(Eligible(S), "bid") \in SUBSET Slot
        /\ OfSide(Eligible(S), "ask") \in SUBSET Slot
    BY DEF OfSide, Eligible, Pending
  <1>2. /\ bids' \in Enumerations(OfSide(Eligible(S), "bid"))
        /\ asks' \in Enumerations(OfSide(Eligible(S), "ask"))
    BY DEF BeginBatch, SortedBids, SortedAsks
  <1>3. /\ \A i \in 1 .. Len(bids') : bids'[i] \in OfSide(Eligible(S), "bid")
        /\ \A i \in 1 .. Len(asks') : asks'[i] \in OfSide(Eligible(S), "ask")
    BY <1>1, <1>2, EnumerationSeq
  <1>4. s \in Eligible(S)
    BY <1>3 DEF InBook, OfSide
  <1>5. slots[s].status = "pending" /\ s \notin Expiring(S)
    BY <1>4 DEF Eligible, Pending
  <1>6. QED
    BY <1>5 DEF BeginBatch

LEMMA AuctionBegin ==
    ASSUME IndInv, NEW S \in SUBSET Pending(Slot), NEW rate \in FeeRate,
           NEW owner \in FeeOwner, NEW twap \in OraclePrice,
           BeginBatch(S, rate, owner, twap)
    PROVE  AuctionInv'
  <1> DEFINE B == OfSide(Eligible(S), "bid")
             A == OfSide(Eligible(S), "ask")
  <1>1. /\ B \in SUBSET Slot /\ A \in SUBSET Slot
        /\ \A s \in B : slots[s].side = "bid"
        /\ \A s \in A : slots[s].side = "ask"
    BY DEF OfSide, Eligible, Pending
  <1>2. /\ bids' \in SortedBids(B) /\ asks' \in SortedAsks(A)
        /\ UNCHANGED <<slots, bi, ai, gained>>
    BY DEF BeginBatch, accounts
  <1>3. Idle
    BY DEF BeginBatch, IndInv, BatchBooks
  <1>4. bi = 1 /\ ai = 1 /\ \A s \in Slot : gained[s] = 0
    BY <1>3 DEF Idle
  <1>5. bids' \in Enumerations(B) /\ asks' \in Enumerations(A)
    BY <1>2 DEF SortedBids, SortedAsks
  <1>6. Cardinality(B) \in Nat /\ Cardinality(A) \in Nat
    BY <1>1, EngineAssumption, FS_Subset, FS_CardinalityType
  <1>7. /\ bids' \in [1 .. Cardinality(B) -> B] /\ asks' \in [1 .. Cardinality(A) -> A]
        /\ \A i, j \in 1 .. Cardinality(B) : i < j => ~BidBefore(bids'[j], bids'[i])
        /\ \A i, j \in 1 .. Cardinality(A) : i < j => ~AskBefore(asks'[j], asks'[i])
    BY <1>2 DEF SortedBids, SortedAsks, Enumerations
  <1> HIDE DEF A, B
  <1>8. Len(bids') = Cardinality(B) /\ Len(asks') = Cardinality(A)
    BY <1>6, <1>7, FunctionSeq
  <1>9. /\ \A i \in 1 .. Len(bids') : bids'[i] \in B
        /\ \A i \in 1 .. Len(asks') : asks'[i] \in A
    BY <1>7, <1>8
  <1>10. Sorted(bids', slots)
    <2> SUFFICES ASSUME NEW i \in 1 .. Len(bids'), NEW j \in 1 .. Len(bids'), i < j
                 PROVE  ~Better(slots[bids'[j]], slots[bids'[i]])
      BY DEF Sorted
    <2>1. ~BidBefore(bids'[j], bids'[i])
      BY <1>7, <1>8
    <2>2. slots[bids'[j]].side = "bid"
      BY <1>1, <1>9
    <2>3. QED
      BY <2>1, <2>2 DEF Better, BidBefore
  <1>11. Sorted(asks', slots)
    <2> SUFFICES ASSUME NEW i \in 1 .. Len(asks'), NEW j \in 1 .. Len(asks'), i < j
                 PROVE  ~Better(slots[asks'[j]], slots[asks'[i]])
      BY DEF Sorted
    <2>1. ~AskBefore(asks'[j], asks'[i])
      BY <1>7, <1>8
    <2>2. slots[asks'[j]].side = "ask"
      BY <1>1, <1>9
    <2>3. QED
      BY <2>1, <2>2 DEF Better, AskBefore
  <1>12. InOrder'
    BY <1>2, <1>10, <1>11 DEF InOrder
  <1>13. \A s \in Slot : InBook(s)' => snap'[s] = slots[s]
    BY BeginSnap
  <1>14. Served(bids', 1, slots, snap', gained, env'.price)
    <2> SUFFICES ASSUME NEW i \in 1 .. Len(bids')
                 PROVE  /\ Keeps(snap'[bids'[i]], slots[bids'[i]])
                        /\ ~(gained[bids'[i]] > 0) /\ ~(i < 1)
      BY DEF Served
    <2>1. bids'[i] \in Slot
      BY <1>1, <1>9
    <2>2. InBook(bids[i])'
      BY DEF InBook
    <2>3. snap'[bids'[i]] = slots[bids'[i]]
      BY <1>13, <2>1, <2>2 DEF InBook
    <2>4. QED
      BY <1>4, <2>1, <2>3 DEF Keeps
  <1>15. Served(asks', 1, slots, snap', gained, env'.price)
    <2> SUFFICES ASSUME NEW i \in 1 .. Len(asks')
                 PROVE  /\ Keeps(snap'[asks'[i]], slots[asks'[i]])
                        /\ ~(gained[asks'[i]] > 0) /\ ~(i < 1)
      BY DEF Served
    <2>1. asks'[i] \in Slot
      BY <1>1, <1>9
    <2>2. InBook(asks[i])'
      BY DEF InBook
    <2>3. snap'[asks'[i]] = slots[asks'[i]]
      BY <1>13, <2>1, <2>2 DEF InBook
    <2>4. QED
      BY <1>4, <2>1, <2>3 DEF Keeps
  <1>16. InTurn'
    BY <1>2, <1>4, <1>14, <1>15 DEF InTurn
  <1>17. ASSUME NEW T \in SUBSET Slot PROVE Total(gained, T) = Total(gained, {})
    <2>1. IsFiniteSet(T)
      BY EngineAssumption, FS_Subset
    <2>2. {} \in SUBSET T /\ \A x \in T : gained[x] \in Nat /\ gained[x] = 0
      BY <1>4
    <2>3. QED
      BY <2>1, <2>2, TotalPart
  <1>18. Balanced'
    <2>1. Bidders' \in SUBSET Slot /\ Sellers' \in SUBSET Slot
      BY <1>1, <1>9 DEF Bidders, Sellers
    <2>2. Total(gained, Bidders') = Total(gained, Sellers')
      BY <1>17, <2>1
    <2>3. QED
      BY <1>2, <2>2 DEF Balanced
  <1>19. phase' = "publish" => env'.price = 0
    BY DEF BeginBatch
  <1>20. Exhausted'
    BY <1>19 DEF Exhausted
  <1>21. QED
    BY <1>12, <1>16, <1>18, <1>20 DEF AuctionInv

LEMMA AuctionStep ==
    ASSUME IndInv, AuctionInv, [Next]_vars
    PROVE  AuctionInv'
  <1>1. CASE phase' = "idle"
    BY <1>1 DEF AuctionInv
  <1>2. CASE SomeBatch
    BY <1>2, AuctionBegin DEF SomeBatch
  <1>3. CASE SomeInit \/ SomeSubmit \/ SomeCancel \/ Tick
    <2>1. phase' = "idle"
      BY <1>3 DEF SomeInit, SomeSubmit, SomeCancel, Tick, InitPendingOrderSlot, SubmitOrder,
                  CancelOrder, locals
    <2>2. QED
      BY <1>1, <2>1
  <1>4. CASE Abort \/ Publish
    BY <1>1, <1>4 DEF Abort, Publish, Reset
  <1>5. CASE UNCHANGED vars
    <2>1. UNCHANGED <<phase, slots, env, bids, asks, gained, snap, bi, ai>>
      BY <1>5 DEF vars, accounts, locals
    <2>2. phase # "idle" => InTurn'
      BY <2>1, MinOneSame DEF AuctionInv, InTurn
    <2>3. phase # "idle" => InOrder' /\ Balanced' /\ Exhausted'
      BY <2>1 DEF AuctionInv, InOrder, Sorted, Better, Balanced, Bidders, Sellers, Exhausted
    <2>4. QED
      BY <2>1, <2>2, <2>3 DEF AuctionInv
  <1>6. QED
    BY <1>2, <1>3, <1>4, <1>5, AuctionSkipLimits, AuctionSkipMinFill, AuctionKillBid,
       AuctionKillAsk, AuctionMatch, AuctionEndLoop DEF Next, BatchStep

LEMMA AuctionInvariance == Spec => []AuctionInv
  <1>1. Init => AuctionInv
    BY DEF Init, Idle, AuctionInv
  <1>2. QED
    BY <1>1, AuctionStep, Invariance, PTL DEF Spec

\* Price-time priority within one vector.
LEMMA QueuePriority ==
    ASSUME NEW q, NEW k, NEW sl, NEW sn, NEW g, NEW p, Len(q) \in Nat, k \in Nat, p \in Nat,
           \A i \in 1 .. Len(q) : sl[q[i]].price \in Nat,
           Sorted(q, sl), Served(q, k, sl, sn, g, p),
           NEW i \in 1 .. Len(q), NEW j \in 1 .. Len(q), sl[q[i]].side = sl[q[j]].side,
           Better(sl[q[i]], sl[q[j]]), ~Better(sl[q[i]], sl[q[i]]), g[q[j]] > 0
    PROVE  sn[q[i]].amount = 0
  <1>1. Priced(sl[q[j]], p) /\ j <= k
    BY DEF Served
  <1>2. Priced(sl[q[i]], p)
    BY <1>1 DEF Priced, Better
  <1>3. i < j
    <2>1. i # j
      OBVIOUS
    <2>2. ~(j < i)
      BY DEF Sorted
    <2>3. QED
      BY <2>1, <2>2
  <1>4. i < k
    BY <1>1, <1>3
  <1>5. QED
    BY <1>2, <1>4 DEF Served

\* The vectors hold the orders of the book by side.
LEMMA BookSides ==
    ASSUME InBatch, NEW s \in Slot, InBook(s)
    PROVE  /\ slots[s].side = "bid" => \E i \in 1 .. Len(bids) : bids[i] = s
           /\ slots[s].side = "ask" => \E i \in 1 .. Len(asks) : asks[i] = s
           /\ slots[s].side \in {"bid", "ask"}
  BY DEF InBook, InBatch, Lists

LEMMA PriorityHolds ==
    ASSUME IndInv, AuctionInv
    PROVE  Priority
  <1> SUFFICES ASSUME phase = "publish", MinOne, NEW s \in Slot, NEW t \in Slot,
                      InBook(s), InBook(t), slots[s].side = slots[t].side,
                      Better(slots[s], slots[t]), gained[t] > 0
               PROVE  snap[s].amount = 0
    BY DEF Priority, MinOne
  <1>1. TypeOK /\ InBatch /\ InOrder /\ InTurn
    BY DEF IndInv, BatchBooks, AuctionInv
  <1>2. /\ Len(bids) \in Nat /\ Len(asks) \in Nat /\ bi \in Nat /\ ai \in Nat /\ env.price \in Nat
        /\ bids \in Seq(Slot) /\ asks \in Seq(Slot) /\ slots \in [Slot -> Order]
    BY <1>1, LenProperties DEF TypeOK
  <1>3. /\ \A i \in 1 .. Len(bids) : slots[bids[i]].price \in Nat
        /\ \A i \in 1 .. Len(asks) : slots[asks[i]].price \in Nat
    BY <1>2, ElementOfSeq DEF Order
  <1>4. slots[s] \in Order /\ ~Better(slots[s], slots[s])
    <2>1. slots[s] \in Order /\ slots[s].price \in Nat /\ slots[s].arrival \in Nat
      BY <1>2 DEF Order
    <2>2. QED
      BY <2>1 DEF Better
  <1>5. CASE slots[s].side = "bid"
    <2>1. PICK i \in 1 .. Len(bids) : bids[i] = s
      BY <1>1, <1>5, BookSides
    <2>2. PICK j \in 1 .. Len(bids) : bids[j] = t
      BY <1>1, <1>5, BookSides
    <2>3. Sorted(bids, slots) /\ Served(bids, bi, slots, snap, gained, env.price)
      BY <1>1 DEF InOrder, InTurn
    <2>4. QED
      BY <1>2, <1>3, <1>4, <2>1, <2>2, <2>3, QueuePriority
  <1>6. CASE slots[s].side = "ask"
    <2>1. PICK i \in 1 .. Len(asks) : asks[i] = s
      BY <1>1, <1>6, BookSides
    <2>2. PICK j \in 1 .. Len(asks) : asks[j] = t
      BY <1>1, <1>6, BookSides
    <2>3. Sorted(asks, slots) /\ Served(asks, ai, slots, snap, gained, env.price)
      BY <1>1 DEF InOrder, InTurn
    <2>4. QED
      BY <1>2, <1>3, <1>4, <2>1, <2>2, <2>3, QueuePriority
  <1>7. QED
    BY <1>1, <1>5, <1>6, BookSides

(***************************************************************************)
(* For every book, order size and mix of limit, IOC and FOK orders that    *)
(* take any fill, a batch respects price-time priority: an order that is   *)
(* left with an open quantity was not overtaken.                           *)
(***************************************************************************)
THEOREM PriorityCorrect == Spec => []Priority
  BY PriorityHolds, AuctionInvariance, Invariance, PTL

\* The quantity offered by a set of orders, as a sum.
Offered == [s \in Slot |-> slots[s].amount]

LEMMA QuantityTotal ==
    ASSUME TypeOK, NEW S \in SUBSET Slot
    PROVE  Quantity(S) = Total(Offered, S) /\ Quantity(S) \in Nat
  <1> DEFINE E(g) == g = [s \in SUBSET S |-> IF s = {} THEN 0
                                             ELSE slots[Pick(s)].amount + g[s \ {Pick(s)}]]
             h == CHOOSE g : E(g)
  <1>0. IsFiniteSet(S)
    BY EngineAssumption, FS_Subset
  <1>1. Quantity(S) = h[S]
    BY DEF Quantity, MapThenSumSet, MapThenFoldSet, Pick
  <1>2. ASSUME NEW s \in SUBSET S, s # {}  PROVE Offered[Pick(s)] = slots[Pick(s)].amount
    <2>1. Pick(s) \in Slot
      BY <1>2, PickFact
    <2>2. QED
      BY <2>1 DEF Offered
  <1>3. ASSUME NEW g  PROVE E(g) <=> Adds(g, Offered, S)
    <2>1. [s \in SUBSET S |-> IF s = {} THEN 0 ELSE slots[Pick(s)].amount + g[s \ {Pick(s)}]]
             = [s \in SUBSET S |-> IF s = {} THEN 0 ELSE Offered[Pick(s)] + g[s \ {Pick(s)}]]
      BY <1>2
    <2>2. QED
      BY <2>1 DEF Adds
  <1>4. \A x \in S : Offered[x] \in Nat
    <2> SUFFICES ASSUME NEW x \in S PROVE Offered[x] \in Nat
      OBVIOUS
    <2>1. x \in Slot /\ slots[x] \in Order
      BY DEF TypeOK
    <2>2. QED
      BY <2>1 DEF Offered, Order
  <1>5. \E g : E(g)
    BY <1>0, <1>3, <1>4, AddsExists
  <1>6. E(h)
    BY <1>5
  <1> HIDE DEF h
  <1>7. Adds(h, Offered, S)
    BY <1>3, <1>6
  <1>8. Total(Offered, S) = h[S] /\ Total(Offered, S) \in Nat
    BY <1>0, <1>4, <1>7, TotalFact
  <1>9. QED
    BY <1>1, <1>8

LEMMA GainedTotal ==
    ASSUME NEW S
    PROVE  MapThenSumSet(LAMBDA s : gained[s], S) = Total(gained, S)
  BY DEF MapThenSumSet, MapThenFoldSet, Total, Adds, Pick

Members(q) == {q[i] : i \in 1 .. Len(q)}
AtPrice(R, sl, p) == {s \in R : Priced(sl[s], p)}
Kept(R, sn, g, w) ==
    \A s \in R : /\ g[s] \in Nat /\ w[s] \in Nat /\ sn[s].amount \in Nat
                 /\ sn[s].amount + g[s] = w[s]

\* One side of the book: what it traded is at most what it offered at the
\* price, and all of it when the loop has passed the whole vector.
LEMMA SideVolume ==
    ASSUME NEW q, NEW k, NEW sl, NEW sn, NEW g, NEW w, NEW p, Len(q) \in Nat,
           Served(q, k, sl, sn, g, p), IsFiniteSet(Members(q)), Kept(Members(q), sn, g, w)
    PROVE  /\ Total(g, Members(q)) \in Nat
           /\ Total(g, Members(q)) <= Total(w, AtPrice(Members(q), sl, p))
           /\ k = Len(q) + 1 => Total(g, Members(q)) = Total(w, AtPrice(Members(q), sl, p))
  <1> DEFINE R == Members(q)
             C == AtPrice(R, sl, p)
  <1>1. C \in SUBSET R /\ IsFiniteSet(C)
    BY FS_Subset DEF AtPrice
  <1>2. ASSUME NEW s \in R \ C PROVE g[s] = 0
    <2>1. PICK i \in 1 .. Len(q) : s = q[i]
      BY DEF Members
    <2>2. ~(g[s] > 0)
      BY <2>1 DEF Served, AtPrice
    <2>3. QED
      BY <2>2 DEF Kept
  <1>3. \A s \in R : g[s] \in Nat
    BY DEF Kept
  <1>4. Total(g, R) = Total(g, C) /\ Total(g, R) \in Nat
    <2>1. Total(g, R) \in Nat
      BY ONLY <1>3, IsFiniteSet(R), TotalFact
    <2>2. QED
      BY <1>1, <1>2, <1>3, <2>1, TotalPart
  <1>5. Total(g, C) <= Total(w, C)
    <2>1. \A s \in C : g[s] \in Nat /\ w[s] \in Nat /\ g[s] <= w[s]
      BY <1>1 DEF Kept
    <2>2. QED
      BY <1>1, <2>1, TotalAtMost
  <1>6. ASSUME k = Len(q) + 1 PROVE Total(g, C) = Total(w, C)
    <2>1. ASSUME NEW s \in C PROVE g[s] = w[s]
      <3>1. PICK i \in 1 .. Len(q) : s = q[i]
        BY <1>1 DEF Members
      <3>2. i < k
        BY <1>6
      <3>3. sn[s].amount = 0 \/ ~Priced(sl[s], p)
        BY <3>1, <3>2 DEF Served
      <3>4. sn[s].amount = 0
        BY <3>3 DEF AtPrice
      <3>5. QED
        BY <1>1, <3>4 DEF Kept
    <2>2. \A s \in C : w[s] \in Nat /\ g[s] = w[s]
      BY <1>1, <2>1 DEF Kept
    <2>3. QED
      BY <1>1, <2>2, TotalSame
  <1>7. QED
    BY <1>4, <1>5, <1>6

LEMMA VolumeHolds ==
    ASSUME IndInv, AuctionInv
    PROVE  VolumeCleared
  <1> DEFINE p == env.price
             CB == {s \in Bidders : slots[s].price >= p}
             CS == {s \in Sellers : slots[s].price <= p}
  <1> SUFFICES ASSUME phase = "publish", env.price > 0, AnyFill
               PROVE  /\ Total(gained, Bidders) = Volume(Bidders, Sellers, env.price)
                      /\ Total(gained, Sellers) = Volume(Bidders, Sellers, env.price)
    BY GainedTotal DEF VolumeCleared
  <1>1. /\ TypeOK /\ InBatch /\ InTurn /\ Balanced
        /\ bi = Len(bids) + 1 \/ ai = Len(asks) + 1
    BY DEF IndInv, BatchBooks, AuctionInv, Exhausted
  <1>2. /\ Len(bids) \in Nat /\ Len(asks) \in Nat /\ bi \in Nat /\ ai \in Nat
        /\ bids \in Seq(Slot) /\ asks \in Seq(Slot) /\ slots \in [Slot -> Order]
        /\ snap \in [Slot -> Order] /\ gained \in [Slot -> Nat]
    <2>1. /\ bids \in Seq(Slot) /\ asks \in Seq(Slot) /\ slots \in [Slot -> Order]
          /\ snap \in [Slot -> Order] /\ gained \in [Slot -> Nat]
          /\ bi \in 1 .. Len(bids) + 1 /\ ai \in 1 .. Len(asks) + 1
      BY <1>1 DEF TypeOK
    <2>2. QED
      BY <2>1, LenProperties
  <1>3. /\ \A i \in 1 .. Len(bids) : bids[i] \in Slot /\ InBook(bids[i]) /\ slots[bids[i]].side = "bid"
        /\ \A i \in 1 .. Len(asks) : asks[i] \in Slot /\ InBook(asks[i]) /\ slots[asks[i]].side = "ask"
    BY <1>1, <1>2, ElementOfSeq DEF InBook, InBatch, Lists
  <1>4. /\ Bidders \in SUBSET Slot /\ Sellers \in SUBSET Slot
        /\ \A s \in Bidders : InBook(s) /\ slots[s].side = "bid"
        /\ \A s \in Sellers : InBook(s) /\ slots[s].side = "ask"
    BY <1>3 DEF Bidders, Sellers
  <1>5. IsFiniteSet(Bidders) /\ IsFiniteSet(Sellers)
    BY <1>4, EngineAssumption, FS_Subset
  <1>6. MinOne
    BY DEF AnyFill, MinOne
  <1>7. /\ Served(bids, bi, slots, snap, gained, p)
        /\ Served(asks, ai, slots, snap, gained, p)
    BY <1>1, <1>6 DEF InTurn
  <1>8. \A s \in Bidders \cup Sellers : Keeps(snap[s], slots[s])
    BY <1>7 DEF Served, Bidders, Sellers
  <1>9. ASSUME NEW s \in Bidders \cup Sellers
        PROVE  /\ gained[s] \in Nat /\ Offered[s] \in Nat /\ snap[s].amount \in Nat
               /\ snap[s].amount + gained[s] = Offered[s]
    <2>1. s \in Slot /\ InBook(s) /\ slots[s].type # "fok" /\ slots[s].type # "killed"
      BY <1>4 DEF AnyFill, IndInv, BatchBooks, SlotsSound
    <2>2. snap[s].type # "killed"
      BY <1>8, <2>1 DEF Keeps
    <2>3. snap[s].amount + gained[s] = slots[s].amount
      BY <1>1, <2>1, <2>2 DEF InBatch, SnapSound
    <2>4. gained[s] \in Nat /\ snap[s].amount \in Nat /\ slots[s].amount \in Nat
      BY <1>2, <2>1 DEF Order
    <2>5. QED
      BY <2>1, <2>3, <2>4 DEF Offered
  <1>10. CB = AtPrice(Bidders, slots, p) /\ CS = AtPrice(Sellers, slots, p)
    BY <1>4 DEF Priced, AtPrice
  <1>11. /\ CB \in SUBSET Slot /\ CS \in SUBSET Slot
    BY <1>4
  <1>12. /\ Demand(Bidders, p) = Quantity(CB) /\ Supply(Sellers, p) = Quantity(CS)
    BY DEF Demand, Supply
  <1>13. /\ Bidders = Members(bids) /\ Sellers = Members(asks)
         /\ Kept(Bidders, snap, gained, Offered) /\ Kept(Sellers, snap, gained, Offered)
    BY <1>9 DEF Bidders, Sellers, Members, Kept
  <1> HIDE DEF p, CB, CS
  <1>21. IsFiniteSet(Members(bids)) /\ IsFiniteSet(Members(asks))
    BY <1>5, <1>13
  <1>14. /\ Total(gained, Bidders) \in Nat
         /\ Total(gained, Bidders) <= Total(Offered, CB)
         /\ bi = Len(bids) + 1 => Total(gained, Bidders) = Total(Offered, CB)
    <2>1. /\ Len(bids) \in Nat /\ Served(bids, bi, slots, snap, gained, p)
          /\ IsFiniteSet(Members(bids)) /\ Kept(Members(bids), snap, gained, Offered)
      BY <1>2, <1>7, <1>13, <1>21
    <2>2. /\ Total(gained, Members(bids)) \in Nat
          /\ Total(gained, Members(bids)) <= Total(Offered, AtPrice(Members(bids), slots, p))
          /\ bi = Len(bids) + 1 =>
                Total(gained, Members(bids)) = Total(Offered, AtPrice(Members(bids), slots, p))
      BY ONLY <2>1, SideVolume
    <2>3. Bidders = Members(bids) /\ CB = AtPrice(Members(bids), slots, p)
      BY <1>10, <1>13
    <2>4. QED
      BY <2>2, <2>3
  <1>15. /\ Total(gained, Sellers) \in Nat
         /\ Total(gained, Sellers) <= Total(Offered, CS)
         /\ ai = Len(asks) + 1 => Total(gained, Sellers) = Total(Offered, CS)
    <2>1. /\ Len(asks) \in Nat /\ Served(asks, ai, slots, snap, gained, p)
          /\ IsFiniteSet(Members(asks)) /\ Kept(Members(asks), snap, gained, Offered)
      BY <1>2, <1>7, <1>13, <1>21
    <2>2. /\ Total(gained, Members(asks)) \in Nat
          /\ Total(gained, Members(asks)) <= Total(Offered, AtPrice(Members(asks), slots, p))
          /\ ai = Len(asks) + 1 =>
                Total(gained, Members(asks)) = Total(Offered, AtPrice(Members(asks), slots, p))
      BY ONLY <2>1, SideVolume
    <2>3. Sellers = Members(asks) /\ CS = AtPrice(Members(asks), slots, p)
      BY <1>10, <1>13
    <2>4. QED
      BY <2>2, <2>3
  <1>16. /\ Demand(Bidders, p) = Total(Offered, CB) /\ Supply(Sellers, p) = Total(Offered, CS)
         /\ Total(Offered, CB) \in Nat /\ Total(Offered, CS) \in Nat
    BY <1>1, <1>11, <1>12, QuantityTotal
  <1>17. Total(gained, Bidders) = Total(gained, Sellers)
    BY <1>1 DEF Balanced
  <1>18. Total(gained, Bidders) = Lesser(Total(Offered, CB), Total(Offered, CS))
    BY <1>1, <1>14, <1>15, <1>16, <1>17 DEF Lesser
  <1>19. Volume(Bidders, Sellers, p) = Lesser(Total(Offered, CB), Total(Offered, CS))
    BY <1>16 DEF Volume
  <1>20. QED
    BY <1>17, <1>18, <1>19 DEF p

(***************************************************************************)
(* For every book whose orders take any fill, generate_matches trades on   *)
(* both sides exactly the volume that compute_clearing_price promised.     *)
(***************************************************************************)
THEOREM VolumeClearedCorrect == Spec => []VolumeCleared
  BY VolumeHolds, AuctionInvariance, Invariance, PTL

-----------------------------------------------------------------------------
(***************************************************************************)
(* What run_batch does with collateral in a market without fees: no        *)
(* accepted order can fail a batch, and no note is consumed twice.         *)
(***************************************************************************)

NoFees == FeeRate \subseteq {0}

\* Snapshots keep the side and the price of their order, and the rate of a
\* batch is one the market uses.
Faithful ==
    phase # "idle" =>
       /\ env.rate \in FeeRate
       /\ \A s \in Slot : InBook(s) => /\ snap[s].side = slots[s].side
                                       /\ snap[s].price = slots[s].price

MoneyInv == IndInv /\ Covered /\ Faithful

-----------------------------------------------------------------------------
\* Arithmetic.

LEMMA Monotone ==
    ASSUME NEW a \in Nat, NEW b \in Nat, NEW p \in Nat, NEW q \in Nat, a <= b, p <= q
    PROVE  a * p <= b * q
  <1>1. PICK d \in Nat : b = a + d
    <2>1. b - a \in Nat /\ b = a + (b - a)
      OBVIOUS
    <2>2. QED
      BY <2>1
  <1>2. PICK e \in Nat : q = p + e
    <2>1. q - p \in Nat /\ q = p + (q - p)
      OBVIOUS
    <2>2. QED
      BY <2>1
  <1>3. /\ a * p \in Nat /\ a * e \in Nat /\ d * p \in Nat /\ d * e \in Nat
        /\ b * q = a * p + a * e + d * p + d * e
    BY <1>1, <1>2
  <1>4. QED
    BY <1>3

LEMMA Remainder ==
    ASSUME NEW a \in Nat, NEW c \in Nat, NEW p \in Nat, NEW q \in Nat, NEW v \in Nat,
           c <= a, p <= q, a * q <= v
    PROVE  /\ c * p <= v
           /\ (a - c) * q <= v - c * p
           /\ c < a /\ q > 0 => v - c * p > 0
  <1>1. PICK d \in Nat : a = c + d
    <2>1. a - c \in Nat /\ a = c + (a - c)
      OBVIOUS
    <2>2. QED
      BY <2>1
  <1>2. /\ c * p \in Nat /\ c * q \in Nat /\ d * q \in Nat
        /\ c * p <= c * q /\ a * q = c * q + d * q
    BY <1>1, Monotone
  <1>3. a - c = d
    BY <1>1
  <1>4. d > 0 /\ q > 0 => d * q > 0
    OBVIOUS
  <1>5. QED
    BY <1>1, <1>2, <1>3, <1>4

LEMMA NoFeeCharged ==
    ASSUME NoFees, MoneyInv, phase # "idle", NEW a \in Nat
    PROVE  FeeOn(a) = 0
  <1>1. env.rate = 0
    BY DEF NoFees, MoneyInv, Faithful
  <1>2. a * 0 = 0 /\ 0 \div BpsBase = 0
    BY DEF BpsBase
  <1>3. QED
    BY <1>1, <1>2 DEF FeeOn

-----------------------------------------------------------------------------
\* The loop's orders at a crossing.

LEMMA HeadsBacked ==
    ASSUME MoneyInv, InLoop
    PROVE  /\ Bid.price > 0 /\ Bid.amount * Bid.price <= Bid.noteAmount /\ Bid.side = "bid"
           /\ Ask.price > 0 /\ Ask.amount <= Ask.noteAmount /\ Ask.side = "ask"
  <1>1. TypeOK /\ InBatch /\ phase # "idle"
    BY DEF MoneyInv, IndInv, BatchBooks, InLoop
  <1>2. /\ bids[bi] \in Slot /\ asks[ai] \in Slot
        /\ bi \in 1 .. Len(bids) /\ ai \in 1 .. Len(asks)
        /\ InBook(bids[bi]) /\ InBook(asks[ai])
        /\ Bid \in Order /\ Ask \in Order
    BY <1>1, Heads, OpenHeads
  <1>3. Backed(Bid) /\ Backed(Ask)
    BY <1>1, <1>2 DEF MoneyInv, Covered, Bid, Ask
  <1>4. Bid.side = "bid" /\ Ask.side = "ask"
    <2>1. slots[bids[bi]].side = "bid" /\ slots[asks[ai]].side = "ask"
      BY <1>1, <1>2 DEF InBatch, Lists
    <2>2. QED
      BY <2>1, <1>1, <1>2 DEF MoneyInv, Faithful, Bid, Ask
  <1>5. /\ Bid.amount \in Nat /\ Bid.price \in Nat /\ Bid.noteAmount \in Nat
        /\ Ask.amount \in Nat /\ Ask.noteAmount \in Nat
    BY <1>2 DEF Order
  <1>6. Bid.amount * Bid.price \in Nat
    BY <1>5
  <1>7. QED
    BY <1>3, <1>4, <1>5, <1>6 DEF Backed

\* Without fees the charge is covered, the change covers the rest of the
\* order, and an order that goes on has change left.
LEMMA ChargeCovered ==
    ASSUME NoFees, MoneyInv, InLoop, Crossing
    PROVE  /\ Affordable
           /\ (Bid.amount - Crossable) * Bid.price <= BuyerChange
           /\ Ask.amount - Crossable <= SellerChange
           /\ Crossable < Bid.amount => BuyerChange > 0
           /\ Crossable < Ask.amount => SellerChange > 0
  <1>1. TypeOK /\ InBatch /\ phase # "idle"
    BY DEF MoneyInv, IndInv, BatchBooks, InLoop
  <1>2. /\ Crossable \in Nat /\ Crossable > 0
        /\ Crossable <= Bid.amount /\ Crossable <= Ask.amount
        /\ QuoteAmt \in Nat
    BY <1>1, CrossableFacts, MatchAmounts
  <1>3. /\ Bid.amount \in Nat /\ Bid.noteAmount \in Nat /\ Bid.price \in Nat
        /\ Ask.amount \in Nat /\ Ask.noteAmount \in Nat
    BY <1>1, Heads DEF Order
  <1>4. env.price \in Nat /\ env.price <= Bid.price
    <2>1. env.price \in Nat
      BY <1>1 DEF TypeOK
    <2>2. QED
      BY <2>1, <1>3 DEF Crossing
  <1>5. BuyerCharge = Crossable * env.price /\ SellerCharge = Crossable
    <2>1. FeeOn(QuoteAmt) = 0 /\ FeeOn(Crossable) = 0
      BY <1>1, <1>2, NoFeeCharged
    <2>2. QED
      BY <2>1, <1>2 DEF BuyerCharge, SellerCharge, QuoteAmt
  <1>6. Bid.amount * Bid.price <= Bid.noteAmount /\ Ask.amount <= Ask.noteAmount /\ Bid.price > 0
    BY HeadsBacked
  <1>7. /\ Crossable * env.price <= Bid.noteAmount
        /\ (Bid.amount - Crossable) * Bid.price <= Bid.noteAmount - Crossable * env.price
        /\ Crossable < Bid.amount => Bid.noteAmount - Crossable * env.price > 0
    BY <1>2, <1>3, <1>4, <1>6, Remainder
  <1>8. Affordable
    BY <1>2, <1>3, <1>5, <1>6, <1>7 DEF Affordable
  <1>9. QED
    BY <1>2, <1>3, <1>5, <1>6, <1>7, <1>8 DEF BuyerChange, SellerChange

LEMMA KilledKeeps ==
    ASSUME NEW o \in Order, Backed(o)
    PROVE  /\ Killed(o).side = o.side /\ Killed(o).price = o.price
           /\ Backed(Killed(o))
  <1>1. /\ Killed(o).side = o.side /\ Killed(o).price = o.price
        /\ Killed(o).noteAmount = o.noteAmount /\ Killed(o).amount = 0
    BY DEF Killed, Order
  <1>2. o.price \in Nat /\ o.noteAmount \in Nat /\ 0 * o.price = 0
    BY DEF Order
  <1>3. QED
    BY <1>1, <1>2 DEF Backed

LEMMA RestKeeps ==
    ASSUME NEW o \in Order, NEW change, NEW note
    PROVE  /\ Rest(o, change, note).side = o.side
           /\ Rest(o, change, note).price = o.price
           /\ Rest(o, change, note).status = o.status
           /\ Rest(o, change, note).amount = o.amount - Crossable
           /\ Relocks(o, change) => /\ Rest(o, change, note).noteAmount = change
                                    /\ Rest(o, change, note).note = note
           /\ ~Relocks(o, change) => /\ Rest(o, change, note).noteAmount = o.noteAmount
                                     /\ Rest(o, change, note).note = o.note
  BY DEF Rest, Order

\* What is left of a crossing order is still covered.
LEMMA RestBacked ==
    ASSUME NoFees, MoneyInv, InLoop, Crossing
    PROVE  /\ Backed(Rest(Bid, BuyerChange, NoteE))
           /\ Backed(Rest(Ask, SellerChange, NoteF))
  <1>1. TypeOK /\ InBatch
    BY DEF MoneyInv, IndInv, BatchBooks, InLoop
  <1>2. Bid \in Order /\ Ask \in Order
    BY <1>1, Heads
  <1>3. /\ Crossable \in Nat /\ Crossable <= Bid.amount /\ Crossable <= Ask.amount
        /\ BuyerChange \in Nat /\ SellerChange \in Nat
    BY <1>1, CrossableFacts, MatchAmounts, ChargeCovered
  <1>4. /\ Bid.amount \in Nat /\ Bid.noteAmount \in Nat /\ Bid.price \in Nat
        /\ Ask.amount \in Nat /\ Ask.noteAmount \in Nat
    BY <1>2 DEF Order
  <1>5. (Bid.amount - Crossable) * Bid.price <= Bid.noteAmount
    <2>1. (Bid.amount - Crossable) * Bid.price <= Bid.amount * Bid.price
      BY <1>3, <1>4, Monotone
    <2>2. /\ Bid.amount * Bid.price <= Bid.noteAmount
          /\ Bid.amount * Bid.price \in Nat /\ (Bid.amount - Crossable) * Bid.price \in Nat
      BY <1>3, <1>4, HeadsBacked
    <2>3. QED
      BY <2>1, <2>2, <1>4
  <1>6. /\ (Bid.amount - Crossable) * Bid.price <= BuyerChange
        /\ Ask.amount - Crossable <= SellerChange
    BY ChargeCovered
  <1>7. /\ Bid.price > 0 /\ Bid.side = "bid"
        /\ Ask.price > 0 /\ Ask.amount <= Ask.noteAmount /\ Ask.side = "ask"
    BY HeadsBacked
  <1>8. (Bid.amount - Crossable) * Bid.price \in Nat
    BY <1>3, <1>4
  <1>9. Backed(Rest(Bid, BuyerChange, NoteE))
    <2>1. Rest(Bid, BuyerChange, NoteE).noteAmount \in {BuyerChange, Bid.noteAmount}
      BY <1>2, RestKeeps
    <2>2. /\ Rest(Bid, BuyerChange, NoteE).side = "bid"
          /\ Rest(Bid, BuyerChange, NoteE).price = Bid.price
          /\ Rest(Bid, BuyerChange, NoteE).amount = Bid.amount - Crossable
      BY <1>2, <1>7, RestKeeps
    <2>3. QED
      BY <2>1, <2>2, <1>3, <1>4, <1>5, <1>6, <1>7, <1>8 DEF Backed
  <1>10. Backed(Rest(Ask, SellerChange, NoteF))
    <2>1. Rest(Ask, SellerChange, NoteF).noteAmount \in {SellerChange, Ask.noteAmount}
      BY <1>2, RestKeeps
    <2>2. /\ Rest(Ask, SellerChange, NoteF).side = "ask"
          /\ Rest(Ask, SellerChange, NoteF).price = Ask.price
          /\ Rest(Ask, SellerChange, NoteF).amount = Ask.amount - Crossable
      BY <1>2, <1>7, RestKeeps
    <2>3. QED
      BY <2>1, <2>2, <1>3, <1>4, <1>6, <1>7 DEF Backed
  <1>11. QED
    BY <1>9, <1>10

-----------------------------------------------------------------------------
\* Every step keeps collateral covering its order.

LEMMA MoneyInit == Init => Covered /\ Faithful
  BY DEF Init, Idle, Covered, Faithful, NoOrder

LEMMA MoneyOutside ==
    ASSUME MoneyInv, phase' = "idle",
           \A s \in Slot : slots'[s].status = "pending" =>
                              slots'[s] = slots[s] \/ Backed(slots'[s])
    PROVE  Covered' /\ Faithful'
  <1>1. ASSUME NEW s \in Slot, slots'[s].status = "pending" PROVE Backed(slots[s])'
    <2>1. Backed(slots'[s]) => Backed(slots[s])'
      BY DEF Backed
    <2>2. CASE slots'[s] = slots[s]
      <3>1. Backed(slots[s])
        BY <1>1, <2>2 DEF MoneyInv, Covered
      <3>2. QED
        BY <3>1, <2>2 DEF Backed
    <2>3. QED
      BY <1>1, <2>1, <2>2
  <1>2. QED
    BY <1>1 DEF Covered, Faithful

LEMMA MoneyIdle ==
    ASSUME MoneyInv, SomeInit \/ SomeSubmit \/ SomeCancel \/ Tick \/ Abort
    PROVE  Covered' /\ Faithful'
  <1>1. slots \in [Slot -> Order]
    BY DEF MoneyInv, IndInv, TypeOK
  <1>2. CASE SomeInit
    <2>1. PICK s \in Slot : InitPendingOrderSlot(s)
      BY <1>2 DEF SomeInit
    <2>2. phase' = "idle" /\ slots' = [slots EXCEPT ![s] = NoOrder("empty")]
      BY <2>1 DEF InitPendingOrderSlot, locals
    <2>3. QED
      BY <1>1, <2>2, MoneyOutside DEF NoOrder
  <1>3. CASE SomeCancel
    <2>1. PICK s \in Slot : CancelOrder(s)
      BY <1>3 DEF SomeCancel
    <2>2. /\ phase' = "idle"
          /\ slots' = [slots EXCEPT ![s] = Wiped(slots[s], "cancelled", slots[s].filled)]
      BY <2>1 DEF CancelOrder, locals
    <2>3. QED
      BY <1>1, <2>2, MoneyOutside DEF Wiped
  <1>4. CASE SomeSubmit
    <2>1. PICK s \in Slot, o \in OrderId, sh \in OrderShape, expiry \in Expiry :
             \E n \in Nameable(s, sh) : SubmitOrder(s, o, n, sh, expiry)
      BY <1>4 DEF SomeSubmit
    <2>2. phase' = "idle" /\ \A t \in Slot : t # s => slots'[t] = slots[t]
      BY <1>1, <2>1 DEF SubmitOrder, locals
    <2>3. /\ slots'[s].side = sh.side /\ slots'[s].price = sh.price
          /\ slots'[s].amount = sh.amount /\ slots'[s].noteAmount = sh.noteAmount
      BY <1>1, <2>1 DEF SubmitOrder
    <2>4. /\ sh.side \in Side /\ sh.noteAmount \in Nat /\ sh.amount \in Nat /\ sh.price \in Nat
      BY EngineAssumption DEF Shape
    <2>5. sh.price > 0 /\ Required(sh.side, sh.amount, sh.price) <= sh.noteAmount
      BY <2>1 DEF SubmitOrder
    <2>6. Backed(slots'[s])
      <3>1. sh.amount * sh.price \in Nat
        BY <2>4
      <3>2. QED
        BY <3>1, <2>3, <2>4, <2>5 DEF Backed, Required
    <2>7. QED
      BY <2>2, <2>6, MoneyOutside
  <1>5. CASE Tick
    <2>1. phase' = "idle" /\ slots' = slots
      BY <1>5 DEF Tick, locals, accounts
    <2>2. QED
      BY <2>1, MoneyOutside
  <1>6. CASE Abort
    <2>1. phase' = "idle" /\ slots' = slots
      BY <1>6 DEF Abort, Reset, accounts
    <2>2. QED
      BY <2>1, MoneyOutside
  <1>7. QED
    BY <1>2, <1>3, <1>4, <1>5, <1>6

LEMMA MoneyBegin ==
    ASSUME MoneyInv, SomeBatch
    PROVE  Covered' /\ Faithful'
  <1>1. PICK S \in SUBSET Pending(Slot), rate \in FeeRate, owner \in FeeOwner,
             twap \in OraclePrice : BeginBatch(S, rate, owner, twap)
    BY DEF SomeBatch
  <1>2. slots' = slots
    BY <1>1 DEF BeginBatch, accounts
  <1>3. env'.rate \in FeeRate
    BY <1>1 DEF BeginBatch
  <1>4. ASSUME NEW s \in Slot, InBook(s)'
        PROVE  slots[s].status = "pending" /\ snap'[s] = slots[s]
    BY <1>1, <1>4, BeginSnap DEF MoneyInv
  <1>5. Covered'
    BY <1>2, <1>4 DEF MoneyInv, Covered, Backed
  <1>6. Faithful'
    BY <1>2, <1>3, <1>4 DEF Faithful
  <1>7. QED
    BY <1>5, <1>6

\* A turn of the loop changes the snapshots of orders in the book only, to
\* covered ones of the same side and price.
LEMMA MoneyLoop ==
    ASSUME MoneyInv, phase # "idle", UNCHANGED <<slots, env, bids, asks>>,
           \A s \in Slot : InBook(s) => \/ snap'[s] = snap[s]
                                        \/ /\ Backed(snap'[s])
                                           /\ snap'[s].side = snap[s].side
                                           /\ snap'[s].price = snap[s].price
    PROVE  Covered' /\ Faithful'
  <1>1. \A s \in Slot : InBook(s)' <=> InBook(s)
    BY DEF InBook
  <1>2. Faithful'
    BY <1>1 DEF MoneyInv, Faithful
  <1>3. ASSUME NEW s \in Slot, slots[s].status = "pending" PROVE Backed(slots[s])'
    BY <1>3 DEF MoneyInv, Covered, Backed
  <1>4. ASSUME NEW s \in Slot, InBook(s) PROVE Backed(snap[s])'
    <2>1. Backed(snap[s])
      BY <1>4 DEF MoneyInv, Covered
    <2>2. CASE snap'[s] = snap[s]
      BY <2>1, <2>2 DEF Backed
    <2>3. CASE Backed(snap'[s])
      BY <2>3 DEF Backed
    <2>4. QED
      BY <1>4, <2>2, <2>3
  <1>5. Covered'
    BY <1>1, <1>3, <1>4 DEF Covered
  <1>6. QED
    BY <1>2, <1>5

LEMMA MoneyStep ==
    ASSUME NoFees, MoneyInv,
           SkipLimits \/ KillBid \/ KillAsk \/ SkipMinFill \/ Match \/ EndLoop
    PROVE  Covered' /\ Faithful'
  <1>1. TypeOK /\ InBatch /\ phase = "match"
    BY DEF MoneyInv, IndInv, BatchBooks, SkipLimits, KillBid, KillAsk, SkipMinFill, Match,
           Matches, EndLoop, InLoop
  <1>2. snap \in [Slot -> Order]
    BY <1>1 DEF TypeOK
  <1>3. CASE SkipLimits \/ SkipMinFill \/ EndLoop
    <2>1. UNCHANGED <<slots, env, bids, asks, snap>>
      BY <1>3 DEF SkipLimits, SkipMinFill, EndLoop, accounts
    <2>2. QED
      BY <1>1, <2>1, MoneyLoop
  <1>4. CASE KillBid
    <2>1. InLoop /\ UNCHANGED <<slots, env, bids, asks>>
          /\ snap' = [snap EXCEPT ![bids[bi]] = Killed(Bid)]
      BY <1>4 DEF KillBid, accounts
    <2>2. bids[bi] \in Slot /\ Bid \in Order /\ InBook(bids[bi]) /\ Bid = snap[bids[bi]]
      BY <1>1, <2>1, Heads, OpenHeads DEF Bid
    <2>3. Backed(Bid)
      BY <1>1, <2>2 DEF MoneyInv, Covered
    <2>4. /\ Killed(Bid).side = Bid.side /\ Killed(Bid).price = Bid.price
          /\ Backed(Killed(Bid))
      BY <2>2, <2>3, KilledKeeps
    <2>5. QED
      BY <1>1, <1>2, <2>1, <2>2, <2>4, MoneyLoop
  <1>5. CASE KillAsk
    <2>1. InLoop /\ UNCHANGED <<slots, env, bids, asks>>
          /\ snap' = [snap EXCEPT ![asks[ai]] = Killed(Ask)]
      BY <1>5 DEF KillAsk, accounts
    <2>2. asks[ai] \in Slot /\ Ask \in Order /\ InBook(asks[ai]) /\ Ask = snap[asks[ai]]
      BY <1>1, <2>1, Heads, OpenHeads DEF Ask
    <2>3. Backed(Ask)
      BY <1>1, <2>2 DEF MoneyInv, Covered
    <2>4. /\ Killed(Ask).side = Ask.side /\ Killed(Ask).price = Ask.price
          /\ Backed(Killed(Ask))
      BY <2>2, <2>3, KilledKeeps
    <2>5. QED
      BY <1>1, <1>2, <2>1, <2>2, <2>4, MoneyLoop
  <1>6. CASE Match
    <2> DEFINE rb == Rest(Bid, BuyerChange, NoteE)
               ra == Rest(Ask, SellerChange, NoteF)
    <2>1. InLoop /\ Crossing /\ UNCHANGED <<slots, env, bids, asks>>
          /\ snap' = [snap EXCEPT ![bids[bi]] = rb, ![asks[ai]] = ra]
      BY <1>6 DEF Match, Matches, accounts
    <2>2. /\ bids[bi] \in Slot /\ asks[ai] \in Slot /\ Bid \in Order /\ Ask \in Order
          /\ Bid = snap[bids[bi]] /\ Ask = snap[asks[ai]]
      BY <1>1, <2>1, Heads DEF Bid, Ask
    <2>3. Backed(rb) /\ Backed(ra)
      BY <2>1, RestBacked
    <2>4. /\ rb.side = Bid.side /\ rb.price = Bid.price
          /\ ra.side = Ask.side /\ ra.price = Ask.price
      BY <2>2, RestKeeps
    <2> HIDE DEF rb, ra
    <2>5. \A s \in Slot : \/ snap'[s] = snap[s]
                          \/ snap'[s] = rb /\ s = bids[bi]
                          \/ snap'[s] = ra /\ s = asks[ai]
      BY <1>2, <2>1, <2>2
    <2>6. QED
      BY <1>1, <2>1, <2>2, <2>3, <2>4, <2>5, MoneyLoop
  <1>7. QED
    BY <1>3, <1>4, <1>5, <1>6

\* What apply_slot_updates leaves resting is covered.
LEMMA AppliedBacked ==
    ASSUME NEW o \in Order, NEW r \in Order, Backed(o), Backed(r),
           r.side = o.side, r.price = o.price, Applied(o, r).status = "pending"
    PROVE  Backed(Applied(o, r))
  <1>1. CASE r.type = "killed"
    BY <1>1 DEF Applied, Dropped
  <1>2. CASE r.type # "killed" /\ r.amount = 0
    BY <1>2 DEF Applied, Wiped
  <1>3. CASE r.type # "killed" /\ r.amount # 0 /\ r.amount < o.amount /\ r.type = "ioc"
    BY <1>3 DEF Applied, Dropped
  <1>4. CASE r.type # "killed" /\ r.amount # 0 /\ r.amount < o.amount /\ r.type # "ioc"
    <2>1. /\ Applied(o, r).side = r.side /\ Applied(o, r).price = r.price
          /\ Applied(o, r).amount = r.amount /\ Applied(o, r).noteAmount = r.noteAmount
      BY <1>4 DEF Applied, Order
    <2>2. QED
      BY <2>1 DEF Backed
  <1>5. CASE r.type # "killed" /\ r.amount # 0 /\ ~(r.amount < o.amount)
    BY <1>5 DEF Applied
  <1>6. QED
    BY <1>1, <1>2, <1>3, <1>4, <1>5

LEMMA MoneyPublish ==
    ASSUME MoneyInv, Publish
    PROVE  Covered' /\ Faithful'
  <1>1. TypeOK /\ InBatch /\ phase # "idle" /\ phase' = "idle"
    BY DEF MoneyInv, IndInv, BatchBooks, Publish, Reset
  <1>2. slots \in [Slot -> Order] /\ snap \in [Slot -> Order]
    BY <1>1 DEF TypeOK
  <1>3. slots' = [s \in Slot |-> IF InBook(s) THEN Applied(slots[s], snap[s]) ELSE snap[s]]
    BY DEF Publish
  <1>4. ASSUME NEW s \in Slot, slots'[s].status = "pending"
        PROVE  slots'[s] = slots[s] \/ Backed(slots'[s])
    <2>1. CASE InBook(s)
      <3>1. slots[s].status = "pending"
        BY <1>1, <2>1 DEF InBatch, Lists, InBook
      <3>2. /\ Backed(slots[s]) /\ Backed(snap[s])
            /\ snap[s].side = slots[s].side /\ snap[s].price = slots[s].price
        BY <1>1, <2>1, <3>1 DEF MoneyInv, Covered, Faithful
      <3>3. slots'[s] = Applied(slots[s], snap[s])
        BY <1>3, <2>1
      <3>4. QED
        BY <1>2, <1>4, <3>2, <3>3, AppliedBacked
    <2>2. CASE ~InBook(s)
      <3>1. slots'[s] = snap[s]
        BY <1>3, <2>2
      <3>2. SnapSound(s)
        BY <1>1 DEF InBatch
      <3>3. CASE snap[s] = slots[s]
        BY <3>1, <3>3
      <3>4. CASE snap[s] = Dropped(slots[s], "expired", slots[s].filled, slots[s].noteAmount)
        BY <1>4, <3>1, <3>4 DEF Dropped
      <3>5. QED
        BY <2>2, <3>2, <3>3, <3>4 DEF SnapSound
    <2>3. QED
      BY <2>1, <2>2
  <1>5. QED
    BY <1>1, <1>4, MoneyOutside

LEMMA MoneyStutter ==
    ASSUME MoneyInv, UNCHANGED vars
    PROVE  Covered' /\ Faithful'
  <1>1. UNCHANGED <<slots, env, bids, asks, snap, phase>>
    BY DEF vars, accounts, locals
  <1>2. CASE phase = "idle"
    BY <1>1, <1>2, MoneyOutside
  <1>3. CASE phase # "idle"
    BY <1>1, <1>3, MoneyLoop
  <1>4. QED
    BY <1>2, <1>3

LEMMA MoneyInvariance ==
    ASSUME NoFees
    PROVE  Spec => []MoneyInv
  <1>1. Init => MoneyInv
    BY InitOK, MoneyInit DEF MoneyInv
  <1>2. ASSUME MoneyInv, [Next]_vars PROVE MoneyInv'
    <2>1. IndInv'
      BY <1>2, Inductive DEF MoneyInv
    <2>2. Covered' /\ Faithful'
      <3>1. CASE SomeInit \/ SomeSubmit \/ SomeCancel \/ Tick
        BY <1>2, <3>1, MoneyIdle
      <3>2. CASE SomeBatch
        BY <1>2, <3>2, MoneyBegin
      <3>3. CASE BatchStep
        BY <1>2, <3>3, MoneyIdle, MoneyStep, MoneyPublish DEF BatchStep
      <3>4. CASE UNCHANGED vars
        BY <1>2, <3>4, MoneyStutter
      <3>5. QED
        BY <1>2, <3>1, <3>2, <3>3, <3>4 DEF Next
    <2>3. QED
      BY <2>1, <2>2 DEF MoneyInv
  <1>3. QED
    BY <1>1, <1>2, PTL DEF Spec

(***************************************************************************)
(* In a market without fees the collateral that run_batch carries from     *)
(* match to match always covers what is left of its order.                 *)
(***************************************************************************)
THEOREM CoveredCorrect ==
    ASSUME NoFees
    PROVE  Spec => []Covered
  BY MoneyInvariance, PTL DEF MoneyInv

(***************************************************************************)
(* In a market without fees the checked subtractions of generate_matches   *)
(* never fail: no order that submit_order accepted can abort a batch, IOC  *)
(* and FOK orders included.                                                *)
(***************************************************************************)
THEOREM FundedCorrect ==
    ASSUME NoFees
    PROVE  Spec => []Funded
  <1>1. MoneyInv => Funded
    BY ChargeCovered DEF Funded, Matches
  <1>2. QED
    BY <1>1, MoneyInvariance, PTL

-----------------------------------------------------------------------------
(***************************************************************************)
(* Notes are consumed once unless clients named them again.  A note that   *)
(* backs an order or was consumed was named by a submission or is the      *)
(* change of an earlier match.  So a note that is named is new, or named   *)
(* again, or a change note; the change notes of the next match are new, or *)
(* foreseen by a submission and thereby excused; and an order that goes on *)
(* after a match has moved to its change.                                  *)
(***************************************************************************)
NoIoc == \A sh \in OrderShape : sh.type # "ioc"

Known(n, k) ==
    \/ n \in intake.named
    \/ n.nonce[2] = "change" /\ n.nonce[1] < k

SlotNotes ==
    \A s \in Slot : /\ slots[s].type # "ioc"
                    /\ slots[s].status = "pending" => Known(slots[s].note, nextMatchId)

LogNotes == \A n \in Inputs(log) : Known(n, nextMatchId)

ChangeExcused == \A n \in intake.named : n.nonce[2] = "change" => n \in intake.renamed

BatchNotes ==
    /\ OnceIn(log \o out, intake.renamed) /\ Unspent(snap, log \o out, intake.renamed)
    /\ \A n \in Inputs(log \o out) : Known(n, MatchIdNow)
    /\ \A s \in Slot : InBook(s) =>
          /\ Known(snap[s].note, MatchIdNow)
          /\ snap[s].status = "pending" /\ snap[s].type # "ioc"
          /\ gained[s] = 0 => snap[s].note = slots[s].note

OnceInv ==
    /\ MoneyInv /\ NoteOnce /\ SlotNotes /\ LogNotes /\ ChangeExcused
    /\ phase # "idle" => BatchNotes

-----------------------------------------------------------------------------

\* Fewer backed orders with the same notes.
LEMMA Transfer ==
    ASSUME NEW f, NEW g, NEW q, NEW U, Unspent(f, q, U),
           \A s \in Backing(g) : s \in Backing(f) /\ g[s].note = f[s].note
    PROVE  Unspent(g, q, U)
  BY DEF Unspent, Backing

\* A match appended to those before it.
LEMMA OnceMore ==
    ASSUME NEW q \in Seq(MatchRecord), NEW m \in MatchRecord, NEW U, OnceIn(q, U),
           m.buyer \in Inputs(q) => m.buyer \in U,
           m.seller \in Inputs(q) => m.seller \in U,
           m.buyer = m.seller => m.buyer \in U
    PROVE  /\ OnceIn(Append(q, m), U)
           /\ Inputs(Append(q, m)) = Inputs(q) \cup {m.buyer, m.seller}
  <1> DEFINE r == Append(q, m)
  <1>1. /\ Len(q) \in Nat /\ Len(r) = Len(q) + 1
        /\ \A i \in 1 .. Len(q) : r[i] = q[i]
        /\ r[Len(q) + 1] = m
    BY AppendProperties, LenProperties
  <1> HIDE DEF r
  <1>2. \A i \in 1 .. Len(r) : \/ i \in 1 .. Len(q) /\ r[i] = q[i]
                               \/ i = Len(q) + 1 /\ r[i] = m
    BY <1>1
  <1>3. \A i \in 1 .. Len(q) : q[i].buyer \in Inputs(q) /\ q[i].seller \in Inputs(q)
    BY DEF Inputs
  <1>4. OnceIn(r, U)
    <2>1. ASSUME NEW i \in 1 .. Len(r), NEW j \in 1 .. Len(r)
          PROVE  /\ i # j => /\ r[i].buyer = r[j].buyer => r[i].buyer \in U
                             /\ r[i].seller = r[j].seller => r[i].seller \in U
                 /\ r[i].buyer = r[j].seller => r[i].buyer \in U
      <3>1. CASE i \in 1 .. Len(q) /\ j \in 1 .. Len(q)
        BY <3>1, <1>1 DEF OnceIn
      <3>2. CASE i \in 1 .. Len(q) /\ j = Len(q) + 1
        BY <3>2, <1>1, <1>3
      <3>3. CASE i = Len(q) + 1 /\ j \in 1 .. Len(q)
        BY <3>3, <1>1, <1>3
      <3>4. CASE i = Len(q) + 1 /\ j = Len(q) + 1
        BY <3>4, <1>1
      <3>5. QED
        BY <1>2, <3>1, <3>2, <3>3, <3>4
    <2>2. QED
      BY <2>1 DEF OnceIn
  <1>5. Inputs(r) = Inputs(q) \cup {m.buyer, m.seller}
    <2>1. Inputs(r) \subseteq Inputs(q) \cup {m.buyer, m.seller}
      BY <1>2, <1>3 DEF Inputs
    <2>2. \A i \in 1 .. Len(q) : i \in 1 .. Len(r) /\ r[i] = q[i]
      BY <1>1
    <2>3. Inputs(q) \subseteq Inputs(r)
      BY <2>2 DEF Inputs
    <2>4. Len(q) + 1 \in 1 .. Len(r)
      BY <1>1
    <2>5. {m.buyer, m.seller} \subseteq Inputs(r)
      BY <1>1, <2>4 DEF Inputs
    <2>6. QED
      BY <2>1, <2>3, <2>5
  <1>6. QED
    BY <1>4, <1>5 DEF r

LEMMA AppendAfter ==
    ASSUME NEW p \in Seq(MatchRecord), NEW q \in Seq(MatchRecord), NEW m \in MatchRecord
    PROVE  p \o Append(q, m) = Append(p \o q, m)
  <1>1. <<m>> \in Seq(MatchRecord)
    OBVIOUS
  <1>2. Append(q, m) = q \o <<m>> /\ p \o q \in Seq(MatchRecord)
    BY AppendIsConcat, ConcatProperties
  <1>3. Append(p \o q, m) = (p \o q) \o <<m>>
    BY <1>2, AppendIsConcat
  <1>4. (p \o q) \o <<m>> = p \o (q \o <<m>>)
    BY <1>1, ConcatAssociative
  <1>5. QED
    BY <1>2, <1>3, <1>4

LEMMA OnceInit == Init => NoteOnce /\ SlotNotes /\ LogNotes /\ ChangeExcused
  <1> SUFFICES ASSUME Init PROVE NoteOnce /\ SlotNotes /\ LogNotes /\ ChangeExcused
    OBVIOUS
  <1>1. /\ \A s \in Slot : slots[s] = NoOrder("absent")
        /\ log = <<>> /\ intake.named = {}
    BY DEF Init
  <1>2. SlotNotes
    BY <1>1 DEF SlotNotes, NoOrder
  <1>3. Backing(slots) = {}
    BY <1>1 DEF Backing, NoOrder
  <1>4. Inputs(log) = {} /\ OnceIn(log, intake.renamed)
    BY <1>1 DEF Inputs, OnceIn
  <1>5. QED
    BY <1>1, <1>2, <1>3, <1>4 DEF NoteOnce, Unspent, LogNotes, ChangeExcused

\* A step that ends outside a batch and publishes nothing.
LEMMA OnceOutside ==
    ASSUME OnceInv, UNCHANGED <<log, nextMatchId, intake>>, phase' = "idle",
           \A s \in Slot : slots'[s].type \in {slots[s].type, "limit"},
           \A s \in Slot : slots'[s].status = "pending" => slots'[s] = slots[s]
    PROVE  NoteOnce' /\ SlotNotes' /\ LogNotes' /\ (phase' # "idle" => BatchNotes')
  <1>1. \A s \in Backing(slots') : s \in Backing(slots) /\ slots'[s].note = slots[s].note
    BY DEF Backing
  <1>2. Unspent(slots', log, intake.renamed)
    BY <1>1, Transfer DEF OnceInv, NoteOnce
  <1>3. NoteOnce'
    BY <1>2 DEF OnceInv, NoteOnce, OnceIn, Unspent, Backing, Inputs
  <1>4. SlotNotes' /\ LogNotes'
    BY DEF OnceInv, SlotNotes, LogNotes, Known, Inputs
  <1>5. QED
    BY <1>3, <1>4

LEMMA OnceIdle ==
    ASSUME OnceInv, SomeInit \/ SomeCancel \/ Tick \/ Abort
    PROVE  NoteOnce' /\ SlotNotes' /\ LogNotes' /\ (phase' # "idle" => BatchNotes')
  <1>1. slots \in [Slot -> Order]
    BY DEF OnceInv, MoneyInv, IndInv, TypeOK
  <1>2. CASE SomeInit
    <2>1. PICK s \in Slot : InitPendingOrderSlot(s)
      BY <1>2 DEF SomeInit
    <2>2. /\ phase' = "idle" /\ slots' = [slots EXCEPT ![s] = NoOrder("empty")]
          /\ UNCHANGED <<log, nextMatchId, intake>>
      BY <2>1 DEF InitPendingOrderSlot, locals
    <2>3. QED
      BY <1>1, <2>2, OnceOutside DEF NoOrder
  <1>3. CASE SomeCancel
    <2>1. PICK s \in Slot : CancelOrder(s)
      BY <1>3 DEF SomeCancel
    <2>2. /\ phase' = "idle"
          /\ slots' = [slots EXCEPT ![s] = Wiped(slots[s], "cancelled", slots[s].filled)]
          /\ UNCHANGED <<log, nextMatchId, intake>>
      BY <2>1 DEF CancelOrder, locals
    <2>3. QED
      BY <1>1, <2>2, OnceOutside DEF Wiped
  <1>4. CASE Tick
    <2>1. phase' = "idle" /\ slots' = slots /\ UNCHANGED <<log, nextMatchId, intake>>
      BY <1>4 DEF Tick, locals, accounts
    <2>2. QED
      BY <2>1, OnceOutside
  <1>5. CASE Abort
    <2>1. phase' = "idle" /\ slots' = slots /\ UNCHANGED <<log, nextMatchId, intake>>
      BY <1>5 DEF Abort, Reset, accounts
    <2>2. QED
      BY <2>1, OnceOutside
  <1>6. QED
    BY <1>2, <1>3, <1>4, <1>5

\* A note that is named and known already is excused from then on.
LEMMA OnceSubmit ==
    ASSUME NoIoc, OnceInv, SomeSubmit
    PROVE  /\ NoteOnce' /\ SlotNotes' /\ LogNotes' /\ ChangeExcused'
           /\ phase' # "idle" => BatchNotes'
  <1>1. slots \in [Slot -> Order]
    BY DEF OnceInv, MoneyInv, IndInv, TypeOK
  <1>a. PICK s \in Slot, o \in OrderId, sh \in OrderShape, expiry \in Expiry :
           \E n \in Nameable(s, sh) : SubmitOrder(s, o, n, sh, expiry)
    BY DEF SomeSubmit
  <1>2. PICK new \in Nameable(s, sh) : SubmitOrder(s, o, new, sh, expiry)
    BY <1>a
  <1>3. /\ phase' = "idle"
        /\ UNCHANGED <<log, nextMatchId>>
        /\ \A t \in Slot : t # s => slots'[t] = slots[t]
    BY <1>1, <1>2 DEF SubmitOrder, locals
  <1>4. slots'[s].note = new /\ slots'[s].type = sh.type
    BY <1>1, <1>2 DEF SubmitOrder
  <1>5. /\ intake'.named = intake.named \cup {new}
        /\ intake.renamed \subseteq intake'.renamed
        /\ new \in intake.named \/ new.nonce[2] = "change" => new \in intake'.renamed
        /\ \A n \in intake'.renamed : n \in intake.renamed \/ n = new
    BY <1>2 DEF SubmitOrder, Naming
  <1>6. \A n, k : Known(n, k) => Known(n, k)' /\ (n = new => new \in intake'.renamed)
    BY <1>5 DEF Known
  <1>7. Known(new, nextMatchId)'
    BY <1>5 DEF Known
  <1>8. SlotNotes'
    <2>1. sh.type # "ioc"
      BY DEF NoIoc
    <2>2. ASSUME NEW t \in Slot
          PROVE  /\ slots'[t].type # "ioc"
                 /\ slots'[t].status = "pending" => Known(slots[t].note, nextMatchId)'
      <3>1. CASE t = s
        BY <3>1, <2>1, <1>3, <1>4, <1>7 DEF Known
      <3>2. CASE t # s
        BY <3>2, <1>3, <1>6 DEF OnceInv, SlotNotes, Known
      <3>3. QED
        BY <3>1, <3>2
    <2>3. QED
      BY <2>2 DEF SlotNotes
  <1>9. LogNotes'
    BY <1>3, <1>6 DEF OnceInv, LogNotes, Known, Inputs
  <1>10. new \in Inputs(log) => new \in intake'.renamed
    BY <1>6 DEF OnceInv, LogNotes
  <1>11. \A t \in Backing(slots) : slots[t].note = new => new \in intake'.renamed
    BY <1>6 DEF OnceInv, SlotNotes, Backing
  <1>12. \A t \in Backing(slots') : \/ t = s /\ slots'[t].note = new
                                    \/ t # s /\ t \in Backing(slots) /\ slots'[t].note = slots[t].note
    BY <1>3, <1>4 DEF Backing
  <1>13. Unspent(slots', log, intake'.renamed)
    BY <1>5, <1>10, <1>11, <1>12 DEF OnceInv, NoteOnce, Unspent
  <1>14. OnceIn(log, intake'.renamed)
    BY <1>5 DEF OnceInv, NoteOnce, OnceIn
  <1>15. NoteOnce'
    BY <1>3, <1>13, <1>14 DEF NoteOnce
  <1>16. ChangeExcused'
    BY <1>5 DEF OnceInv, ChangeExcused
  <1>17. QED
    BY <1>3, <1>8, <1>9, <1>15, <1>16

LEMMA OnceBegin ==
    ASSUME OnceInv, SomeBatch
    PROVE  NoteOnce' /\ SlotNotes' /\ LogNotes' /\ BatchNotes'
  <1>1. PICK S \in SUBSET Pending(Slot), rate \in FeeRate, owner \in FeeOwner,
             twap \in OraclePrice : BeginBatch(S, rate, owner, twap)
    BY DEF SomeBatch
  <1>2. IndInv
    BY DEF OnceInv, MoneyInv
  <1>3. out = <<>> /\ nextMatchId \in Nat /\ log \in Seq(MatchRecord)
    BY <1>1, <1>2 DEF BeginBatch, IndInv, BatchBooks, Idle, TypeOK
  <1>4. UNCHANGED <<slots, nextMatchId, log, intake, out, gained>>
    BY <1>1 DEF BeginBatch, accounts
  <1>5. log \o out = log /\ MatchIdNow = nextMatchId
    <2>1. Len(<<>>) = 0
      BY EmptySeq
    <2>2. QED
      BY <1>3, <2>1, ConcatEmptySeq DEF MatchIdNow
  <1>6. log' \o out' = log /\ MatchIdNow' = nextMatchId
    BY <1>4, <1>5 DEF MatchIdNow
  <1>7. ASSUME NEW s \in Slot, InBook(s)'
        PROVE  slots[s].status = "pending" /\ snap'[s] = slots[s]
    BY <1>1, <1>2, <1>7, BeginSnap
  <1>8. \A s \in Slot : snap'[s] \in {slots[s], Dropped(slots[s], "expired", slots[s].filled,
                                                        slots[s].noteAmount)}
    BY <1>1 DEF BeginBatch
  <1>9. \A s \in Backing(snap') : s \in Backing(slots) /\ snap'[s].note = slots[s].note
    BY <1>8 DEF Backing, Dropped
  <1>10. Unspent(snap', log, intake.renamed)
    BY <1>9, Transfer DEF OnceInv, NoteOnce
  <1>11. NoteOnce' /\ SlotNotes' /\ LogNotes'
    BY <1>4 DEF OnceInv, NoteOnce, OnceIn, Unspent, Backing, Inputs, SlotNotes, LogNotes, Known
  <1>12. \A s \in Slot : InBook(s)' => /\ Known(snap[s].note, MatchIdNow)'
                                       /\ snap'[s].status = "pending" /\ snap'[s].type # "ioc"
                                       /\ snap'[s].note = slots'[s].note
    BY <1>4, <1>6, <1>7 DEF OnceInv, SlotNotes, Known
  <1>13. OnceIn(log, intake.renamed)' /\ \A n \in Inputs(log') : Known(n, nextMatchId)'
    BY <1>11 DEF NoteOnce, LogNotes
  <1>14. QED
    BY <1>4, <1>6, <1>10, <1>11, <1>12, <1>13 DEF BatchNotes

\* A turn of the loop without a match: notes stay, orders may drop out.
LEMMA OnceTurn ==
    ASSUME OnceInv, phase # "idle",
           UNCHANGED <<slots, nextMatchId, log, intake, out, bids, asks, gained>>,
           snap' \in [Slot -> Order],
           \A s \in Slot : /\ snap'[s].note = snap[s].note
                           /\ snap'[s].status = snap[s].status
                           /\ snap'[s].type \in {snap[s].type, "killed"}
                           /\ snap'[s].amount \in {snap[s].amount, 0}
    PROVE  NoteOnce' /\ SlotNotes' /\ LogNotes' /\ BatchNotes'
  <1>1. NoteOnce' /\ SlotNotes' /\ LogNotes'
    BY DEF OnceInv, NoteOnce, OnceIn, Unspent, Backing, Inputs, SlotNotes, LogNotes, Known
  <1>2. BatchNotes
    BY DEF OnceInv
  <1>3. log' \o out' = log \o out /\ MatchIdNow' = MatchIdNow
    BY DEF MatchIdNow
  <1>4. \A s \in Backing(snap') : s \in Backing(snap) /\ snap'[s].note = snap[s].note
    BY DEF Backing
  <1>5. Unspent(snap', log \o out, intake.renamed)
    BY <1>2, <1>4, Transfer DEF BatchNotes
  <1>6. \A n : Known(n, MatchIdNow) => Known(n, MatchIdNow)'
    BY <1>3 DEF Known
  <1>7. \A s \in Slot : InBook(s)' => /\ Known(snap[s].note, MatchIdNow)'
                                      /\ snap'[s].status = "pending" /\ snap'[s].type # "ioc"
                                      /\ gained'[s] = 0 => snap'[s].note = slots'[s].note
    <2>1. \A s \in Slot : InBook(s)' => InBook(s)
      BY DEF InBook
    <2>2. QED
      BY <1>2, <1>3, <2>1 DEF BatchNotes, Known
  <1>8. OnceIn(log \o out, intake.renamed)' /\ \A n \in Inputs(log \o out)' : Known(n, MatchIdNow)'
    BY <1>2, <1>3, <1>6 DEF BatchNotes
  <1>9. QED
    BY <1>1, <1>3, <1>5, <1>7, <1>8 DEF BatchNotes

LEMMA KilledNote ==
    ASSUME NEW o \in Order
    PROVE  /\ Killed(o).note = o.note /\ Killed(o).status = o.status
           /\ Killed(o).type = "killed" /\ Killed(o).amount = 0
  BY DEF Killed, Order

LEMMA OnceSkip ==
    ASSUME OnceInv, SkipLimits \/ KillBid \/ KillAsk \/ SkipMinFill \/ EndLoop
    PROVE  NoteOnce' /\ SlotNotes' /\ LogNotes' /\ BatchNotes'
  <1>1. TypeOK /\ InBatch /\ phase # "idle"
    BY DEF OnceInv, MoneyInv, IndInv, BatchBooks, SkipLimits, KillBid, KillAsk, SkipMinFill,
           EndLoop, InLoop
  <1>2. snap \in [Slot -> Order]
    BY <1>1 DEF TypeOK
  <1>3. UNCHANGED <<slots, nextMatchId, log, intake, out, bids, asks, gained>>
    BY DEF SkipLimits, KillBid, KillAsk, SkipMinFill, EndLoop, accounts
  <1>4. CASE SkipLimits \/ SkipMinFill \/ EndLoop
    <2>1. snap' = snap
      BY <1>4 DEF SkipLimits, SkipMinFill, EndLoop
    <2>2. QED
      BY <1>1, <1>2, <1>3, <2>1, OnceTurn
  <1>5. CASE KillBid
    <2>1. snap' = [snap EXCEPT ![bids[bi]] = Killed(snap[bids[bi]])] /\ InLoop
      BY <1>5 DEF KillBid, Bid
    <2>2. bids[bi] \in Slot /\ snap[bids[bi]] \in Order
      BY <1>1, <2>1, Heads DEF Bid
    <2>3. snap' \in [Slot -> Order]
      BY <1>2, <2>1, <2>2, KilledType
    <2>4. QED
      BY <1>1, <1>2, <1>3, <2>1, <2>2, <2>3, KilledNote, OnceTurn
  <1>6. CASE KillAsk
    <2>1. snap' = [snap EXCEPT ![asks[ai]] = Killed(snap[asks[ai]])] /\ InLoop
      BY <1>6 DEF KillAsk, Ask
    <2>2. asks[ai] \in Slot /\ snap[asks[ai]] \in Order
      BY <1>1, <2>1, Heads DEF Ask
    <2>3. snap' \in [Slot -> Order]
      BY <1>2, <2>1, <2>2, KilledType
    <2>4. QED
      BY <1>1, <1>2, <1>3, <2>1, <2>2, <2>3, KilledNote, OnceTurn
  <1>7. QED
    BY <1>4, <1>5, <1>6

\* Every order a batch still sees as backed names a known note.
LEMMA BackingKnown ==
    ASSUME OnceInv, phase # "idle", NEW s \in Backing(snap)
    PROVE  Known(snap[s].note, MatchIdNow)
  <1>1. TypeOK /\ InBatch
    BY DEF OnceInv, MoneyInv, IndInv, BatchBooks
  <1>2. CASE InBook(s)
    BY <1>2 DEF OnceInv, BatchNotes, Backing
  <1>3. CASE ~InBook(s)
    <2>1. SnapSound(s) /\ s \in Slot
      BY <1>1 DEF InBatch, Backing
    <2>2. snap[s] = slots[s] /\ slots[s].status = "pending"
      BY <1>3, <2>1 DEF SnapSound, Backing, Dropped
    <2>3. Known(snap[s].note, nextMatchId)
      BY <2>1, <2>2 DEF OnceInv, SlotNotes
    <2>4. nextMatchId <= MatchIdNow /\ nextMatchId \in Nat /\ MatchIdNow \in Nat
      <3>1. out \in Seq(MatchRecord) /\ nextMatchId \in Nat
        BY <1>1 DEF TypeOK
      <3>2. Len(out) \in Nat
        BY <3>1, LenProperties
      <3>3. QED
        BY <3>1, <3>2 DEF MatchIdNow
    <2>5. snap[s].note.nonce[2] = "change" => snap[s].note.nonce[1] \in Nat
      BY <1>1, <2>1, <2>2 DEF OnceInv, MoneyInv, IndInv, BatchBooks, SlotsSound, Note
    <2>6. QED
      BY <2>3, <2>4, <2>5 DEF Known
  <1>4. QED
    BY <1>2, <1>3

\* An order that a match leaves open moves on to its change note.
LEMMA RestRotates ==
    ASSUME NoFees, OnceInv, Match
    PROVE  LET rb == Rest(Bid, BuyerChange, NoteE)
               ra == Rest(Ask, SellerChange, NoteF)
           IN  /\ rb.amount > 0 =>
                     /\ rb.note.nonce = <<MatchIdNow, "change">> /\ rb.note.mint = Quote
               /\ ra.amount > 0 =>
                     /\ ra.note.nonce = <<MatchIdNow, "change">> /\ ra.note.mint = Base
  <1>1. /\ TypeOK /\ InBatch /\ InLoop /\ Crossing /\ MoneyInv /\ BatchNotes /\ Matches
    BY DEF OnceInv, MoneyInv, IndInv, BatchBooks, Match, Matches, InLoop
  <1>2. /\ Bid \in Order /\ Ask \in Order /\ bids[bi] \in Slot /\ asks[ai] \in Slot
        /\ InBook(bids[bi]) /\ InBook(asks[ai])
        /\ Bid.type # "killed" /\ Ask.type # "killed"
        /\ Crossable \in Nat
    BY <1>1, Heads, OpenHeads, CrossableFacts
  <1>3. Bid.type # "ioc" /\ Ask.type # "ioc"
    BY <1>1, <1>2 DEF BatchNotes, Bid, Ask
  <1>4. /\ Bid.amount \in Nat /\ Ask.amount \in Nat
        /\ Bid.type \in OrderType \cup {"killed"} /\ Ask.type \in OrderType \cup {"killed"}
    BY <1>2 DEF Order
  <1>5. ~KillsBid /\ ~KillsAsk
    BY <1>1 DEF Matches
  <1>6. ASSUME Crossable < Bid.amount
        PROVE  Relocks(Bid, BuyerChange) /\ NoteE.nonce = <<MatchIdNow, "change">>
                 /\ NoteE.mint = Quote
    <2>1. Bid.type = "limit"
      BY <1>2, <1>3, <1>4, <1>5, <1>6 DEF KillsBid, OrderType
    <2>2. BuyerChange > 0
      BY <1>1, <1>6, ChargeCovered
    <2>3. QED
      BY <1>2, <1>4, <1>6, <2>1, <2>2 DEF Relocks, NoteE, ChangeNote
  <1>7. ASSUME Crossable < Ask.amount
        PROVE  Relocks(Ask, SellerChange) /\ NoteF.nonce = <<MatchIdNow, "change">>
                 /\ NoteF.mint = Base
    <2>1. Ask.type = "limit"
      BY <1>2, <1>3, <1>4, <1>5, <1>7 DEF KillsAsk, OrderType
    <2>2. SellerChange > 0
      BY <1>1, <1>7, ChargeCovered
    <2>3. QED
      BY <1>2, <1>4, <1>7, <2>1, <2>2 DEF Relocks, NoteF, ChangeNote
  <1>8. ASSUME Rest(Bid, BuyerChange, NoteE).amount > 0
        PROVE  /\ Rest(Bid, BuyerChange, NoteE).note.nonce = <<MatchIdNow, "change">>
               /\ Rest(Bid, BuyerChange, NoteE).note.mint = Quote
    <2>1. Crossable < Bid.amount
      BY <1>2, <1>4, <1>8, RestKeeps
    <2>2. QED
      BY <2>1, <1>2, <1>6, RestKeeps
  <1>9. ASSUME Rest(Ask, SellerChange, NoteF).amount > 0
        PROVE  /\ Rest(Ask, SellerChange, NoteF).note.nonce = <<MatchIdNow, "change">>
               /\ Rest(Ask, SellerChange, NoteF).note.mint = Base
    <2>1. Crossable < Ask.amount
      BY <1>2, <1>4, <1>9, RestKeeps
    <2>2. QED
      BY <2>1, <1>2, <1>7, RestKeeps
  <1>10. QED
    BY <1>8, <1>9

LEMMA OnceMatch ==
    ASSUME NoFees, OnceInv, Match
    PROVE  NoteOnce' /\ SlotNotes' /\ LogNotes' /\ BatchNotes'
  <1> DEFINE q == log \o out
             m == MatchResult
             b == bids[bi]
             a == asks[ai]
             rb == Rest(Bid, BuyerChange, NoteE)
             ra == Rest(Ask, SellerChange, NoteF)
             k == MatchIdNow
  <1>1. /\ TypeOK /\ InBatch /\ InLoop /\ Affordable /\ BatchNotes /\ MoneyInv
        /\ phase # "idle"
    BY DEF OnceInv, MoneyInv, IndInv, BatchBooks, Match, Matches, InLoop
  <1>2. /\ snap \in [Slot -> Order] /\ gained \in [Slot -> Nat]
        /\ out \in Seq(MatchRecord) /\ log \in Seq(MatchRecord) /\ q \in Seq(MatchRecord)
    BY <1>1, ConcatProperties DEF TypeOK
  <1>3. /\ b \in Slot /\ a \in Slot /\ a # b /\ InBook(b) /\ InBook(a)
        /\ Bid \in Order /\ Ask \in Order /\ Bid = snap[b] /\ Ask = snap[a]
        /\ Bid.amount > 0 /\ Ask.amount > 0
        /\ Crossable \in Nat /\ Crossable > 0 /\ k \in Nat
    BY <1>1, Heads, OpenHeads, CrossableFacts, MatchAmounts DEF Bid, Ask
  <1>4. m \in MatchRecord /\ m.buyer = Bid.note /\ m.seller = Ask.note
    BY <1>1, MatchResultType DEF MatchResult
  <1>5. b \in Backing(snap) /\ a \in Backing(snap)
    BY <1>1, <1>3 DEF Backing, BatchNotes
  <1>6. /\ UNCHANGED <<slots, nextMatchId, log, intake, bids, asks>>
        /\ out' = Append(out, m)
        /\ snap' = [snap EXCEPT ![b] = rb, ![a] = ra]
        /\ gained' = [gained EXCEPT ![b] = @ + Crossable, ![a] = @ + Crossable]
    BY DEF Match, accounts
  <1>7. log' \o out' = Append(q, m)
    BY <1>2, <1>4, <1>6, AppendAfter
  <1>8. MatchIdNow' = k + 1
    <2>1. Len(Append(out, m)) = Len(out) + 1 /\ Len(out) \in Nat /\ nextMatchId \in Nat
      BY <1>1, <1>2, <1>4, AppendProperties, LenProperties DEF TypeOK
    <2>2. QED
      BY <2>1, <1>6 DEF MatchIdNow
  <1>9. /\ OnceIn(q, intake.renamed) /\ Unspent(snap, q, intake.renamed)
        /\ \A n \in Inputs(q) : Known(n, k)
    BY <1>1 DEF BatchNotes
  <1>10. \A s \in Backing(snap) : Known(snap[s].note, k)
    BY <1>1, BackingKnown
  <1>11. /\ rb.amount > 0 => rb.note.nonce = <<k, "change">> /\ rb.note.mint = Quote
         /\ ra.amount > 0 => ra.note.nonce = <<k, "change">> /\ ra.note.mint = Base
    BY RestRotates
  <1>12. /\ rb.status = Bid.status /\ rb.note \in {NoteE, Bid.note} /\ rb.type = Bid.type
         /\ ra.status = Ask.status /\ ra.note \in {NoteF, Ask.note} /\ ra.type = Ask.type
    BY <1>3, RestKeeps DEF Rest, Order
  <1> DEFINE Excused(n) == n \in intake.renamed
  <1>13. rb.amount > 0 /\ Known(rb.note, k) => Excused(rb.note)
    BY <1>3, <1>11 DEF Known, OnceInv, ChangeExcused
  <1>14. ra.amount > 0 /\ Known(ra.note, k) => Excused(ra.note)
    BY <1>3, <1>11 DEF Known, OnceInv, ChangeExcused
  <1>15. (rb.amount > 0) /\ (ra.amount > 0) => rb.note # ra.note
    BY <1>11, EngineAssumption
  <1>16. \A n : n.nonce[1] \in Nat /\ Known(n, k) => Known(n, k + 1)
    BY <1>3 DEF Known
  <1>17. rb.note \in Note /\ ra.note \in Note /\ Bid.note \in Note /\ Ask.note \in Note
    <2>1. BuyerChange \in Nat /\ SellerChange \in Nat
      BY <1>1, MatchAmounts
    <2>2. Bid.note \in Note /\ Ask.note \in Note
      BY <1>1, OpenHeads
    <2>3. Crossable <= Bid.amount /\ Crossable <= Ask.amount
      BY <1>1, CrossableFacts
    <2>4. rb.note \in Note
      BY <1>1, <1>3, <2>1, <2>2, <2>3, MatchNotes, RestFacts
    <2>5. ra.note \in Note
      BY <1>1, <1>3, <2>1, <2>2, <2>3, MatchNotes, RestFacts
    <2>6. QED
      BY <2>2, <2>4, <2>5
  <1>18. Known(rb.note, k + 1) /\ Known(ra.note, k + 1)
    <2>1. /\ Known(Bid.note, k) /\ Known(Ask.note, k)
          /\ Bid.note.nonce[1] \in Nat /\ Ask.note.nonce[1] \in Nat
      BY <1>3, <1>5, <1>10, <1>17 DEF Note
    <2>2. \A n : n.nonce = <<k, "change">> => Known(n, k + 1)
      BY <1>3 DEF Known
    <2>3. NoteE \in Note => NoteE.nonce = <<k, "change">>
      BY NoNoteAssumption DEF NoteE, ChangeNote
    <2>4. NoteF \in Note => NoteF.nonce = <<k, "change">>
      BY NoNoteAssumption DEF NoteF, ChangeNote
    <2>5. Known(rb.note, k + 1)
      BY <2>1, <2>2, <2>3, <1>12, <1>16, <1>17
    <2>6. Known(ra.note, k + 1)
      BY <2>1, <2>2, <2>4, <1>12, <1>16, <1>17
    <2>7. QED
      BY <2>5, <2>6
  <1> HIDE DEF q, m, b, a, rb, ra, k
  <1>19. /\ Bid.note \in Inputs(q) => Excused(Bid.note)
         /\ Ask.note \in Inputs(q) => Excused(Ask.note)
         /\ Bid.note = Ask.note => Excused(Bid.note)
    BY <1>3, <1>5, <1>9 DEF Unspent
  <1>20. /\ OnceIn(Append(q, m), intake.renamed)
         /\ Inputs(Append(q, m)) = Inputs(q) \cup {Bid.note, Ask.note}
    BY <1>2, <1>4, <1>9, <1>19, OnceMore
  <1>21. /\ snap'[b] = rb /\ snap'[a] = ra
         /\ \A s \in Slot : s # b /\ s # a => snap'[s] = snap[s] /\ gained'[s] = gained[s]
    BY <1>2, <1>3, <1>6
  <1>22. gained'[b] # 0 /\ gained'[a] # 0
    BY <1>2, <1>3, <1>6
  <1>23. Known(Bid.note, k) /\ Known(Ask.note, k)
    BY <1>3, <1>5, <1>10
  <1>24. Unspent(snap', Append(q, m), intake.renamed)
    <2>1. ASSUME NEW s \in Backing(snap'), ~Excused(snap'[s].note)
          PROVE  \/ s = b /\ snap'[s].note = rb.note /\ ~Known(rb.note, k) /\ rb.amount > 0
                 \/ s = a /\ snap'[s].note = ra.note /\ ~Known(ra.note, k) /\ ra.amount > 0
                 \/ /\ s # b /\ s # a /\ s \in Backing(snap)
                    /\ snap'[s].note = snap[s].note /\ Known(snap[s].note, k)
      <3>1. s \in Slot /\ snap'[s].amount > 0 /\ snap'[s].status = "pending"
        BY DEF Backing
      <3>2. CASE s = b
        BY <3>1, <3>2, <2>1, <1>13, <1>21
      <3>3. CASE s = a
        BY <3>1, <3>3, <2>1, <1>14, <1>21
      <3>4. CASE s # b /\ s # a
        <4>1. snap'[s] = snap[s] /\ s \in Backing(snap)
          BY <3>1, <3>4, <1>21 DEF Backing
        <4>2. QED
          BY <3>4, <4>1, <1>10
      <3>5. QED
        BY <3>2, <3>3, <3>4
    <2>2. ASSUME NEW s \in Backing(snap'), ~Excused(snap'[s].note)
          PROVE  snap'[s].note \notin Inputs(Append(q, m))
      <3>1. CASE ~Known(snap'[s].note, k)
        BY <3>1, <1>9, <1>20, <1>23
      <3>2. CASE Known(snap'[s].note, k)
        <4>1. s # b /\ s # a /\ s \in Backing(snap) /\ snap'[s].note = snap[s].note
          BY <2>1, <2>2, <3>2
        <4>2. snap[s].note \notin Inputs(q) /\ snap[s].note # snap[b].note
                /\ snap[s].note # snap[a].note
          BY <2>2, <4>1, <1>5, <1>9 DEF Unspent
        <4>3. QED
          BY <4>1, <4>2, <1>3, <1>20
      <3>3. QED
        BY <3>1, <3>2
    <2>3. ASSUME NEW s \in Backing(snap'), NEW t \in Backing(snap'), s # t,
                 ~Excused(snap'[s].note)
          PROVE  snap'[s].note # snap'[t].note
      <3>1. \A x, y \in Backing(snap) : x # y /\ snap[x].note = snap[y].note => Excused(snap[x].note)
        BY <1>9 DEF Unspent
      <3>2. SUFFICES ASSUME snap'[s].note = snap'[t].note PROVE FALSE
        OBVIOUS
      <3>3. ~Excused(snap'[t].note)
        BY <2>3, <3>2
      <3> HIDE DEF Excused
      <3>4. QED
        BY <2>1, <2>3, <3>1, <3>2, <3>3, <1>15
    <2>4. QED
      BY <2>2, <2>3 DEF Unspent
  <1>25. \A n \in Inputs(Append(q, m)) : Known(n, k + 1)
    <2>1. \A n \in Inputs(q) : n.nonce[1] \in Nat
      <3>1. \A i \in 1 .. Len(q) : q[i].buyer \in Note /\ q[i].seller \in Note
        <4>1. \A i \in 1 .. Len(q) : q[i] \in MatchRecord
          BY <1>2, ElementOfSeq
        <4>2. QED
          BY <4>1 DEF MatchRecord
      <3>2. QED
        BY <3>1 DEF Inputs, Note
    <2>2. Bid.note.nonce[1] \in Nat /\ Ask.note.nonce[1] \in Nat
      BY <1>17 DEF Note
    <2>3. QED
      BY <2>1, <2>2, <1>9, <1>16, <1>20, <1>23
  <1>26. ASSUME NEW s \in Slot, InBook(s)'
         PROVE  /\ Known(snap'[s].note, k + 1)
                /\ snap'[s].status = "pending" /\ snap'[s].type # "ioc"
                /\ gained'[s] = 0 => snap'[s].note = slots'[s].note
    <2>1. InBook(s)
      BY <1>6, <1>26 DEF InBook
    <2>2. /\ Known(snap[s].note, k) /\ snap[s].status = "pending" /\ snap[s].type # "ioc"
          /\ gained[s] = 0 => snap[s].note = slots[s].note
      BY <1>1, <2>1 DEF BatchNotes, k
    <2>3. CASE s = b
      BY <2>2, <2>3, <1>3, <1>12, <1>18, <1>21, <1>22
    <2>4. CASE s = a
      BY <2>2, <2>4, <1>3, <1>12, <1>18, <1>21, <1>22
    <2>5. CASE s # b /\ s # a
      <3>1. snap[s].note.nonce[1] \in Nat
        <4>1. SnapSound(s)
          BY <1>1 DEF InBatch
        <4>2. QED
          BY <2>1, <4>1 DEF SnapSound, Note
      <3>2. QED
        BY <2>2, <2>5, <3>1, <1>6, <1>16, <1>21
    <2>6. QED
      BY <2>3, <2>4, <2>5
  <1>27. NoteOnce' /\ SlotNotes' /\ LogNotes'
    BY <1>6 DEF OnceInv, NoteOnce, OnceIn, Unspent, Backing, Inputs, SlotNotes, LogNotes, Known
  <1>28. BatchNotes'
    <2>1. \A n : Known(n, k + 1) => Known(n, MatchIdNow)'
      BY <1>6, <1>8 DEF Known
    <2>2. ASSUME NEW s \in Slot, Known(snap'[s].note, k + 1)
          PROVE  Known(snap[s].note, MatchIdNow)'
      BY <1>6, <1>8, <2>2 DEF Known
    <2>3. QED
      BY <1>6, <1>7, <1>20, <1>24, <1>25, <1>26, <2>1, <2>2 DEF BatchNotes
  <1>29. QED
    BY <1>27, <1>28

LEMMA OncePublish ==
    ASSUME OnceInv, Publish
    PROVE  NoteOnce' /\ SlotNotes' /\ LogNotes' /\ (phase' # "idle" => BatchNotes')
  <1>1. /\ TypeOK /\ InBatch /\ BatchNotes /\ SlotNotes /\ BookTruth
        /\ phase # "idle" /\ phase' = "idle"
    BY DEF OnceInv, MoneyInv, IndInv, BatchBooks, Publish, Reset
  <1>2. /\ slots \in [Slot -> Order] /\ snap \in [Slot -> Order] /\ gained \in [Slot -> Nat]
    BY <1>1 DEF TypeOK
  <1>3. /\ slots' = [s \in Slot |-> IF InBook(s) THEN Applied(slots[s], snap[s]) ELSE snap[s]]
        /\ log' = log \o out /\ nextMatchId' = MatchIdNow /\ intake' = intake
    BY DEF Publish, MatchIdNow
  <1>4. ASSUME NEW s \in Slot
        PROVE  /\ slots'[s].type # "ioc"
               /\ slots'[s].status = "pending" =>
                     s \in Backing(snap) /\ slots'[s].note = snap[s].note
    <2>1. /\ slots[s] \in Order /\ snap[s] \in Order /\ slots[s].type # "ioc"
          /\ SnapSound(s) /\ gained[s] \in Nat
          /\ slots[s].amount \in Nat /\ snap[s].amount \in Nat
      BY <1>1, <1>2 DEF SlotNotes, InBatch, Order
    <2>2. CASE InBook(s)
      <3>1. /\ slots[s].status = "pending" /\ snap[s].status = "pending"
            /\ snap[s].type # "ioc"
            /\ gained[s] = 0 => snap[s].note = slots[s].note
        BY <1>1, <2>2 DEF InBatch, Lists, InBook, BatchNotes
      <3>2. slots'[s] = Applied(slots[s], snap[s])
        BY <1>3, <2>2
      <3>3. slots[s].amount > 0
        BY <1>1, <3>1 DEF BookTruth
      <3>4. CASE snap[s].type = "killed"
        BY <3>2, <3>4, <2>1 DEF Applied, Dropped
      <3>5. CASE snap[s].type # "killed" /\ snap[s].amount = 0
        BY <3>2, <3>5, <2>1 DEF Applied, Wiped
      <3>6. CASE /\ snap[s].type # "killed" /\ snap[s].amount # 0
                 /\ snap[s].amount < slots[s].amount
        <4>1. slots'[s].type = slots[s].type /\ slots'[s].note = snap[s].note
          BY <3>1, <3>2, <3>6, <2>1 DEF Applied, Order
        <4>2. s \in Backing(snap)
          BY <3>1, <3>6, <2>1 DEF Backing
        <4>3. QED
          BY <4>1, <4>2, <2>1
      <3>7. CASE /\ snap[s].type # "killed" /\ snap[s].amount # 0
                 /\ ~(snap[s].amount < slots[s].amount)
        <4>1. slots'[s] = slots[s]
          BY <3>2, <3>7 DEF Applied
        <4>2. gained[s] = 0
          BY <2>1, <2>2, <3>7 DEF SnapSound
        <4>3. s \in Backing(snap)
          BY <3>1, <3>7, <2>1 DEF Backing
        <4>4. QED
          BY <4>1, <4>2, <4>3, <3>1, <2>1
      <3>8. QED
        BY <3>4, <3>5, <3>6, <3>7
    <2>3. CASE ~InBook(s)
      <3>1. slots'[s] = snap[s]
        BY <1>3, <2>3
      <3>2. CASE snap[s] = slots[s]
        <4>1. slots[s].status = "pending" => slots[s].amount > 0
          BY <1>1 DEF BookTruth
        <4>2. QED
          BY <2>1, <3>1, <3>2, <4>1 DEF Backing
      <3>3. CASE snap[s] = Dropped(slots[s], "expired", slots[s].filled, slots[s].noteAmount)
        BY <2>1, <3>1, <3>3 DEF Dropped
      <3>4. QED
        BY <2>1, <2>3, <3>2, <3>3 DEF SnapSound
    <2>4. QED
      BY <2>2, <2>3
  <1>5. Unspent(slots', log \o out, intake.renamed)
    <2>1. \A s \in Backing(slots') : s \in Backing(snap) /\ slots'[s].note = snap[s].note
      <3>1. \A s \in Backing(slots') : s \in Slot /\ slots'[s].status = "pending"
        BY DEF Backing
      <3>2. QED
        BY <1>4, <3>1
    <2>2. QED
      BY <1>1, <2>1, Transfer DEF BatchNotes
  <1>6. NoteOnce'
    BY <1>1, <1>3, <1>5 DEF BatchNotes, NoteOnce
  <1>7. LogNotes'
    <2>1. \A n : Known(n, MatchIdNow) => Known(n, nextMatchId)'
      BY <1>3 DEF Known
    <2>2. Inputs(log)' = Inputs(log \o out)
      BY <1>3 DEF Inputs
    <2>3. QED
      BY <1>1, <2>1, <2>2 DEF BatchNotes, LogNotes
  <1>8. SlotNotes'
    <2>1. ASSUME NEW s \in Slot, slots'[s].status = "pending"
          PROVE  Known(slots[s].note, nextMatchId)'
      <3>1. s \in Backing(snap) /\ slots'[s].note = snap[s].note
        BY <1>4, <2>1
      <3>2. Known(snap[s].note, MatchIdNow)
        BY <1>1, <3>1, BackingKnown
      <3>3. QED
        BY <1>3, <3>1, <3>2 DEF Known
    <2>2. QED
      BY <1>4, <2>1 DEF SlotNotes
  <1>9. QED
    BY <1>1, <1>6, <1>7, <1>8

LEMMA OnceStutter ==
    ASSUME OnceInv, UNCHANGED vars
    PROVE  NoteOnce' /\ SlotNotes' /\ LogNotes' /\ (phase' # "idle" => BatchNotes')
  <1>1. UNCHANGED <<slots, nextMatchId, log, intake, out, bids, asks, gained, snap, phase>>
    BY DEF vars, accounts, locals
  <1>2. CASE phase = "idle"
    BY <1>1, <1>2, OnceOutside
  <1>3. CASE phase # "idle"
    <2>1. snap' \in [Slot -> Order]
      BY <1>1 DEF OnceInv, MoneyInv, IndInv, TypeOK
    <2>2. QED
      BY <1>1, <1>3, <2>1, OnceTurn
  <1>4. QED
    BY <1>2, <1>3

(***************************************************************************)
(* In a market without fees and IOC orders a note is consumed by two       *)
(* matches, or backs an order after a match or besides another order, only *)
(* if submissions named it twice or named a change note: over any number   *)
(* of batches, partial fills and submissions, with any ids and notes.      *)
(***************************************************************************)
THEOREM NoteOnceCorrect ==
    ASSUME NoFees, NoIoc
    PROVE  Spec => []NoteOnce
  <1>1. Init => OnceInv
    <2> SUFFICES ASSUME Init PROVE OnceInv
      OBVIOUS
    <2>1. MoneyInv /\ phase = "idle"
      BY InitOK, MoneyInit DEF MoneyInv, Init, Idle
    <2>2. QED
      BY <2>1, OnceInit DEF OnceInv
  <1>2. ASSUME OnceInv, MoneyInv', [Next]_vars PROVE OnceInv'
    <2>0. ASSUME ~SomeSubmit PROVE ChangeExcused'
      <3>1. intake' = intake
        BY <1>2, <2>0 DEF Next, SomeInit, InitPendingOrderSlot, SomeCancel, CancelOrder, Tick,
                          SomeBatch, BeginBatch, BatchStep, SkipLimits, KillBid, KillAsk,
                          SkipMinFill, Match, Abort, EndLoop, Publish, vars
      <3>2. QED
        BY <1>2, <3>1 DEF OnceInv, ChangeExcused
    <2>1. NoteOnce' /\ SlotNotes' /\ LogNotes' /\ (phase' # "idle" => BatchNotes')
      <3>1. CASE SomeInit \/ SomeCancel \/ Tick
        BY <1>2, <3>1, OnceIdle
      <3>2. CASE SomeSubmit
        BY <1>2, <3>2, OnceSubmit
      <3>3. CASE SomeBatch
        BY <1>2, <3>3, OnceBegin
      <3>4. CASE BatchStep
        BY <1>2, <3>4, OnceIdle, OnceSkip, OnceMatch, OncePublish DEF BatchStep
      <3>5. CASE UNCHANGED vars
        BY <1>2, <3>5, OnceStutter
      <3>6. QED
        BY <1>2, <3>1, <3>2, <3>3, <3>4, <3>5 DEF Next
    <2>2. SomeSubmit => ChangeExcused'
      BY <1>2, OnceSubmit
    <2>3. QED
      BY <1>2, <2>0, <2>1, <2>2 DEF OnceInv
  <1>3. OnceInv => NoteOnce
    BY DEF OnceInv
  <1>4. QED
    BY <1>1, <1>2, <1>3, MoneyInvariance, PTL DEF Spec
=============================================================================
