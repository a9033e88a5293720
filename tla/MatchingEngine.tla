--------------------------- MODULE MatchingEngine ---------------------------
(***************************************************************************)
(* One market of the matching engine: the PendingOrder slots, submit_order,*)
(* cancel_order, and run_batch, the batch auction.                         *)
(*                                                                         *)
(* run_batch is one transaction.  Its loop is modelled step by step on     *)
(* local variables (bids, asks, bi, ai, snap, out ...), which only exist   *)
(* while phase # "idle"; no other action is enabled meanwhile, and the     *)
(* accounts are written at once by Publish, or not at all when an error    *)
(* aborts the transaction.                                                 *)
(*                                                                         *)
(* A note is the record the vault's commitment commits to; a change note   *)
(* has the match id in its nonce.  An order names a commitment, declares   *)
(* what it is worth and carries an id; submit_order compares none of them  *)
(* with those of other orders or with the vault.                           *)
(***************************************************************************)
EXTENDS Naturals, Sequences, FiniteSetsExt

CONSTANTS
    Slot,              \* PendingOrder accounts of this market
    Trader,
    TraderOf,          \* the trading key a slot is derived from
    Base, Quote,       \* the two mints
    Treasury,          \* protocol_owner_commitment when it is set
    NoOwner,           \* protocol_owner_commitment = 0
    NoNote,            \* an all-zero commitment
    NoMatch,           \* an unused entry of the results ring
    OrderId,           \* order ids clients choose (bound)
    OtherNote,         \* notes clients may name out of the blue (bound)
    MaxOrders,         \* submissions (bound)
    MaxRenamed,        \* notes clients name more often than they should (bound)
    OrderShape,        \* orders clients send (bound)
    Expiry,            \* expiry slots clients choose (bound)
    FeeRate,           \* values of fee_rate_bps (bound)
    FeeOwner,          \* values of protocol_owner_commitment (bound)
    OraclePrice,       \* prices the oracle reports (bound)
    MinOrderSize,      \* matching_config.min_order_size
    CircuitBreakerBps, \* matching_config.circuit_breaker_bps
    SettlementBuffer,  \* SETTLEMENT_BUFFER_SLOTS (20)
    MaxAccounts,       \* MAX_PENDING_ACCOUNTS_PER_BATCH (24)
    RingCapacity,      \* BATCH_RESULTS_CAPACITY (16)
    MaxSlot            \* last slot of the clock (bound)

BpsBase == 10000

Side == {"bid", "ask"}
OrderType == {"limit", "ioc", "fok"}
Status == {"absent", "empty", "pending", "matched", "expired", "cancelled"}

Shape == [side : Side, type : OrderType, price : Nat, amount : Nat, minFill : Nat,
          noteAmount : Nat]

ASSUME EngineAssumption ==
    /\ IsFiniteSet(Slot)
    /\ TraderOf \in [Slot -> Trader]
    /\ Base # Quote
    /\ NoOwner # Treasury
    /\ OrderId \subseteq Nat \ {0}
    /\ OrderShape \subseteq Shape
    /\ Expiry \subseteq Nat
    /\ FeeRate \subseteq 0 .. BpsBase
    /\ FeeOwner \subseteq {NoOwner, Treasury}
    /\ OraclePrice \subseteq Nat
    /\ MinOrderSize \in Nat
    /\ CircuitBreakerBps \in Nat
    /\ SettlementBuffer \in Nat
    /\ RingCapacity \in Nat \ {0}
    /\ MaxSlot \in Nat

Note == [mint : {Base, Quote}, amount : Nat, owner : Trader \cup {Treasury},
         nonce : Nat \X {"deposit", "change", "fee"}]

ASSUME NoNoteAssumption == NoNote \notin Note /\ OtherNote \subseteq Note

\* How many orders were submitted, the notes they named, and those of them
\* that were named again or are change notes, which the engine itself hands on.
Intake == [orders : Nat, named : SUBSET Note, renamed : SUBSET Note]

VARIABLES
    slots,        \* the PendingOrder accounts
    results,      \* BatchResults.results
    nextMatchId,  \* BatchResults.next_match_id; write_cursor has the same value
    fees,         \* BatchResults.fee_accumulators: amount and flushed note
    summary,      \* BatchResults.last_*
    clock,
    phase,        \* "idle", or where run_batch is: "match", "publish"
    env,          \* what run_batch read at its start, and the clearing price
    bids, asks,   \* the sorted snapshot vectors, as sequences of slots
    bi, ai,       \* the loop's indices
    snap,         \* the snapshots; "killed" is the u8::MAX sentinel type
    out,          \* the matches of this batch
    acc,          \* the fees of this batch, per mint
    gained,       \* history: base quantity each slot matched in this batch
    turns,        \* history: turns of the loop in this batch
    executed,     \* history: base quantity matched for the slot's current order
    log,          \* history: every match published
    intake        \* history: what submissions named, see Intake

accounts == <<slots, results, nextMatchId, fees, summary>>
locals == <<phase, env, bids, asks, bi, ai, snap, out, acc, gained, turns>>
vars == <<accounts, clock, locals, executed, log, intake>>

NoOrder(status) ==
    [status |-> status, side |-> "bid", type |-> "limit", arrival |-> 0, expiry |-> 0,
     price |-> 0, amount |-> 0, total |-> 0, filled |-> 0, minFill |-> 0,
     noteAmount |-> 0, note |-> NoNote, orderId |-> 0, inclusion |-> <<>>]

NoFee == [amount |-> 0, flushed |-> NoNote]
NoBatch == [price |-> 0, rate |-> 0, owner |-> NoOwner, twap |-> 0, tripped |-> FALSE,
            root |-> {}]

\* No batch is running.
Idle ==
    /\ phase = "idle"
    /\ env = NoBatch
    /\ bids = <<>> /\ asks = <<>>
    /\ bi = 1 /\ ai = 1
    /\ snap = [s \in Slot |-> NoOrder("absent")]
    /\ out = <<>>
    /\ acc = [m \in {Base, Quote} |-> 0]
    /\ gained = [s \in Slot |-> 0]
    /\ turns = 0

\* The state left by init_market.
Init ==
    /\ slots = [s \in Slot |-> NoOrder("absent")]
    /\ results = [i \in 0 .. RingCapacity - 1 |-> NoMatch]
    /\ nextMatchId = 0
    /\ fees = [m \in {Base, Quote} |-> NoFee]
    /\ summary = [root |-> {}, slot |-> 0, count |-> 0, price |-> 0, twap |-> 0,
                  tripped |-> FALSE]
    /\ clock = 0
    /\ Idle
    /\ executed = [s \in Slot |-> 0]
    /\ log = <<>>
    /\ intake = [orders |-> 0, named |-> {}, renamed |-> {}]

-----------------------------------------------------------------------------

\* init_pending_order_slot; on an existing slot it changes nothing.
InitPendingOrderSlot(s) ==
    /\ phase = "idle"
    /\ slots[s].status = "absent"
    /\ slots' = [slots EXCEPT ![s] = NoOrder("empty")]
    /\ UNCHANGED <<results, nextMatchId, fees, summary, clock, locals, executed, log, intake>>

MintOf(side) == IF side = "bid" THEN Quote ELSE Base

\* Mutant: the price is left out of a bid's notional.
Required_NoPrice(side, amount, price) == amount

\* The collateral submit_order insists on; it does not provide for fees.
Required(side, amount, price) == IF side = "bid" THEN amount * price ELSE amount

Naming(n) ==
    [orders |-> intake.orders + 1,
     named |-> intake.named \cup {n},
     renamed |-> IF n \in intake.named \/ n.nonce[2] = "change"
                 THEN intake.renamed \cup {n} ELSE intake.renamed]

\* submit_order: the order id and the note n are whatever the client sends.
SubmitOrder(s, o, n, sh, expiry) ==
    /\ phase = "idle"
    /\ sh.amount > 0 /\ sh.price > 0
    /\ sh.minFill <= sh.amount
    /\ Required(sh.side, sh.amount, sh.price) <= sh.noteAmount
    /\ expiry > clock
    /\ slots[s].status \in {"empty", "matched", "expired", "cancelled"}
    /\ slots' = [slots EXCEPT ![s] =
          [status |-> "pending", side |-> sh.side, type |-> sh.type, arrival |-> clock,
           expiry |-> expiry, price |-> sh.price, amount |-> sh.amount,
           total |-> sh.amount, filled |-> 0, minFill |-> sh.minFill,
           noteAmount |-> sh.noteAmount, note |-> n, orderId |-> o,
           inclusion |-> <<clock, n, TraderOf[s]>>]]
    /\ executed' = [executed EXCEPT ![s] = 0]
    /\ intake' = Naming(n)
    /\ UNCHANGED <<results, nextMatchId, fees, summary, clock, locals, log>>

\* The fields a cancelled or matched order leaves behind.
Wiped(o, status, filled) ==
    [status |-> status, side |-> o.side, type |-> o.type, arrival |-> o.arrival,
     expiry |-> o.expiry, price |-> 0, amount |-> 0, total |-> o.total,
     filled |-> filled, minFill |-> 0, noteAmount |-> 0, note |-> NoNote,
     orderId |-> 0, inclusion |-> o.inclusion]

\* The fields an expired or killed order leaves behind.
Dropped(o, status, filled, noteAmount) ==
    [status |-> status, side |-> o.side, type |-> o.type, arrival |-> o.arrival,
     expiry |-> o.expiry, price |-> o.price, amount |-> 0, total |-> o.total,
     filled |-> filled, minFill |-> o.minFill, noteAmount |-> noteAmount,
     note |-> NoNote, orderId |-> o.orderId, inclusion |-> o.inclusion]

\* cancel_order
CancelOrder(s) ==
    /\ phase = "idle"
    /\ slots[s].status = "pending"
    /\ slots' = [slots EXCEPT ![s] = Wiped(slots[s], "cancelled", slots[s].filled)]
    /\ UNCHANGED <<results, nextMatchId, fees, summary, clock, locals, executed, log, intake>>

Tick ==
    /\ phase = "idle"
    /\ clock < MaxSlot
    /\ clock' = clock + 1
    /\ UNCHANGED <<accounts, locals, executed, log, intake>>

-----------------------------------------------------------------------------
\* run_batch, first pass: which of the accounts S are in the auction.

Pending(S) == {s \in S : slots[s].status = "pending"}

Expiring(S) == {s \in Pending(S) : slots[s].expiry <= clock + SettlementBuffer}

Eligible(S) == {s \in Pending(S) \ Expiring(S) : slots[s].amount >= MinOrderSize}

OfSide(S, side) == {s \in S : slots[s].side = side}

\* Mutant: bids are sorted by arrival only.
BidBefore_TimeOnly(s, t) == slots[s].arrival < slots[t].arrival

\* Price-time priority on either side.
BidBefore(s, t) ==
    \/ slots[s].price > slots[t].price
    \/ slots[s].price = slots[t].price /\ slots[s].arrival < slots[t].arrival
AskBefore(s, t) ==
    \/ slots[s].price < slots[t].price
    \/ slots[s].price = slots[t].price /\ slots[s].arrival < slots[t].arrival

\* The results sort_by can have: it is stable, and the order in which the
\* accounts were passed is arbitrary.
Enumerations(S) ==
    {q \in [1 .. Cardinality(S) -> S] :
        \A i, j \in 1 .. Cardinality(S) : i < j => q[i] # q[j]}
SortedBids(S) ==
    {q \in Enumerations(S) :
        \A i, j \in 1 .. Cardinality(S) : i < j => ~BidBefore(q[j], q[i])}
SortedAsks(S) ==
    {q \in Enumerations(S) :
        \A i, j \in 1 .. Cardinality(S) : i < j => ~AskBefore(q[j], q[i])}

Quantity(S) == MapThenSumSet(LAMBDA s : slots[s].amount, S)
Demand(B, p) == Quantity({s \in B : slots[s].price >= p})
Supply(A, p) == Quantity({s \in A : slots[s].price <= p})
Lesser(m, n) == IF m <= n THEN m ELSE n
Volume(B, A, p) == Lesser(Demand(B, p), Supply(A, p))

\* compute_clearing_price: of the limits, the lowest among those that let
\* most volume cross; 0 stands for None.
ClearingPrices(B, A) ==
    LET limits == {slots[s].price : s \in B \cup A}
        best == {p \in limits : /\ Volume(B, A, p) > 0
                                /\ \A q \in limits : /\ Volume(B, A, q) <= Volume(B, A, p)
                                                     /\ q < p => Volume(B, A, q) < Volume(B, A, p)}
    IN  IF best = {} THEN {0} ELSE best

AbsDiff(m, n) == IF m <= n THEN n - m ELSE m - n
DeviatesByMoreThanBps(p, reference, bps) ==
    reference = 0 \/ AbsDiff(p, reference) * BpsBase > reference * bps

\* run_batch up to the matching loop.  The TEE chooses the accounts.
BeginBatch(S, rate, owner, twap) ==
    /\ phase = "idle"
    /\ twap > 0
    /\ Cardinality(S) <= MaxAccounts
    /\ \A s \in S : slots[s].status # "absent"
    /\ \E price \in ClearingPrices(OfSide(Eligible(S), "bid"), OfSide(Eligible(S), "ask")) :
          LET tripped == price # 0 /\ DeviatesByMoreThanBps(price, twap, CircuitBreakerBps)
          IN  /\ env' = [price |-> IF tripped THEN 0 ELSE price, rate |-> rate,
                         owner |-> owner, twap |-> twap, tripped |-> tripped,
                         root |-> {slots[s].inclusion : s \in Eligible(S)}]
              /\ phase' = IF price = 0 \/ tripped THEN "publish" ELSE "match"
    /\ bids' \in SortedBids(OfSide(Eligible(S), "bid"))
    /\ asks' \in SortedAsks(OfSide(Eligible(S), "ask"))
    /\ snap' = [s \in Slot |->
                   IF s \in Expiring(S)
                   THEN Dropped(slots[s], "expired", slots[s].filled, slots[s].noteAmount)
                   ELSE slots[s]]
    /\ UNCHANGED <<accounts, clock, bi, ai, out, acc, gained, turns, executed, log, intake>>

-----------------------------------------------------------------------------
\* generate_matches, one action per branch of its loop body.

InLoop == phase = "match" /\ bi <= Len(bids) /\ ai <= Len(asks)

Bid == snap[bids[bi]]
Ask == snap[asks[ai]]
Crossing == Bid.price >= env.price /\ Ask.price <= env.price
\* Mutant: the bid is filled whatever the ask offers.
Crossable_Bid == Bid.amount
Crossable == Lesser(Bid.amount, Ask.amount)
KillsBid == Bid.type = "fok" /\ Crossable < Bid.amount
KillsAsk == Ask.type = "fok" /\ Crossable < Ask.amount
\* Mutant: a fill of exactly the minimum is refused.
TooSmall_OrEqual == Crossable <= Bid.minFill \/ Crossable <= Ask.minFill
TooSmall == Crossable < Bid.minFill \/ Crossable < Ask.minFill

\* Mutant: an ask above the price is never passed.
SkipLimits_BidOnly ==
    /\ InLoop
    /\ ~Crossing
    /\ bi' = IF Bid.price < env.price THEN bi + 1 ELSE bi
    /\ turns' = turns + 1
    /\ UNCHANGED <<accounts, clock, phase, env, bids, asks, ai, snap, out, acc, gained,
                   executed, log, intake>>

SkipLimits ==
    /\ InLoop
    /\ ~Crossing
    /\ bi' = IF Bid.price < env.price THEN bi + 1 ELSE bi
    /\ ai' = IF Ask.price > env.price THEN ai + 1 ELSE ai
    /\ turns' = turns + 1
    /\ UNCHANGED <<accounts, clock, phase, env, bids, asks, snap, out, acc, gained,
                   executed, log, intake>>

\* Mutant: without the sentinel a killed order looks like a filled one.
Killed_NoSentinel(o) == [o EXCEPT !.amount = 0]

Killed(o) == [o EXCEPT !.amount = 0, !.type = "killed"]

KillBid ==
    /\ InLoop
    /\ Crossing /\ KillsBid
    /\ snap' = [snap EXCEPT ![bids[bi]] = Killed(Bid)]
    /\ bi' = bi + 1
    /\ turns' = turns + 1
    /\ UNCHANGED <<accounts, clock, phase, env, bids, asks, ai, out, acc, gained,
                   executed, log, intake>>

KillAsk ==
    /\ InLoop
    /\ Crossing /\ ~KillsBid /\ KillsAsk
    /\ snap' = [snap EXCEPT ![asks[ai]] = Killed(Ask)]
    /\ ai' = ai + 1
    /\ turns' = turns + 1
    /\ UNCHANGED <<accounts, clock, phase, env, bids, asks, bi, out, acc, gained,
                   executed, log, intake>>

SkipMinFill ==
    /\ InLoop
    /\ Crossing /\ ~KillsBid /\ ~KillsAsk /\ TooSmall
    /\ IF Bid.amount <= Ask.amount THEN bi' = bi + 1 /\ ai' = ai
                                   ELSE bi' = bi /\ ai' = ai + 1
    /\ turns' = turns + 1
    /\ UNCHANGED <<accounts, clock, phase, env, bids, asks, snap, out, acc, gained,
                   executed, log, intake>>

Matches == InLoop /\ Crossing /\ ~KillsBid /\ ~KillsAsk /\ ~TooSmall

QuoteAmt == Crossable * env.price
FeeOn(amount) == (amount * env.rate) \div BpsBase
BuyerCharge == QuoteAmt + FeeOn(QuoteAmt)
SellerCharge == Crossable + FeeOn(Crossable)
BuyerChange == Bid.noteAmount - BuyerCharge
SellerChange == Ask.noteAmount - SellerCharge
MatchIdNow == nextMatchId + Len(out)

\* Mutant: the subtraction is not checked.
Affordable_Unchecked == TRUE

\* The checked subtractions succeed.
Affordable == BuyerCharge <= Bid.noteAmount /\ SellerCharge <= Ask.noteAmount

ChangeNote(mint, amount, owner) ==
    IF amount > 0
    THEN [mint |-> mint, amount |-> amount, owner |-> owner,
          nonce |-> <<MatchIdNow, "change">>]
    ELSE NoNote
NoteE == ChangeNote(Quote, BuyerChange, TraderOf[bids[bi]])
NoteF == ChangeNote(Base, SellerChange, TraderOf[asks[ai]])

\* The change note goes on backing the order.
Relocks(o, change) == o.amount > Crossable /\ o.type = "limit" /\ change > 0

MatchResult ==
    [id |-> MatchIdNow, buyer |-> Bid.note, seller |-> Ask.note,
     noteE |-> NoteE, noteF |-> NoteF,
     buyerValue |-> Bid.noteAmount, sellerValue |-> Ask.noteAmount,
     base |-> Crossable, quote |-> QuoteAmt,
     buyerChange |-> BuyerChange, sellerChange |-> SellerChange,
     buyerFee |-> FeeOn(QuoteAmt), sellerFee |-> FeeOn(Crossable),
     buyerRelock |-> IF Relocks(Bid, BuyerChange) THEN Bid.orderId ELSE 0,
     sellerRelock |-> IF Relocks(Ask, SellerChange) THEN Ask.orderId ELSE 0,
     buyerExpiry |-> IF Relocks(Bid, BuyerChange) THEN Bid.expiry ELSE 0,
     sellerExpiry |-> IF Relocks(Ask, SellerChange) THEN Ask.expiry ELSE 0,
     price |-> env.price, slot |-> clock]

\* Mutant: the order goes on with the note the match consumes.
Rest_NoRotation(o, change, note) == [o EXCEPT !.amount = @ - Crossable]

\* What is left of an order's snapshot after a match.
Rest(o, change, note) ==
    IF Relocks(o, change)
    THEN [o EXCEPT !.amount = @ - Crossable, !.noteAmount = change, !.note = note]
    ELSE [o EXCEPT !.amount = @ - Crossable]

Match ==
    /\ Matches
    /\ Affordable
    /\ out' = Append(out, MatchResult)
    /\ acc' = [acc EXCEPT ![Base] = @ + FeeOn(Crossable), ![Quote] = @ + FeeOn(QuoteAmt)]
    /\ snap' = [snap EXCEPT ![bids[bi]] = Rest(Bid, BuyerChange, NoteE),
                            ![asks[ai]] = Rest(Ask, SellerChange, NoteF)]
    /\ gained' = [gained EXCEPT ![bids[bi]] = @ + Crossable, ![asks[ai]] = @ + Crossable]
    /\ bi' = IF Bid.amount = Crossable THEN bi + 1 ELSE bi
    /\ ai' = IF Ask.amount = Crossable THEN ai + 1 ELSE ai
    /\ turns' = turns + 1
    /\ UNCHANGED <<accounts, clock, phase, env, bids, asks, executed, log, intake>>

Reset ==
    /\ phase' = "idle"
    /\ env' = NoBatch
    /\ bids' = <<>> /\ asks' = <<>>
    /\ bi' = 1 /\ ai' = 1
    /\ snap' = [s \in Slot |-> NoOrder("absent")]
    /\ out' = <<>>
    /\ acc' = [m \in {Base, Quote} |-> 0]
    /\ gained' = [s \in Slot |-> 0]
    /\ turns' = 0

\* ConservationViolation: the collateral does not cover the charge, the whole
\* transaction fails and nothing it did remains.
Abort ==
    /\ Matches
    /\ ~Affordable
    /\ Reset
    /\ UNCHANGED <<accounts, clock, executed, log, intake>>

EndLoop ==
    /\ phase = "match"
    /\ ~InLoop
    /\ phase' = "publish"
    /\ UNCHANGED <<accounts, clock, env, bids, asks, bi, ai, snap, out, acc, gained, turns,
                   executed, log, intake>>

-----------------------------------------------------------------------------

InBook(s) ==
    \/ \E i \in 1 .. Len(bids) : bids[i] = s
    \/ \E i \in 1 .. Len(asks) : asks[i] = s

\* Mutant: a partial fill is not added to what was filled before.
Applied_FilledLost(o, r) ==
    IF r.type = "killed"
    THEN Dropped(o, "cancelled", o.filled, o.noteAmount)
    ELSE IF r.amount = 0
    THEN Wiped(o, "matched", o.total)
    ELSE IF r.amount < o.amount /\ r.type = "ioc"
    THEN Dropped(o, "cancelled", o.amount - r.amount, r.noteAmount)
    ELSE IF r.amount < o.amount
    THEN [o EXCEPT !.filled = o.amount - r.amount, !.amount = r.amount,
                   !.note = r.note, !.noteAmount = r.noteAmount]
    ELSE o

\* apply_slot_updates on one slot, o the account and r its snapshot.
Applied(o, r) ==
    IF r.type = "killed"
    THEN Dropped(o, "cancelled", o.filled, o.noteAmount)
    ELSE IF r.amount = 0
    THEN Wiped(o, "matched", o.total)
    ELSE IF r.amount < o.amount /\ r.type = "ioc"
    THEN Dropped(o, "cancelled", o.filled + (o.amount - r.amount), r.noteAmount)
    ELSE IF r.amount < o.amount
    THEN [o EXCEPT !.filled = @ + (o.amount - r.amount), !.amount = r.amount,
                   !.note = r.note, !.noteAmount = r.noteAmount]
    ELSE o

\* The fee note of a mint, its nonce derived from the slot of the batch.
FlushedFee(m) ==
    IF env.owner # NoOwner /\ ~env.tripped /\ acc[m] > 0
    THEN [mint |-> m, amount |-> acc[m], owner |-> env.owner, nonce |-> <<clock, "fee">>]
    ELSE NoNote

\* The matches of this batch that go to ring entry i; the last one stays.
WritesTo(i) == {k \in 1 .. Len(out) : (nextMatchId + k - 1) % RingCapacity = i}
\* Mutant: an entry once written is kept.
RingAfter_Keep(i) ==
    IF WritesTo(i) = {} \/ results[i] # NoMatch THEN results[i] ELSE out[Max(WritesTo(i))]
RingAfter(i) == IF WritesTo(i) = {} THEN results[i] ELSE out[Max(WritesTo(i))]

\* The writes of run_batch: slots, results, fee accumulators and summary.
Publish ==
    /\ phase = "publish"
    /\ slots' = [s \in Slot |-> IF InBook(s) THEN Applied(slots[s], snap[s]) ELSE snap[s]]
    /\ results' = [i \in 0 .. RingCapacity - 1 |-> RingAfter(i)]
    /\ nextMatchId' = nextMatchId + Len(out)
    /\ fees' = [m \in {Base, Quote} |-> [amount |-> acc[m], flushed |-> FlushedFee(m)]]
    /\ summary' = [root |-> env.root, slot |-> clock, count |-> Len(out),
                   price |-> env.price, twap |-> env.twap, tripped |-> env.tripped]
    /\ executed' = [s \in Slot |-> executed[s] + gained[s]]
    /\ log' = log \o out
    /\ Reset
    /\ UNCHANGED <<clock, intake>>

SomeInit == \E s \in Slot : InitPendingOrderSlot(s)
\* A client names a new deposit of its own, a note some order named before,
\* a change note of an earlier match, or something else.
DepositOf(s, sh) ==
    [mint |-> MintOf(sh.side), amount |-> sh.noteAmount, owner |-> TraderOf[s],
     nonce |-> <<intake.orders, "deposit">>]
ChangeNotes(q) ==
    ({q[i].noteE : i \in 1 .. Len(q)} \cup {q[i].noteF : i \in 1 .. Len(q)}) \ {NoNote}
Nameable(s, sh) ==
    {DepositOf(s, sh)} \cup intake.named \cup ChangeNotes(log) \cup OtherNote

SomeSubmit ==
    /\ intake.orders < MaxOrders
    /\ \E s \in Slot, o \in OrderId, sh \in OrderShape, expiry \in Expiry :
          \E n \in Nameable(s, sh) :
             /\ Cardinality(Naming(n).renamed) <= MaxRenamed
             /\ SubmitOrder(s, o, n, sh, expiry)
SomeCancel == \E s \in Slot : CancelOrder(s)
\* The accounts are drawn from the pending ones: the others are skipped.
SomeBatch ==
    \E S \in SUBSET Pending(Slot), rate \in FeeRate, owner \in FeeOwner, twap \in OraclePrice :
       BeginBatch(S, rate, owner, twap)

BatchStep ==
    SkipLimits \/ KillBid \/ KillAsk \/ SkipMinFill \/ Match \/ Abort \/ EndLoop \/ Publish

Next == SomeInit \/ SomeSubmit \/ SomeCancel \/ SomeBatch \/ Tick \/ BatchStep

Spec == Init /\ [][Next]_vars

-----------------------------------------------------------------------------

Order ==
    [status : Status, side : Side, type : OrderType \cup {"killed"}, arrival : Nat,
     expiry : Nat, price : Nat, amount : Nat, total : Nat, filled : Nat, minFill : Nat,
     noteAmount : Nat, note : Note \cup {NoNote}, orderId : Nat,
     inclusion : {<<>>} \cup (Nat \X Note \X Trader)]

MatchRecord ==
    [id : Nat, buyer : Note, seller : Note, noteE : Note \cup {NoNote},
     noteF : Note \cup {NoNote}, buyerValue : Nat, sellerValue : Nat, base : Nat,
     quote : Nat, buyerChange : Nat, sellerChange : Nat, buyerFee : Nat,
     sellerFee : Nat, buyerRelock : Nat, sellerRelock : Nat, buyerExpiry : Nat,
     sellerExpiry : Nat, price : Nat, slot : Nat]

TypeOK ==
    /\ slots \in [Slot -> Order]
    /\ results \in [0 .. RingCapacity - 1 -> MatchRecord \cup {NoMatch}]
    /\ nextMatchId \in Nat
    /\ fees \in [{Base, Quote} -> [amount : Nat, flushed : Note \cup {NoNote}]]
    /\ summary \in [root : SUBSET (Nat \X Note \X Trader), slot : Nat, count : Nat,
                    price : Nat, twap : Nat, tripped : BOOLEAN]
    /\ clock \in 0 .. MaxSlot
    /\ phase \in {"idle", "match", "publish"}
    /\ env \in [price : Nat, rate : 0 .. BpsBase, owner : {NoOwner, Treasury}, twap : Nat,
                tripped : BOOLEAN, root : SUBSET (Nat \X Note \X Trader)]
    /\ bids \in Seq(Slot) /\ asks \in Seq(Slot)
    /\ bi \in 1 .. Len(bids) + 1 /\ ai \in 1 .. Len(asks) + 1
    /\ snap \in [Slot -> Order]
    /\ out \in Seq(MatchRecord)
    /\ acc \in [{Base, Quote} -> Nat]
    /\ gained \in [Slot -> Nat]
    /\ executed \in [Slot -> Nat]
    /\ log \in Seq(MatchRecord)
    /\ intake \in Intake

(***************************************************************************)
(* Quantities are booked truthfully over any number of batches: what a     *)
(* resting order shows as filled is what was really matched for it, filled *)
(* and open quantity add up to the order, a matched order was filled to    *)
(* the last unit and no order was ever filled beyond its size.             *)
(***************************************************************************)
BookTruth ==
    \A s \in Slot :
       LET o == slots[s]
       IN  /\ o.status = "pending" =>
                 o.amount > 0 /\ o.filled + o.amount = o.total /\ executed[s] = o.filled
           /\ o.status = "matched" => executed[s] = o.total /\ o.filled = o.total
           /\ executed[s] <= o.total

(***************************************************************************)
(* The books while a batch runs, the inductive core of the proofs: the two *)
(* vectors hold different resting orders of their side; an order of the    *)
(* batch that was not killed has lost exactly what it gained in matches,   *)
(* one that was killed has traded nothing; whatever the loop still has     *)
(* ahead is open and, if fill-or-kill, untouched; and every other slot is  *)
(* as before or expired.                                                   *)
(***************************************************************************)
SlotsSound ==
    \A s \in Slot :
       /\ slots[s].type # "killed"
       /\ slots[s].status = "pending" =>
             slots[s].note \in Note /\ slots[s].inclusion \in Nat \X Note \X Trader
       /\ slots[s].status = "absent" => executed[s] = 0

Lists(q, side) ==
    /\ \A i \in 1 .. Len(q) : slots[q[i]].status = "pending" /\ slots[q[i]].side = side
    /\ \A i, j \in 1 .. Len(q) : i # j => q[i] # q[j]

Ahead(q, k) ==
    \A i \in k .. Len(q) :
       LET r == snap[q[i]]
       IN  r.amount > 0 /\ r.type # "killed" /\ (r.type = "fok" => gained[q[i]] = 0)

SnapSound(s) ==
    IF InBook(s)
    THEN /\ snap[s].note \in Note
         /\ IF snap[s].type = "killed" THEN gained[s] = 0
                                       ELSE snap[s].amount + gained[s] = slots[s].amount
    ELSE /\ gained[s] = 0
         /\ snap[s] \in {slots[s], Dropped(slots[s], "expired", slots[s].filled,
                                           slots[s].noteAmount)}

InBatch ==
    /\ Lists(bids, "bid") /\ Lists(asks, "ask")
    /\ Ahead(bids, bi) /\ Ahead(asks, ai)
    /\ \A s \in Slot : SnapSound(s)

BatchBooks == SlotsSound /\ (IF phase = "idle" THEN Idle ELSE InBatch)

(***************************************************************************)
(* The auction clears what its price promises: when every order takes any  *)
(* fill, the loop pairs exactly the volume that compute_clearing_price     *)
(* found, so no two orders that cross at the price are left over.          *)
(***************************************************************************)
AnyFill == \A s \in Slot : InBook(s) => slots[s].minFill <= 1 /\ slots[s].type # "fok"
Bidders == {bids[i] : i \in 1 .. Len(bids)}
Sellers == {asks[i] : i \in 1 .. Len(asks)}
VolumeCleared ==
    phase = "publish" /\ env.price > 0 /\ AnyFill =>
       LET matched == Volume(Bidders, Sellers, env.price)
       IN  /\ MapThenSumSet(LAMBDA s : gained[s], Bidders) = matched
           /\ MapThenSumSet(LAMBDA s : gained[s], Sellers) = matched

(***************************************************************************)
(* Price-time priority: nobody trades ahead of an order of its side that   *)
(* is better priced, or as good and older, unless that order is done or    *)
(* killed (or a minimum fill in the book may have kept it from trading).   *)
(***************************************************************************)
Better(o, r) ==
    \/ o.side = "bid" /\ o.price > r.price
    \/ o.side = "ask" /\ o.price < r.price
    \/ o.price = r.price /\ o.arrival < r.arrival
Priority ==
    phase = "publish" /\ (\A s \in Slot : InBook(s) => slots[s].minFill <= 1) =>
       \A s, t \in Slot :
          /\ InBook(s) /\ InBook(t) /\ slots[s].side = slots[t].side
          /\ Better(slots[s], slots[t])
          /\ gained[t] > 0
          => snap[s].amount = 0

(***************************************************************************)
(* Collateral outlasts the order: over all partial fills, relocks and      *)
(* batches the note an order names is worth what is left of the order at   *)
(* its own limit, and nothing it was matched for exceeded that limit.      *)
(* Stated for a market without fees, which submit_order does not reserve.  *)
(***************************************************************************)
Backed(o) ==
    /\ o.price > 0
    /\ o.noteAmount >= (IF o.side = "bid" THEN o.amount * o.price ELSE o.amount)
Covered ==
    \A s \in Slot :
       /\ slots[s].status = "pending" => Backed(slots[s])
       /\ phase # "idle" /\ InBook(s) => Backed(snap[s])

(***************************************************************************)
(* No accepted order can fail a batch: whenever the loop pairs two orders  *)
(* both collaterals cover the trade.  An order that broke this would make  *)
(* every run_batch that includes it fail, for all traders.  Stated for a   *)
(* market without fees.                                                    *)
(***************************************************************************)
Funded == Matches => Affordable

(***************************************************************************)
(* The engine double-books no note by itself.  Two matches, of one batch   *)
(* or of several, consume the same note, a match consumes the note of a    *)
(* resting order, or two resting orders are backed by the same note only   *)
(* if clients asked for it: the note was named by two submissions, or is a *)
(* change note that was named.  So an order whose client named its note    *)
(* once is never in a match that tee_forced_settle must refuse because the *)
(* note is gone, whatever others name and however often it is filled.      *)
(* Stated for a market without fees and IOC orders, the case in which the  *)
(* code achieves it.                                                       *)
(***************************************************************************)
Inputs(q) == {q[i].buyer : i \in 1 .. Len(q)} \cup {q[i].seller : i \in 1 .. Len(q)}
\* U are the notes of which nothing is claimed.
OnceIn(q, U) ==
    /\ \A i, j \in 1 .. Len(q) :
          i # j => /\ q[i].buyer = q[j].buyer => q[i].buyer \in U
                   /\ q[i].seller = q[j].seller => q[i].seller \in U
    /\ \A i, j \in 1 .. Len(q) : q[i].buyer = q[j].seller => q[i].buyer \in U
Backing(f) == {s \in Slot : f[s].status = "pending" /\ f[s].amount > 0}
Unspent(f, q, U) ==
    /\ \A s \in Backing(f) : f[s].note \in Inputs(q) => f[s].note \in U
    /\ \A s, t \in Backing(f) : s # t /\ f[s].note = f[t].note => f[s].note \in U
NoteOnce == OnceIn(log, intake.renamed) /\ Unspent(slots, log, intake.renamed)

\* The ring holds the last RingCapacity matches, each at its id.
RingLatest ==
    /\ nextMatchId = Len(log)
    /\ \A k \in 1 .. Len(log) :
          /\ log[k].id = k - 1
          /\ k > Len(log) - RingCapacity => results[(k - 1) % RingCapacity] = log[k]

(***************************************************************************)
(* Every run_batch comes to an end, and within its compute budget: each    *)
(* turn of the loop leaves an order behind for good, whichever of the six  *)
(* branches it takes, so that a batch needs no more turns than it has      *)
(* orders.                                                                 *)
(***************************************************************************)
LoopBounded ==
    /\ turns \in 0 .. (bi - 1) + (ai - 1)
    /\ turns <= Len(bids) + Len(asks)

-----------------------------------------------------------------------------
\* What a comment of the program says of it, and it does not do.

\* match_result.rs: note_buyer and note_seller are "the note commitments being
\* consumed by this match".  A note can be consumed by one match only, and a
\* client that names its note once gets it consumed once.
ConsumedByOneMatch == OnceIn(log, intake.renamed)
=============================================================================
