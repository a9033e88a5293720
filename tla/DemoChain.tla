----------------------------- MODULE DemoChain ------------------------------
(***************************************************************************)
(* The chain as the demo application uses it: the pending-order slots and  *)
(* the market accounts, which live on L1 or, once delegated, on the        *)
(* ephemeral rollup (ER); the committed batch results; and the vault's     *)
(* notes, locks and settlements.  Each operator is one transaction that    *)
(* the SDK's builders make, with the conditions under which the programs   *)
(* accept it; the programs themselves are modules Vault and MatchingEngine.*)
(*                                                                         *)
(* The server's requests are here too, because both demo flows serve them  *)
(* in the same way: every await is a point where other requests run.       *)
(*                                                                         *)
(* Notes and orders are named <<key, n>>: the key that owns them and the   *)
(* request, or the panel's attempt, that made them.                        *)
(***************************************************************************)
EXTENDS Naturals, FiniteSets, FiniteSetsExt

CONSTANTS
    Trader,     \* trading keys of the browser panels
    Maker,      \* the demo maker's key (DEMO_MAKER_SECRET_BASE58)
    Taker,      \* the live panel's taker (DEMO_TAKER_SECRET_BASE58)
    MaxSlots,   \* MAX_PENDING_SLOTS_PER_USER
    MaxReq,     \* bound on requests
    Scenarios   \* initial budgets, see variable budget

ASSUME DemoAssumption ==
    /\ MaxSlots \in Nat \ {0} /\ MaxReq \in Nat
    /\ Maker \notin Trader /\ Taker \notin Trader \cup {Maker}

Key == Trader \cup {Maker, Taker}
SlotIdx == 0 .. MaxSlots - 1
Req == 1 .. MaxReq
None == <<>>
Id == {None} \cup (Key \X Nat)

\* A scenario: who trades, how many requests, clicks of the live panel, faults
\* and status reads there may be, whether requests come one at a time, whether
\* notes are sized to the notional and whether the limit price that the orders
\* share is within the circuit breaker's band of the oracle's.
Budgets == [traders : SUBSET Trader, requests : Nat, live : Nat, faults : Nat, reads : Nat,
            quiet : BOOLEAN, exact : BOOLEAN, inBand : BOOLEAN]
\* A quiet scenario is the trade flow's, without faults, at a price in the band.
ASSUME ScenarioAssumption ==
    /\ Scenarios \subseteq Budgets
    /\ \A b \in Scenarios : b.quiet => b.live = 0 /\ b.faults = 0 /\ b.inBand

VARIABLES
    slot,    \* slot[k][i]: PendingOrder account i of trading key k
    market,  \* where DarkCLOB, MatchingConfig and BatchResults are
    batch,   \* BatchResults on the ER and as L1 shows it
    vault,   \* wallets, notes, locks, settlements and fee rate of the vault
    late,    \* orders whose expiry slot has passed
    req,     \* the server's requests
    budget   \* the scenario's bounds: what may still happen, and to whom

chain == <<slot, market, batch, vault, late>>

EmptySlot == [l1 |-> "absent", status |-> "Empty", order |-> None, note |-> None]
NoResults == [runs |-> 0, log |-> {}]
Free == [kind |-> "none", who |-> None, pc |-> "free", slot |-> 0, reuse |-> MaxSlots,
         ctx |-> None, pre |-> 0, seller |-> None, seen |-> {},
         mixed |-> FALSE]

ChainInit ==
    /\ slot = [k \in Key |-> [i \in SlotIdx |-> EmptySlot]]
    /\ market = "l1"
    /\ batch = [er |-> NoResults, l1 |-> NoResults]
    /\ vault = [wallets |-> {}, notes |-> {}, locks |-> {}, settled |-> {}, fee |-> TRUE]
    /\ late = {}
    /\ req = [r \in Req |-> Free]
    /\ budget \in Scenarios

\* A fault costs one of the scenario's faults.
Fault == budget.faults > 0 /\ budget' = [budget EXCEPT !.faults = @ - 1]

-----------------------------------------------------------------------------
(***************************************************************************)
(* Order slots.                                                            *)
(***************************************************************************)

\* init_pending_order_slot: the builder and the program refuse an index past
\* the cap; an account the delegation program owns is not the engine's.
\* An existing slot is left alone.
CanInitSlot(k, i) == i \in SlotIdx /\ slot[k][i].l1 # "delegated"
SlotInitialized(k, i) == [slot EXCEPT ![k][i].l1 = "owned"]

\* delegate_pending_order hands the slot to the ER.
CanDelegateSlot(k, i) == i \in SlotIdx /\ slot[k][i].l1 = "owned"
SlotDelegated(k, i) == [slot EXCEPT ![k][i].l1 = "delegated"]

\* Mutant: a slot is taken for reusable by what L1 shows, Empty since its init.
Reusable_L1View(k, i) == slot[k][i].l1 # "absent"
\* isReusablePendingOrderStatus of the status on the ER, where it is live.
Reusable(k, i) == slot[k][i].status \in {"Empty", "Matched", "Expired"}

\* submit_order on the ER, refused with SlotAlreadyOccupied.
CanSubmit(k, i) ==
    i \in SlotIdx /\ slot[k][i].l1 = "delegated"
    /\ slot[k][i].status \in {"Empty", "Matched", "Expired"}
OrderSubmitted(k, i, o, n) ==
    [slot EXCEPT ![k][i].status = "Pending", ![k][i].order = o, ![k][i].note = n]

-----------------------------------------------------------------------------
(***************************************************************************)
(* The market.  After undelegate_market the accounts stay with the         *)
(* delegation program on L1 until the commit lands.                        *)
(***************************************************************************)

\* Mutant: the rollup starts from empty results at each delegation.
DelegateMarketTx_Empty ==
    /\ market = "l1"
    /\ market' = "er" /\ batch' = [batch EXCEPT !.er = NoResults]
\* The three delegate instructions of one transaction; the ER copies the accounts.
DelegateMarketTx ==
    /\ market = "l1"
    /\ market' = "er" /\ batch' = [batch EXCEPT !.er = batch.l1]

\* Orders of the two slots run_batch is given.  They cross, unless the circuit
\* breaker trips on their price.
Book(u, i, m, j) ==
    {p \in {<<u, i>>, <<m, j>>} :
        slot[p[1]][p[2]].status = "Pending" /\ slot[p[1]][p[2]].order \notin late}
Crossed(u, i, m, j) == budget.inBand /\ Book(u, i, m, j) = {<<u, i>>, <<m, j>>}

\* The builder's accounts must all be writable on the ER.  With a protocol fee,
\* a note sized to the notional (the panel's, unless the exchange rate is set
\* above the limit price) fails the conservation check: nothing changes.
CanRunBatch(u, i, m, j) ==
    /\ market = "er"
    /\ i \in SlotIdx /\ slot[u][i].l1 = "delegated"
    /\ j \in SlotIdx /\ slot[m][j].l1 = "delegated"
    /\ vault.fee /\ Crossed(u, i, m, j) => u = Taker \/ ~budget.exact

MatchOf(u, i, m, j) ==
    [buyer |-> slot[u][i].note, buyOrder |-> slot[u][i].order,
     seller |-> slot[m][j].note, sellOrder |-> slot[m][j].order, fee |-> vault.fee]

\* run_batch: an expired order is marked and loses its note, two live orders
\* match and are wiped; when the circuit breaker trips they stay as they are.
RunBatchTx(u, i, m, j) ==
    /\ CanRunBatch(u, i, m, j)
    /\ slot' = [k \in Key |-> [n \in SlotIdx |->
          LET s == slot[k][n]
              resting == <<k, n>> \in {<<u, i>>, <<m, j>>} /\ s.status = "Pending"
          IN CASE resting /\ s.order \in late -> [s EXCEPT !.status = "Expired", !.note = None]
               [] resting /\ Crossed(u, i, m, j) -> [EmptySlot EXCEPT !.l1 = s.l1, !.status = "Matched"]
               [] OTHER -> s]]
    /\ batch' = [batch EXCEPT !.er.runs = @ + 1,
                              !.er.log = @ \cup IF Crossed(u, i, m, j)
                                                THEN {MatchOf(u, i, m, j)} ELSE {}]

\* undelegate_market schedules the commit and the hand-back.
UndelegateTx == market = "er" /\ market' = "returning"

\* The commit lands: L1 shows the ER's results and owns the accounts again.
CommitLands ==
    /\ market = "returning"
    /\ market' = "l1" /\ batch' = [batch EXCEPT !.l1 = batch.er]
    /\ UNCHANGED <<slot, vault, late, req, budget>>

-----------------------------------------------------------------------------
(***************************************************************************)
(* The vault.                                                              *)
(***************************************************************************)

\* create_wallet and deposit.
WalletCreated(u) == [vault EXCEPT !.wallets = @ \cup {u}]
Deposited(n) == [vault EXCEPT !.notes = @ \cup {n}]

Locked(n) == \E l \in vault.locks : l.note = n
Consumed(n) == \E s \in vault.settled : n \in {s.buyer, s.seller}
HoldsLock(n, o) == [note |-> n, order |-> o] \in vault.locks

\* Two lock_note instructions in one transaction.
CanLock(a, oa, b, ob) ==
    ~Locked(a) /\ ~Locked(b) /\ {oa, ob} \cap late = {}
NotesLocked(a, oa, b, ob) ==
    [vault EXCEPT !.locks = @ \cup {[note |-> a, order |-> oa], [note |-> b, order |-> ob]}]

\* tee_forced_settle consumes both notes and closes their locks.
CanSettle(a, oa, b, ob) ==
    HoldsLock(a, oa) /\ HoldsLock(b, ob) /\ ~Consumed(a) /\ ~Consumed(b)
NotesSettled(a, oa, b, ob) ==
    [vault EXCEPT !.settled = @ \cup {[buyer |-> a, buyOrder |-> oa, seller |-> b, sellOrder |-> ob]},
                  !.locks = {l \in @ : l.note \notin {a, b}}]

\* set_protocol_config by the admin outside these flows (setup-devnet, 30 bps).
FeeSet ==
    /\ Fault /\ ~vault.fee
    /\ vault' = [vault EXCEPT !.fee = TRUE]
    /\ UNCHANGED <<slot, market, batch, late, req>>

\* The expiry slot of an order passes, whether it rests, was matched or has a
\* lock; release_lock frees a lock that expired.
Orders == {slot[k][i].order : k \in Key, i \in SlotIdx} \cup {l.order : l \in vault.locks}
          \cup UNION {{m.buyOrder, m.sellOrder} : m \in batch.er.log}
OrderExpires ==
    /\ Fault
    /\ \E o \in Orders \ (late \cup {None}) : late' = late \cup {o}
    /\ UNCHANGED <<slot, market, batch, vault, req>>

LockReleased ==
    /\ \E l \in vault.locks :
          l.order \in late /\ vault' = [vault EXCEPT !.locks = @ \ {l}]
    /\ UNCHANGED <<slot, market, batch, late, req, budget>>

-----------------------------------------------------------------------------
(***************************************************************************)
(* Requests.                                                               *)
(***************************************************************************)

At(r, pc) == req[r].pc = pc
Goto(r, pc) == req' = [req EXCEPT ![r].pc = pc]
Ended(r) == req[r].pc \in {"free", "done", "failed"}

\* The next request, if the bounds leave one.
CanStart(r) == r <= budget.requests /\ At(r, "free") /\ \A q \in Req : q < r => ~At(q, "free")
Started(r, kind, who, pc, ctx) ==
    req' = [req EXCEPT ![r] = [Free EXCEPT !.kind = kind, !.who = who, !.pc = pc, !.ctx = ctx]]

\* Every route's catch: HTTP 500, and nothing that landed is undone.
Fails(r) == Goto(r, "failed") /\ UNCHANGED chain

\* An RPC call throws, or a transaction is not confirmed in time: the request
\* ends although its last transaction may have landed.
RequestDies(r) == ~Ended(r) /\ Fault /\ Fails(r)

\* waitForL1AccountChange: any change of the account's data ends the wait.
L1Changed(r) == batch.l1.runs # req[r].pre
=============================================================================
