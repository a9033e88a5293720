----------------------------- MODULE TradeFlow ------------------------------
(***************************************************************************)
(* The trade flow of the demo application: DappTradeFlowPanel in a browser *)
(* for each trader, and the routes init-slot and counter-and-match, which  *)
(* ends in runTradeL1Settle.  The routes that only build an instruction    *)
(* (register-wallet, deposit-prepare, build-submit-order) are part of the  *)
(* panel's steps that call them.                                           *)
(*                                                                         *)
(* A panel waits for one answer at a time, but its request goes on when    *)
(* the page is reloaded or the connection is lost, and the user then       *)
(* starts another.                                                         *)
(***************************************************************************)
EXTENDS DemoChain

CONSTANTS MaxTries   \* bound on a panel's deposits and on its submits

VARIABLES
    panel,   \* the state of each trader's panel
    flight   \* submit_order transactions sent and not yet executed or dropped

\* wait: 0, or the request the panel awaits, or MaxReq + 1 for its transaction.
AwaitsTx == MaxReq + 1
NewPanel == [step |-> "idle", wait |-> 0, slot |-> MaxSlots, note |-> 0, order |-> 0,
             deposits |-> 0, submits |-> 0]

TradeInit ==
    /\ panel = [u \in Trader |-> NewPanel]
    /\ flight = {}

Note(u) == <<u, panel[u].note>>
Shows(u, step) == panel[u].step = step /\ panel[u].wait = 0
Await(u, w) == panel' = [panel EXCEPT ![u].wait = w]
Advance(u, step) == panel' = [panel EXCEPT ![u].step = step, ![u].wait = 0]

-----------------------------------------------------------------------------
(***************************************************************************)
(* Transactions of the wallet.                                             *)
(***************************************************************************)

\* PhantomTransactionForwarder.sendAndConfirm: returns after the transaction is
\* confirmed, also when it failed on chain; throws before or after it landed.
Outcome == [landed : BOOLEAN, returns : BOOLEAN]
Sends(o) == (o.landed /\ o.returns /\ UNCHANGED budget) \/ (~(o.landed /\ o.returns) /\ Fault)

\* register-wallet answers alreadyRegistered when the wallet entry exists.
AlreadyRegistered(u) == u \in vault.wallets

\* runRegister: a wallet that exists is not created again.
RunRegister(u) ==
    /\ Shows(u, "idle")
    /\ \/ /\ AlreadyRegistered(u)
          /\ Advance(u, "registered")
          /\ UNCHANGED <<vault, budget>>
       \/ /\ ~AlreadyRegistered(u)
          /\ \E o \in Outcome :
                /\ Sends(o)
                /\ vault' = IF o.landed THEN WalletCreated(u) ELSE vault
                /\ IF o.returns THEN Advance(u, "registered") ELSE UNCHANGED panel
    /\ UNCHANGED <<slot, market, batch, late, req, flight>>

\* deposit-prepare blinds the note by the leaf count it reads, which an earlier
\* deposit of this panel has moved if it landed: every attempt has its own note.
PreparedNote(u) == <<u, panel[u].deposits + 1>>

\* runDeposit: the panel keeps the note only when sendAndConfirm returns.
RunDeposit(u) ==
    /\ Shows(u, "slot_ready")
    /\ panel[u].deposits < MaxTries
    /\ \E o \in Outcome :
          /\ Sends(o)
          /\ vault' = IF o.landed THEN Deposited(PreparedNote(u)) ELSE vault
          /\ panel' = [panel EXCEPT ![u].deposits = @ + 1,
                                    ![u].note = IF o.returns THEN panel[u].deposits + 1 ELSE @,
                                    ![u].step = IF o.returns THEN "deposited" ELSE @]
    /\ UNCHANGED <<slot, market, batch, late, req, flight>>

\* build-submit-order puts what the panel sends into a submit_order.
BuiltOrder(u, s) == [by |-> u, slot |-> panel[u].slot, order |-> <<u, s>>, note |-> Note(u)]

\* runSubmitOrderEr up to the confirmation: orderCtxRef is overwritten before
\* anything is sent; the RPC node's preflight refuses an occupied slot.
RunSubmitOrderEr(u) ==
    /\ Shows(u, "deposited")
    /\ panel[u].submits < MaxTries
    /\ LET s == panel[u].submits + 1
           sent == CanSubmit(u, panel[u].slot)
       IN /\ panel' = [panel EXCEPT ![u].submits = s, ![u].order = s,
                                    ![u].wait = IF sent THEN AwaitsTx ELSE 0]
          /\ flight' = flight \cup IF sent THEN {BuiltOrder(u, s)} ELSE {}
    /\ UNCHANGED <<chain, req, budget>>

\* The ER executes a submit_order; one that finds the slot occupied fails.
OrderExecutes(f) ==
    /\ f \in flight
    /\ flight' = flight \ {f}
    /\ slot' = IF CanSubmit(f.by, f.slot) THEN OrderSubmitted(f.by, f.slot, f.order, f.note)
                                          ELSE slot
    /\ UNCHANGED <<market, batch, vault, late, req, budget, panel>>

\* confirmTransaction returns once it is executed, whatever its result.
SubmitConfirmed(u) ==
    /\ panel[u].wait = AwaitsTx
    /\ \A f \in flight : f.order # <<u, panel[u].order>>
    /\ Advance(u, "order_er")
    /\ UNCHANGED <<chain, req, budget, flight>>

\* The confirmation throws; the transaction may still execute, or was dropped.
SubmitLost(u) ==
    /\ panel[u].wait = AwaitsTx
    /\ Fault
    /\ Await(u, 0)
    /\ flight' \in {flight, {f \in flight : f.order # <<u, panel[u].order>>}}
    /\ UNCHANGED <<chain, req>>

-----------------------------------------------------------------------------
(***************************************************************************)
(* Calls of the routes.                                                    *)
(***************************************************************************)

\* In a quiet scenario requests are served one at a time.
MayCall == budget.quiet => \A r \in Req : Ended(r)

\* runInitSlot and runCounterMatch, up to the fetch.
Call(u, step, kind) ==
    /\ Shows(u, step) /\ MayCall
    /\ \E r \in Req :
          /\ CanStart(r)
          /\ Started(r, kind, u, "market",
                     [slot |-> panel[u].slot, note |-> Note(u), order |-> <<u, panel[u].order>>])
          /\ Await(u, r)
    /\ UNCHANGED <<chain, budget, flight>>
RunInitSlot(u) == Call(u, "registered", "init")
RunCounterMatch(u) == Call(u, "order_er", "match")

\* Mutant: the answer to a match is not looked at.
PanelAnswered_Unchecked(u) ==
    /\ panel[u].wait \in Req
    /\ Ended(panel[u].wait)
    /\ LET q == req[panel[u].wait]
       IN \/ q.kind = "match" /\ Advance(u, "matched")
          \/ /\ q.pc = "done" /\ q.kind = "init"
             /\ panel' = [panel EXCEPT ![u].wait = 0, ![u].step = "slot_ready", ![u].slot = q.slot]
    /\ UNCHANGED <<chain, req, budget, flight>>
\* The answer: after an error the panel stays at its step.
PanelAnswered(u) ==
    /\ panel[u].wait \in Req
    /\ Ended(panel[u].wait)
    /\ LET q == req[panel[u].wait]
       IN \/ q.pc = "failed" /\ Await(u, 0)
          \/ q.pc = "done" /\ q.kind = "match" /\ Advance(u, "matched")
          \/ /\ q.pc = "done" /\ q.kind = "init"
             /\ panel' = [panel EXCEPT ![u].wait = 0, ![u].step = "slot_ready", ![u].slot = q.slot]
    /\ UNCHANGED <<chain, req, budget, flight>>

\* The fetch fails while the server goes on.
ConnectionLost(u) ==
    /\ panel[u].wait \in Req
    /\ Fault
    /\ Await(u, 0)
    /\ UNCHANGED <<chain, req, flight>>

\* A reload forgets everything but what the counters stand for: new notes and
\* orders never have the names of old ones.
Reload(u) ==
    /\ Fault
    /\ panel[u].step # "idle"
    /\ panel' = [panel EXCEPT ![u] = [NewPanel EXCEPT !.deposits = panel[u].deposits,
                                                      !.submits = panel[u].submits]]
    /\ UNCHANGED <<chain, req, flight>>

-----------------------------------------------------------------------------
(***************************************************************************)
(* The routes.  Both start with ensureMarketDelegatedOnL1 and choose a     *)
(* slot in the same way, for the user or for the maker.                    *)
(***************************************************************************)

Trade(r) == req[r].kind \in {"init", "match"}
SlotKey(r) == IF req[r].kind = "init" THEN req[r].who ELSE Maker
OwnId(r) == <<Maker, r>>   \* the maker's note and order of a match request

\* ensureMarketDelegatedOnL1 returns when L1 shows the CLOB with the delegation
\* program, also when it is on its way back.
ReadMarket(r) ==
    /\ At(r, "market") /\ Trade(r)
    /\ Goto(r, IF market = "l1" THEN "delegate"
               ELSE IF req[r].kind = "init" THEN "scan" ELSE "fee")
    /\ UNCHANGED <<chain, budget>>

DelegateMarket(r) ==
    /\ At(r, "delegate") /\ Trade(r)
    /\ DelegateMarketTx
    /\ Goto(r, IF req[r].kind = "init" THEN "scan" ELSE "fee")
    /\ UNCHANGED <<slot, vault, late, budget>>

\* Mutant: the fee rate is read and left alone.
EnsureZeroProtocolFee_ReadOnly(r) ==
    /\ At(r, "fee")
    /\ Goto(r, "deposit")
    /\ UNCHANGED <<slot, market, batch, vault, late, budget>>
EnsureZeroProtocolFee(r) ==
    /\ At(r, "fee")
    /\ vault' = [vault EXCEPT !.fee = FALSE]
    /\ Goto(r, "deposit")
    /\ UNCHANGED <<slot, market, batch, late, budget>>

\* The counterparty's mint and deposit.
MakerDeposit(r) ==
    /\ At(r, "deposit") /\ Trade(r)
    /\ vault' = Deposited(OwnId(r))
    /\ Goto(r, "scan")
    /\ UNCHANGED <<slot, market, batch, late, budget>>

\* chooseFreshSlot, one account at a time: the first absent slot; else the
\* first reusable one; else an error.
ScanSlot(r) ==
    /\ At(r, "scan") /\ Trade(r)
    /\ LET k == SlotKey(r)
           i == req[r].slot
           reuse == IF req[r].reuse = MaxSlots /\ Reusable(k, i) THEN i ELSE req[r].reuse
           pending == req[r].seen \cup IF slot[k][i].status = "Pending" THEN {slot[k][i].order} ELSE {}
       IN IF slot[k][i].l1 = "absent"
          THEN Goto(r, "ensure")
          ELSE IF i < MaxSlots - 1
          THEN req' = [req EXCEPT ![r].slot = i + 1, ![r].reuse = reuse, ![r].seen = pending]
          ELSE req' = [req EXCEPT ![r].slot = reuse, ![r].seen = pending,
                                  ![r].pc = IF reuse = MaxSlots THEN "failed" ELSE "ensure"]
    /\ UNCHANGED <<chain, budget>>

\* ensureSlotDelegated: initialize if still absent, delegate unless delegated.
EnsureSlot(r) ==
    /\ At(r, "ensure") /\ Trade(r)
    /\ LET where == slot[SlotKey(r)][req[r].slot].l1
       IN Goto(r, IF where = "absent" THEN "init"
                  ELSE IF where = "owned" THEN "delegateSlot"
                  ELSE IF req[r].kind = "init" THEN "done" ELSE "submit")
    /\ UNCHANGED <<chain, budget>>

InitSlot(r) ==
    /\ At(r, "init") /\ Trade(r)
    /\ CanInitSlot(SlotKey(r), req[r].slot)
    /\ slot' = SlotInitialized(SlotKey(r), req[r].slot)
    /\ Goto(r, "ensure")
    /\ UNCHANGED <<market, batch, vault, late, budget>>

DelegateSlot(r) ==
    /\ At(r, "delegateSlot") /\ Trade(r)
    /\ CanDelegateSlot(SlotKey(r), req[r].slot)
    /\ slot' = SlotDelegated(SlotKey(r), req[r].slot)
    /\ Goto(r, IF req[r].kind = "init" THEN "done" ELSE "submit")
    /\ UNCHANGED <<market, batch, vault, late, budget>>

\* The counterparty's submit_order, sized and priced like the user's.
MakerSubmit(r) ==
    /\ At(r, "submit") /\ Trade(r)
    /\ CanSubmit(Maker, req[r].slot)
    /\ slot' = OrderSubmitted(Maker, req[r].slot, OwnId(r), OwnId(r))
    /\ Goto(r, "pre")
    /\ UNCHANGED <<market, batch, vault, late, budget>>

\* preHex: BatchResults as L1 shows it before the batch.
ReadPreBatch(r) ==
    /\ At(r, "pre") /\ Trade(r)
    /\ req' = [req EXCEPT ![r].pre = batch.l1.runs, ![r].pc = "run"]
    /\ UNCHANGED <<chain, budget>>

RunBatch(r) ==
    /\ At(r, "run") /\ Trade(r)
    /\ RunBatchTx(req[r].who, req[r].ctx.slot, Maker, req[r].slot)
    /\ Goto(r, "undelegate")
    /\ UNCHANGED <<market, vault, late, budget>>

Undelegate(r) ==
    /\ At(r, "undelegate") /\ Trade(r)
    /\ UndelegateTx
    /\ Goto(r, "wait")
    /\ UNCHANGED <<slot, batch, vault, late, budget>>

WaitL1(r) ==
    /\ At(r, "wait") /\ Trade(r)
    /\ L1Changed(r)
    /\ Goto(r, "find")
    /\ UNCHANGED <<chain, budget>>

-----------------------------------------------------------------------------
(***************************************************************************)
(* runTradeL1Settle.                                                       *)
(***************************************************************************)

\* Mutant: the ring is searched for the user's note only.
ThisRunsMatch_UserOnly(r) == {m \in batch.l1.log : m.buyer = req[r].ctx.note}
\* The match of this run, by both notes.
ThisRunsMatch(r) ==
    {m \in batch.l1.log : m.buyer = req[r].ctx.note /\ m.seller = OwnId(r)}

\* No match, or one with fees, is an error; otherwise the payload is built from
\* the match, with the order ids of the request.
FindMatch(r) ==
    /\ At(r, "find")
    /\ \E m \in ThisRunsMatch(r) :
          /\ ~m.fee
          /\ req' = [req EXCEPT ![r].pc = "lock", ![r].seller = m.seller]
    /\ UNCHANGED <<chain, budget>>

LockNotes(r) ==
    /\ At(r, "lock")
    /\ CanLock(req[r].ctx.note, req[r].ctx.order, req[r].seller, OwnId(r))
    /\ vault' = NotesLocked(req[r].ctx.note, req[r].ctx.order, req[r].seller, OwnId(r))
    /\ Goto(r, "settle")
    /\ UNCHANGED <<slot, market, batch, late, budget>>

Settle(r) ==
    /\ At(r, "settle")
    /\ CanSettle(req[r].ctx.note, req[r].ctx.order, req[r].seller, OwnId(r))
    /\ vault' = NotesSettled(req[r].ctx.note, req[r].ctx.order, req[r].seller, OwnId(r))
    /\ Goto(r, "done")
    /\ UNCHANGED <<slot, market, batch, late, budget>>

\* A transaction or a check that the state refuses ends the request.
Refused(r) ==
    /\ Trade(r)
    /\ \/ At(r, "delegate") /\ market # "l1"
       \/ At(r, "init") /\ ~CanInitSlot(SlotKey(r), req[r].slot)
       \/ At(r, "delegateSlot") /\ ~CanDelegateSlot(SlotKey(r), req[r].slot)
       \/ At(r, "submit") /\ ~CanSubmit(Maker, req[r].slot)
       \/ At(r, "run") /\ ~CanRunBatch(req[r].who, req[r].ctx.slot, Maker, req[r].slot)
       \/ At(r, "undelegate") /\ market # "er"
       \/ At(r, "find") /\ \A m \in ThisRunsMatch(r) : m.fee
       \/ At(r, "lock") /\ ~CanLock(req[r].ctx.note, req[r].ctx.order, req[r].seller, OwnId(r))
       \/ At(r, "settle") /\ ~CanSettle(req[r].ctx.note, req[r].ctx.order, req[r].seller, OwnId(r))
    /\ Fails(r) /\ UNCHANGED budget

PanelStep(u) ==
    /\ u \in budget.traders
    /\ \/ RunRegister(u) \/ RunInitSlot(u) \/ RunDeposit(u) \/ RunSubmitOrderEr(u)
       \/ SubmitConfirmed(u) \/ SubmitLost(u) \/ RunCounterMatch(u)
       \/ PanelAnswered(u) \/ ConnectionLost(u) \/ Reload(u)

TradeStep(r) ==
    \/ ReadMarket(r) \/ DelegateMarket(r) \/ EnsureZeroProtocolFee(r) \/ MakerDeposit(r)
    \/ ScanSlot(r) \/ EnsureSlot(r) \/ InitSlot(r) \/ DelegateSlot(r) \/ MakerSubmit(r)
    \/ ReadPreBatch(r) \/ RunBatch(r) \/ Undelegate(r) \/ WaitL1(r)
    \/ FindMatch(r) \/ LockNotes(r) \/ Settle(r) \/ Refused(r)
=============================================================================
