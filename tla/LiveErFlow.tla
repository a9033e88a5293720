----------------------------- MODULE LiveErFlow -----------------------------
(***************************************************************************)
(* The live panel's route, live-er-flow: a taker and a maker with fixed    *)
(* keys, whose slots, notes and orders are kept between requests in the    *)
(* file demo-live-state.json.  Every action of the panel is one request;   *)
(* requests of two tabs run concurrently, on the same file, the same       *)
(* market and the same maker key as the trade flow's.                      *)
(***************************************************************************)
EXTENDS DemoChain

CONSTANTS LiveTabs   \* browser tabs with the live panel

VARIABLES file       \* demo-live-state.json

NoState == None
LiveInit == file = NoState

Live(r) == req[r].kind \in {"bootstrap", "taker", "maker", "batch"}
RoleKey(role) == IF role = "taker" THEN Taker ELSE Maker
Actor(r, i) == [boot |-> r, slot |-> i, order |-> None]

\* runAction: a panel's buttons are disabled while its action is pending.
LiveClick(kind) ==
    /\ budget.live > 0
    /\ budget' = [budget EXCEPT !.live = @ - 1]
    /\ Cardinality({r \in Req : Live(r) /\ ~Ended(r)}) < LiveTabs
    /\ \E r \in Req :
          /\ CanStart(r)
          /\ Started(r, kind, Taker, IF kind = "bootstrap" THEN "deposit" ELSE "read", NoState)
    /\ UNCHANGED <<chain, file>>

-----------------------------------------------------------------------------
(***************************************************************************)
(* The state file.                                                         *)
(***************************************************************************)

\* readState: a missing file, and one that is being written, are no state.
ReadState(r) ==
    /\ At(r, "read")
    /\ req' = [req EXCEPT ![r].ctx = file,
                          ![r].pc = IF file = NoState THEN "failed"
                                    ELSE IF req[r].kind = "batch" THEN "pre" ELSE "send"]
    /\ UNCHANGED <<chain, budget, file>>

\* writeFile truncates, then writes; two at a time may leave a mixture, which
\* is read as no state.
WriteState(r) ==
    /\ At(r, "write")
    /\ file' = NoState
    /\ req' = [q \in Req |->
          IF q = r THEN [req[q] EXCEPT !.pc = "writing", !.mixed = \E p \in Req : At(p, "writing")]
          ELSE [req[q] EXCEPT !.mixed = @ \/ At(q, "writing")]]
    /\ UNCHANGED <<chain, budget>>
StateWritten(r) ==
    /\ At(r, "writing")
    /\ \/ file' = req[r].ctx
       \/ req[r].mixed /\ file' = NoState
    /\ req' = [req EXCEPT ![r].pc = "done", ![r].mixed = FALSE]
    /\ UNCHANGED <<chain, budget>>

-----------------------------------------------------------------------------
(***************************************************************************)
(* handleBootstrap.                                                        *)
(***************************************************************************)

\* The taker's deposit, then the maker's.
LiveDeposit(r) ==
    /\ At(r, "deposit") /\ Live(r)
    /\ vault' = Deposited(<<req[r].who, r>>)
    /\ req' = IF req[r].who = Taker THEN [req EXCEPT ![r].who = Maker]
              ELSE [req EXCEPT ![r].who = Taker, ![r].pc = "choose"]
    /\ UNCHANGED <<slot, market, batch, late, budget, file>>

\* chooseFreshSlot looks for an absent account at twice as many indices as the
\* program allows, so that the first index past the cap always is one.  Accounts
\* never disappear: its reads are one step, the last of them, for each role.
FreshSlot(k) == Min({i \in 0 .. 2 * MaxSlots - 1 : i \in SlotIdx => slot[k][i].l1 = "absent"})
LiveChoose(r) ==
    /\ At(r, "choose")
    /\ LET fresh == FreshSlot(req[r].who)
       IN req' = IF req[r].who = Taker THEN [req EXCEPT ![r].who = Maker, ![r].slot = fresh]
                 ELSE [req EXCEPT ![r].who = Taker, ![r].pc = "ensure",
                         ![r].ctx = [taker |-> Actor(r, req[r].slot), maker |-> Actor(r, fresh), ran |-> 0]]
    /\ UNCHANGED <<chain, budget, file>>

\* ensureSlotDelegated of the taker's slot, then of the maker's.
LiveSlotReady(r) ==
    req' = IF req[r].who = Taker
           THEN [req EXCEPT ![r].who = Maker, ![r].slot = req[r].ctx.maker.slot, ![r].pc = "ensure"]
           ELSE [req EXCEPT ![r].pc = "market"]
LiveEnsureSlot(r) ==
    /\ At(r, "ensure") /\ Live(r)
    /\ LET i == req[r].slot
           where == IF i \in SlotIdx THEN slot[req[r].who][i].l1 ELSE "absent"
       IN \/ where = "absent" /\ Goto(r, "init")
          \/ where = "owned" /\ Goto(r, "delegateSlot")
          \/ where = "delegated" /\ LiveSlotReady(r)
    /\ UNCHANGED <<chain, budget, file>>
LiveInitSlot(r) ==
    /\ At(r, "init") /\ Live(r)
    /\ CanInitSlot(req[r].who, req[r].slot)
    /\ slot' = SlotInitialized(req[r].who, req[r].slot)
    /\ Goto(r, "ensure")
    /\ UNCHANGED <<market, batch, vault, late, budget, file>>
LiveDelegateSlot(r) ==
    /\ At(r, "delegateSlot") /\ Live(r)
    /\ CanDelegateSlot(req[r].who, req[r].slot)
    /\ slot' = SlotDelegated(req[r].who, req[r].slot)
    /\ LiveSlotReady(r)
    /\ UNCHANGED <<market, batch, vault, late, budget, file>>

\* ensureMarketDelegated.
LiveReadMarket(r) ==
    /\ At(r, "market") /\ Live(r)
    /\ Goto(r, IF market = "l1" THEN "delegate" ELSE "write")
    /\ UNCHANGED <<chain, budget, file>>
LiveDelegateMarket(r) ==
    /\ At(r, "delegate") /\ Live(r)
    /\ DelegateMarketTx
    /\ Goto(r, "write")
    /\ UNCHANGED <<slot, vault, late, budget, file>>

-----------------------------------------------------------------------------
(***************************************************************************)
(* handleSubmitOrder.                                                      *)
(***************************************************************************)

LiveSubmit(r) ==
    /\ At(r, "send")
    /\ LET a == req[r].ctx[req[r].kind]
           k == RoleKey(req[r].kind)
       IN /\ CanSubmit(k, a.slot)
          /\ slot' = OrderSubmitted(k, a.slot, <<k, r>>, <<k, a.boot>>)
    /\ Goto(r, "reread")
    /\ UNCHANGED <<market, batch, vault, late, budget, file>>

\* Mutant: the actor that was read before the order was sent is written back.
NextState_Stale(r) ==
    IF file = NoState THEN NoState
    ELSE [file EXCEPT ![req[r].kind] = [req[r].ctx[req[r].kind] EXCEPT
                                           !.order = <<RoleKey(req[r].kind), r>>]]
\* The file is read again, so that only the order of this role changes.
NextState(r) ==
    IF file = NoState THEN NoState
    ELSE [file EXCEPT ![req[r].kind].order = <<RoleKey(req[r].kind), r>>]
RereadState(r) ==
    /\ At(r, "reread")
    /\ req' = [req EXCEPT ![r].ctx = NextState(r), ![r].pc = "write"]
    /\ UNCHANGED <<chain, budget, file>>

-----------------------------------------------------------------------------
(***************************************************************************)
(* handleRunBatch, which writes back the state it read at its start.       *)
(***************************************************************************)

LiveReadPre(r) ==
    /\ At(r, "pre") /\ Live(r)
    /\ req' = [req EXCEPT ![r].pre = batch.l1.runs, ![r].pc = "run"]
    /\ UNCHANGED <<chain, budget, file>>
LiveRunBatch(r) ==
    /\ At(r, "run") /\ Live(r)
    /\ RunBatchTx(Taker, req[r].ctx.taker.slot, Maker, req[r].ctx.maker.slot)
    /\ Goto(r, "undelegate")
    /\ UNCHANGED <<market, vault, late, budget, file>>
LiveUndelegate(r) ==
    /\ At(r, "undelegate") /\ Live(r)
    /\ UndelegateTx
    /\ Goto(r, "wait")
    /\ UNCHANGED <<slot, batch, vault, late, budget, file>>
LiveWaitL1(r) ==
    /\ At(r, "wait") /\ Live(r)
    /\ L1Changed(r)
    /\ req' = [req EXCEPT ![r].pc = "write", ![r].ctx.ran = r]
    /\ UNCHANGED <<chain, budget, file>>

LiveRefused(r) ==
    /\ Live(r)
    /\ \/ At(r, "init") /\ ~CanInitSlot(req[r].who, req[r].slot)
       \/ At(r, "delegateSlot") /\ ~CanDelegateSlot(req[r].who, req[r].slot)
       \/ At(r, "delegate") /\ market # "l1"
       \/ At(r, "send") /\ ~CanSubmit(RoleKey(req[r].kind), req[r].ctx[req[r].kind].slot)
       \/ At(r, "run") /\ ~CanRunBatch(Taker, req[r].ctx.taker.slot, Maker, req[r].ctx.maker.slot)
       \/ At(r, "undelegate") /\ market # "er"
    /\ Fails(r) /\ UNCHANGED <<budget, file>>

LiveStep(r) ==
    \/ ReadState(r) \/ WriteState(r) \/ StateWritten(r)
    \/ LiveDeposit(r) \/ LiveChoose(r) \/ LiveEnsureSlot(r) \/ LiveInitSlot(r)
    \/ LiveDelegateSlot(r) \/ LiveReadMarket(r) \/ LiveDelegateMarket(r)
    \/ LiveSubmit(r) \/ RereadState(r)
    \/ LiveReadPre(r) \/ LiveRunBatch(r) \/ LiveUndelegate(r) \/ LiveWaitL1(r)
    \/ LiveRefused(r)

-----------------------------------------------------------------------------

(***************************************************************************)
(* The state file never pairs a taker and a maker of different bootstraps, *)
(* whatever requests overlap: a request writes back whole states, or one   *)
(* field of the state it has just read.                                    *)
(***************************************************************************)
SameBootstrap == file # NoState => file.taker.boot = file.maker.boot
=============================================================================
