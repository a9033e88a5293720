----------------------------- MODULE DemoMarket -----------------------------
(***************************************************************************)
(* The demo application on one market: the trade flow and the live flow    *)
(* share the market accounts, the maker's key and its slots.  A client     *)
(* asks for a note's status while they run.                                *)
(***************************************************************************)
EXTENDS TradeFlow, LiveErFlow

VARIABLES reader   \* a call of DarkPoolClient.getNoteStatus

vars == <<slot, market, batch, vault, late, req, budget, panel, flight, file, reader>>

Init ==
    /\ ChainInit /\ TradeInit /\ LiveInit
    /\ reader = [pc |-> "idle", note |-> None, status |-> "none", active |-> FALSE]

\* getNoteStatus: the consumed entry, then the lock, in two reads.  The field
\* active records whether the note had neither at one of the reads; between
\* them a lock can go only by settlement while no order expires.
Neither(n) == ~Consumed(n) /\ ~Locked(n)
ReadConsumed ==
    /\ reader.pc = "idle" /\ budget.reads > 0
    /\ budget' = [budget EXCEPT !.reads = @ - 1]
    /\ \E n \in vault.notes :
          reader' = [pc |-> IF Consumed(n) THEN "done" ELSE "lock", note |-> n,
                     status |-> IF Consumed(n) THEN "consumed" ELSE "none", active |-> Neither(n)]
    /\ UNCHANGED <<chain, req, panel, flight, file>>
ReadLock ==
    /\ reader.pc = "lock"
    /\ reader' = [reader EXCEPT !.pc = "done",
                                !.status = IF Locked(reader.note) THEN "locked" ELSE "active",
                                !.active = @ \/ Neither(reader.note)]
    /\ UNCHANGED <<chain, req, budget, panel, flight, file>>

TradeNext ==
    \/ \E u \in Trader : PanelStep(u)
    \/ \E r \in Req : TradeStep(r) /\ UNCHANGED <<panel, flight>>
    \/ \E f \in flight : OrderExecutes(f)
LiveNext ==
    \/ \E kind \in {"bootstrap", "taker", "maker", "batch"} : LiveClick(kind)
    \/ \E r \in Req : LiveStep(r)
ChainNext ==
    \/ CommitLands \/ FeeSet \/ OrderExpires \/ LockReleased
    \/ \E r \in Req : RequestDies(r)

Next ==
    \/ TradeNext /\ UNCHANGED <<file, reader>>
    \/ LiveNext /\ UNCHANGED <<panel, flight, reader>>
    \/ ChainNext /\ UNCHANGED <<panel, flight, file, reader>>
    \/ ReadConsumed \/ ReadLock

Spec == Init /\ [][Next]_vars

-----------------------------------------------------------------------------

PCs == {"free", "done", "failed", "market", "delegate", "fee", "deposit", "scan", "choose",
        "ensure", "init", "delegateSlot", "submit", "send", "read", "reread", "write",
        "writing", "pre", "run", "undelegate", "wait", "find", "lock", "settle"}
Steps == {"idle", "registered", "slot_ready", "deposited", "order_er", "matched"}

\* Types of the chain, the requests, the panels and the state file.
TypeOK ==
    /\ slot \in [Key -> [SlotIdx -> [l1 : {"absent", "owned", "delegated"},
                                     status : {"Empty", "Pending", "Matched", "Expired"},
                                     order : Id, note : Id]]]
    /\ market \in {"l1", "er", "returning"}
    /\ batch.l1.log \subseteq batch.er.log /\ batch.l1.runs <= batch.er.runs
    /\ \A l \in vault.locks : l.note \in Id /\ l.order \in Id
    /\ late \subseteq Id
    /\ \A r \in Req : req[r].pc \in PCs /\ req[r].slot \in 0 .. MaxSlots
    /\ \A u \in Trader : panel[u].step \in Steps /\ panel[u].wait \in 0 .. AwaitsTx

(***************************************************************************)
(* What is settled was matched: each settlement is of a pair that          *)
(* run_batch matched without a fee, under the maker order of that match;   *)
(* no note is settled twice, although a note can be matched twice and      *)
(* locked again after it was consumed.                                     *)
(***************************************************************************)
SettledAsMatched ==
    /\ \A s \in vault.settled :
          \E m \in batch.l1.log : /\ m.buyer = s.buyer /\ m.seller = s.seller
                                  /\ m.sellOrder = s.sellOrder /\ ~m.fee
    /\ \A s, t \in vault.settled : {s.buyer, s.seller} \cap {t.buyer, t.seller} # {} => s = t

(***************************************************************************)
(* What a panel shows is so.  "matched": its note is settled.  Its bid     *)
(* placed: an order under its note, or under one of an earlier page load   *)
(* that was executed late and took the slot, is pending there, has expired,*)
(* or was matched by a request of this trader; a request of an earlier page*)
(* load may be the one that matches the order of this one.  A failed       *)
(* request therefore leaves either an order that the next one can match, or*)
(* a match that was run and is not settled.                                *)
(***************************************************************************)
Own(u) == {<<u, n>> : n \in 1 .. panel[u].note}
RanFor(u) ==
    \E r \in Req : /\ req[r].kind = "match" /\ req[r].who = u
                   /\ req[r].pc \in {"undelegate", "wait", "find", "lock", "settle", "done", "failed"}
PlacedOrMatched(u) ==
    LET s == slot[u][panel[u].slot]
    IN \/ s.status = "Pending" /\ s.note \in Own(u)
       \/ s.status = "Expired"
       \/ (\E m \in batch.er.log : m.buyer \in Own(u)) /\ RanFor(u)
PanelTruth ==
    \A u \in Trader :
       /\ Shows(u, "matched") => \E s \in vault.settled : s.buyer = Note(u)
       /\ panel[u].step = "order_er" => PlacedOrMatched(u)

\* A maker order is refused for an occupied slot only in a race: the order that
\* occupies it was not there when chooseFreshSlot looked.
SlotRace ==
    \A r \in Req :
       At(r, "submit") /\ ~CanSubmit(Maker, req[r].slot)
          => slot[Maker][req[r].slot].order \notin req[r].seen

\* Requests that are served one at a time, without faults, all succeed: each
\* finds the market where the one before it has left it.
QuietSucceeds == budget.quiet => \A r \in Req : ~At(r, "failed")

\* getNoteStatus's "active" means that neither PDA exists (client.ts, its doc).
ActiveMeansNeither == reader.status = "active" => reader.active
=============================================================================
