----------------------------- MODULE DemoProofs -----------------------------
(***************************************************************************)
(* The safety properties of the demo application, for any number of        *)
(* traders, requests, slots, tabs and faults.  The inductive invariant has *)
(* five layers, each proved from ones before it: types and stages of the   *)
(* requests, names of notes and matches, the maker's slots, the panels,    *)
(* and what requests find that are served one at a time without faults.    *)
(***************************************************************************)
EXTENDS DemoMarket, TLAPS, WellFoundedInduction

-----------------------------------------------------------------------------
\* The first layer: types, and what is known of a request at each stage.

Place == 0 .. MaxSlots
SlotRecord == [l1 : {"absent", "owned", "delegated"},
               status : {"Empty", "Pending", "Matched", "Expired"}, order : Id, note : Id]
Match == [buyer : Id, buyOrder : Id, seller : Id, sellOrder : Id, fee : BOOLEAN]
Results == [runs : Nat, log : SUBSET Match]
Lock == [note : Id, order : Id]
Settlement == [buyer : Id, buyOrder : Id, seller : Id, sellOrder : Id]
Vault == [wallets : SUBSET Trader, notes : SUBSET Id, locks : SUBSET Lock,
          settled : SUBSET Settlement, fee : BOOLEAN]

\* The states of the file: both actors are of one bootstrap.
ActorRecord == [boot : Req, slot : Place, order : Id]
LiveState == {s \in [taker : ActorRecord, maker : ActorRecord, ran : 0 .. MaxReq] :
                 s.taker.boot = s.maker.boot}

TradeKinds == {"init", "match"}
LiveKinds == {"bootstrap", "taker", "maker", "batch"}
TradeCtx == [slot : Place, note : Trader \X Nat, order : Trader \X Nat]
Ctx == {None} \cup LiveState \cup TradeCtx
Request == [kind : {"none"} \cup TradeKinds \cup LiveKinds, who : Key \cup {None}, pc : PCs,
            slot : Place, reuse : Place, ctx : Ctx, pre : Nat, seller : Id, seen : SUBSET Id,
            mixed : BOOLEAN]

Ends == {"done", "failed"}
Stage(x) ==
    /\ x.kind = "none" <=> x.pc = "free"
    /\ x.kind = "init" => x.pc \in Ends \cup {"market", "delegate", "scan", "ensure", "init", "delegateSlot"}
    /\ x.kind = "match" =>
          x.pc \in Ends \cup {"market", "delegate", "fee", "deposit", "scan", "ensure", "init",
                              "delegateSlot", "submit", "pre", "run", "undelegate", "wait",
                              "find", "lock", "settle"}
    /\ x.kind = "bootstrap" =>
          x.pc \in Ends \cup {"deposit", "choose", "ensure", "init", "delegateSlot", "market",
                              "delegate", "write", "writing"}
    /\ x.kind \in {"taker", "maker"} => x.pc \in Ends \cup {"read", "send", "reread", "write", "writing"}
    /\ x.kind = "batch" =>
          x.pc \in Ends \cup {"read", "pre", "run", "undelegate", "wait", "write", "writing"}
    /\ x.kind \in TradeKinds =>
          /\ x.who \in Trader /\ x.ctx \in TradeCtx
          /\ x.ctx.note[1] = x.who /\ x.ctx.order[1] = x.who
          /\ x.pc # "failed" => x.slot \in SlotIdx
    /\ x.kind \in LiveKinds => x.who \in {Taker, Maker} /\ x.ctx \in {None} \cup LiveState
    /\ x.kind \in LiveKinds /\ x.pc \in {"send", "pre", "run", "undelegate", "wait"} => x.ctx \in LiveState
    /\ x.kind = "bootstrap" /\ x.pc \notin Ends \cup {"deposit", "choose"} => x.ctx \in LiveState

PanelRecord == [step : Steps, wait : 0 .. AwaitsTx, slot : Place, note : Nat, order : Nat,
                deposits : Nat, submits : Nat]
Flight == [by : Trader, slot : Place, order : Id, note : Id]

ChainTypes ==
    /\ slot \in [Key -> [SlotIdx -> SlotRecord]]
    /\ market \in {"l1", "er", "returning"}
    /\ batch \in [er : Results, l1 : Results]
    /\ batch.l1.log \subseteq batch.er.log /\ batch.l1.runs <= batch.er.runs
    /\ market = "l1" => batch.er = batch.l1
    /\ vault \in Vault
    /\ late \subseteq Id
Requests == req \in [Req -> Request] /\ \A r \in Req : Stage(req[r])
Pages == panel \in [Trader -> PanelRecord] /\ flight \subseteq Flight
File == file \in {None} \cup LiveState

TypeInv == ChainTypes /\ Requests /\ Pages /\ File

-----------------------------------------------------------------------------
\* The second layer: which request a note of the maker's is named after.

\* A maker's note is named after a match request, whose order has the same
\* name, or after a bootstrap.
Named(n, o) ==
    n # None => /\ n \in {Maker} \X Req
                /\ req[n[2]].kind \in {"match", "bootstrap"}
                /\ req[n[2]].kind = "match" => o = n
Booted(s) == s # None => req[s.maker.boot].kind = "bootstrap"

\* What a match request has found, and what it leaves when it succeeds.
Found(r) ==
    At(r, "lock") \/ At(r, "settle") =>
       /\ req[r].seller = OwnId(r)
       /\ \E m \in batch.l1.log : m.buyer = req[r].ctx.note /\ m.seller = OwnId(r) /\ ~m.fee
Succeeded(r) ==
    req[r].kind = "match" /\ At(r, "done") => \E s \in vault.settled : s.buyer = req[r].ctx.note

MatchInv ==
    /\ \A i \in SlotIdx : Named(slot[Maker][i].note, slot[Maker][i].order)
    /\ \A m \in batch.er.log : Named(m.seller, m.sellOrder)
    /\ \A r \in Req : (req[r].kind \in LiveKinds => Booted(req[r].ctx)) /\ Found(r) /\ Succeeded(r)
    /\ Booted(file)
    /\ SettledAsMatched

-----------------------------------------------------------------------------
\* The third layer: the maker's orders are each in one slot, and chooseFreshSlot
\* never takes a slot in which it has seen an order.

\* The stages after an order was sent.
Sent == {"pre", "run", "undelegate", "wait", "find", "lock", "settle", "reread", "write",
         "writing", "done", "failed"}
Order(i) == slot[Maker][i].order
MakerOrder(o) == o \in {Maker} \X Req /\ req[o[2]].pc \in Sent
SeenElsewhere(r) ==
    req[r].kind = "match" =>
       /\ req[r].pc \in {"market", "delegate", "fee", "deposit"} => req[r].seen = {} /\ req[r].reuse = MaxSlots
       /\ At(r, "scan") => req[r].reuse = MaxSlots \/ req[r].reuse < req[r].slot
       /\ \A o \in req[r].seen :
             /\ MakerOrder(o)
             /\ \A i \in SlotIdx : Order(i) = o =>
                   /\ At(r, "scan") => i < req[r].slot /\ i # req[r].reuse
                   /\ req[r].pc \in {"ensure", "init", "delegateSlot", "submit"} => i # req[r].slot
RaceInv ==
    /\ \A i \in SlotIdx : /\ Order(i) # None => MakerOrder(Order(i))
                          /\ slot[Maker][i].status = "Pending" => Order(i) # None
    /\ \A i, j \in SlotIdx : Order(i) = Order(j) /\ Order(i) # None => i = j
    /\ \A r \in Req : SeenElsewhere(r)

-----------------------------------------------------------------------------
\* The fourth layer: the panels.

Delegated(u, i) == i \in SlotIdx /\ slot[u][i].l1 = "delegated"
OwnOrder(f) ==
    /\ f.order \in {f.by} \X (1 .. panel[f.by].submits)
    /\ f.note \in {f.by} \X (1 .. panel[f.by].deposits)
    /\ Delegated(f.by, f.slot)
Page(u) ==
    /\ panel[u].order <= panel[u].submits
    /\ panel[u].step \in {"deposited", "order_er", "matched"}
          => panel[u].note = panel[u].deposits /\ panel[u].note > 0
    /\ panel[u].step \in {"slot_ready", "deposited", "order_er", "matched"} => Delegated(u, panel[u].slot)
    /\ panel[u].wait \in Req =>
          /\ req[panel[u].wait].who = u
          /\ \/ panel[u].step = "registered" /\ req[panel[u].wait].kind = "init"
             \/ /\ panel[u].step = "order_er" /\ req[panel[u].wait].kind = "match"
                /\ req[panel[u].wait].ctx.note = Note(u)
    /\ panel[u].wait = AwaitsTx =>
          /\ panel[u].step = "deposited"
          /\ \A f \in flight : f.order = <<u, panel[u].order>> => f.slot = panel[u].slot
          /\ (\E f \in flight : f.order = <<u, panel[u].order>>) \/ PlacedOrMatched(u)
    /\ \A i \in SlotIdx : slot[u][i].status = "Pending"
                             => slot[u][i].note \in {u} \X (1 .. panel[u].deposits)
\* PanelTruth of one panel.
Truth(u) ==
    /\ Shows(u, "matched") => \E s \in vault.settled : s.buyer = Note(u)
    /\ panel[u].step = "order_er" => PlacedOrMatched(u)
PanelInv ==
    /\ \A f \in flight : OwnOrder(f)
    /\ \A u \in Trader : Page(u) /\ Truth(u)
    /\ \A r \in Req : req[r].kind = "init" /\ At(r, "done") => Delegated(req[r].who, req[r].slot)

-----------------------------------------------------------------------------
(***************************************************************************)
(* Facts about the operators of the model.                                 *)
(***************************************************************************)

\* A set of natural numbers has a smallest element, which Min returns.
LEMMA MinFact ==
  ASSUME NEW S \in SUBSET Nat, S # {}
  PROVE  Min(S) \in S /\ \A y \in S : Min(S) <= y
  <1>1. PICK x \in S : \A y \in S : ~(<<y, x>> \in OpToRel(<, Nat))
    <2>1. S \subseteq Nat
      OBVIOUS
    <2>2. QED
      BY ONLY <2>1, S # {}, WFMin, NatLessThanWellFounded
  <1>2. ASSUME NEW y \in S  PROVE x <= y
    <2>1. ~(<<y, x>> \in OpToRel(<, Nat))
      BY <1>1
    <2>2. x \in Nat /\ y \in Nat
      BY <1>1
    <2>3. ~(y < x)
      BY <2>1, <2>2 DEF OpToRel
    <2>4. QED
      BY ONLY <2>2, <2>3, SMT
  <1>3. QED
    BY <1>1, <1>2 DEF Min

\* chooseFreshSlot of the live flow finds an index, at most the first one past
\* the program's cap.
LEMMA FreshSlotFact ==
  ASSUME NEW k  PROVE FreshSlot(k) \in Place
  <1> DEFINE S == {i \in 0 .. 2 * MaxSlots - 1 : i \in SlotIdx => slot[k][i].l1 = "absent"}
  <1>1. S \in SUBSET Nat /\ MaxSlots \in S
    BY DemoAssumption DEF SlotIdx
  <1>2. Min(S) \in S /\ Min(S) <= MaxSlots
    BY <1>1, MinFact
  <1>3. Min(S) \in Nat
    BY <1>1, <1>2
  <1>4. FreshSlot(k) = Min(S)
    BY DEF FreshSlot
  <1> HIDE DEF S
  <1>5. QED
    BY <1>2, <1>3, <1>4, DemoAssumption DEF Place

\* The names of notes and orders.
LEMMA NameFact ==
  /\ Req \subseteq Nat /\ SlotIdx \subseteq Place /\ Place \subseteq Nat /\ 0 \in SlotIdx /\ MaxSlots \in Place
  /\ Maker \in Key /\ Taker \in Key /\ Trader \subseteq Key
  /\ None \in Id /\ \A k \in Key, n \in Nat : <<k, n>> \in Id
  BY DemoAssumption DEF Req, SlotIdx, Place, Key, Id

\* A request's record can be replaced by one that fits its stage.
LEMMA RequestReplaced ==
  ASSUME Requests, NEW r \in Req, NEW x \in Request, Stage(x), req' = [req EXCEPT ![r] = x]
  PROVE  Requests' /\ req'[r] = x /\ \A q \in Req : q # r => req'[q] = req[q]
  <1>1. req' \in [Req -> Request] /\ req'[r] = x /\ \A q \in Req : q # r => req'[q] = req[q]
    BY DEF Requests
  <1>2. ASSUME NEW q \in Req  PROVE Stage(req'[q])
    BY <1>1 DEF Requests
  <1>3. QED
    BY <1>1, <1>2 DEF Requests, Stage, TradeCtx, LiveState

LEMMA RequestTyped ==
  ASSUME Requests, NEW r \in Req  PROVE req[r] \in Request /\ Stage(req[r])
  BY DEF Requests

\* Goto.
LEMMA GotoOK ==
  ASSUME Requests, NEW r \in Req, NEW pc \in PCs, Goto(r, pc),
         Stage([req[r] EXCEPT !.pc = pc])
  PROVE  Requests'
  <1> DEFINE x == [req[r] EXCEPT !.pc = pc]
  <1>1. req[r] \in Request
    BY RequestTyped
  <1>2. x \in Request
    BY <1>1 DEF Request
  <1>3. req' = [req EXCEPT ![r] = x]
    BY DEF Goto
  <1> HIDE DEF x
  <1>4. QED
    BY <1>2, <1>3, RequestReplaced DEF x

-----------------------------------------------------------------------------
(***************************************************************************)
(* What the chain's transactions change.                                   *)
(***************************************************************************)

SlotTypes == slot \in [Key -> [SlotIdx -> SlotRecord]]
\* The orders stay as they are, and what was delegated stays delegated.
SameOrders ==
    \A k \in Key, i \in SlotIdx :
       /\ slot'[k][i].status = slot[k][i].status /\ slot'[k][i].order = slot[k][i].order
       /\ slot'[k][i].note = slot[k][i].note
StillDelegated ==
    \A k \in Key, i \in SlotIdx : slot[k][i].l1 = "delegated" => slot'[k][i].l1 = "delegated"

\* One slot is replaced.
LEMMA SlotReplaced ==
  ASSUME SlotTypes, NEW k \in Key, NEW i \in SlotIdx, NEW s \in SlotRecord,
         slot' = [slot EXCEPT ![k] = [slot[k] EXCEPT ![i] = s]]
  PROVE  /\ SlotTypes' /\ slot'[k][i] = s
         /\ \A h \in Key, j \in SlotIdx : h # k \/ j # i => slot'[h][j] = slot[h][j]
  <1>1. slot[k] \in [SlotIdx -> SlotRecord]
    BY DEF SlotTypes
  <1>2. [slot[k] EXCEPT ![i] = s] \in [SlotIdx -> SlotRecord]
    BY <1>1
  <1>3. SlotTypes'
    BY <1>2 DEF SlotTypes
  <1>4. slot'[k] = [slot[k] EXCEPT ![i] = s] /\ \A h \in Key : h # k => slot'[h] = slot[h]
    BY DEF SlotTypes
  <1>5. QED
    BY <1>1, <1>3, <1>4

\* init_pending_order_slot and delegate_pending_order.
LEMMA SlotMoves ==
  ASSUME SlotTypes, NEW k \in Key, NEW i \in SlotIdx,
         \/ slot' = SlotInitialized(k, i) /\ slot[k][i].l1 # "delegated"
         \/ slot' = SlotDelegated(k, i)
  PROVE  /\ SlotTypes' /\ SameOrders /\ StillDelegated
         /\ slot' = SlotDelegated(k, i) => slot'[k][i].l1 = "delegated"
  <1>1. slot[k] \in [SlotIdx -> SlotRecord] /\ slot[k][i] \in SlotRecord
    BY DEF SlotTypes
  <1>2. ASSUME NEW where \in {"owned", "delegated"}, slot' = [slot EXCEPT ![k][i].l1 = where]
        PROVE  /\ SlotTypes' /\ SameOrders /\ slot'[k][i].l1 = where
               /\ \A h \in Key, j \in SlotIdx : h # k \/ j # i => slot'[h][j] = slot[h][j]
    <2> DEFINE s == [slot[k][i] EXCEPT !.l1 = where]
    <2>1. /\ s \in SlotRecord /\ s.l1 = where /\ s.status = slot[k][i].status
          /\ s.order = slot[k][i].order /\ s.note = slot[k][i].note
      BY <1>1 DEF SlotRecord
    <2>2. slot' = [slot EXCEPT ![k] = [slot[k] EXCEPT ![i] = s]]
      BY <1>2
    <2> HIDE DEF s
    <2>3. /\ SlotTypes' /\ slot'[k][i] = s
          /\ \A h \in Key, j \in SlotIdx : h # k \/ j # i => slot'[h][j] = slot[h][j]
      BY ONLY SlotTypes, k \in Key, i \in SlotIdx, <2>1, <2>2, SlotReplaced
    <2>4. QED
      BY <2>1, <2>3 DEF SameOrders
  <1>3. CASE slot' = SlotInitialized(k, i) /\ slot[k][i].l1 # "delegated"
    <2>1. /\ SlotTypes' /\ SameOrders /\ slot'[k][i].l1 = "owned"
          /\ \A h \in Key, j \in SlotIdx : h # k \/ j # i => slot'[h][j] = slot[h][j]
      BY <1>2, <1>3 DEF SlotInitialized
    <2>2. StillDelegated
      BY <1>3, <2>1 DEF StillDelegated
    <2>3. slot' = SlotDelegated(k, i) => slot'[k][i].l1 = "delegated"
      BY <1>2 DEF SlotDelegated
    <2>4. QED
      BY <2>1, <2>2, <2>3
  <1>4. CASE slot' = SlotDelegated(k, i)
    <2>1. /\ SlotTypes' /\ SameOrders /\ slot'[k][i].l1 = "delegated"
          /\ \A h \in Key, j \in SlotIdx : h # k \/ j # i => slot'[h][j] = slot[h][j]
      BY <1>2, <1>4 DEF SlotDelegated
    <2>2. QED
      BY <2>1 DEF StillDelegated
  <1>5. QED
    BY <1>3, <1>4

\* submit_order.
LEMMA SubmitFills ==
  ASSUME SlotTypes, NEW k \in Key, NEW i \in SlotIdx, NEW o \in Id, NEW n \in Id,
         slot' = OrderSubmitted(k, i, o, n)
  PROVE  /\ SlotTypes' /\ StillDelegated
         /\ slot'[k][i].status = "Pending" /\ slot'[k][i].order = o /\ slot'[k][i].note = n
         /\ \A h \in Key, j \in SlotIdx : h # k \/ j # i => slot'[h][j] = slot[h][j]
  <1> DEFINE s == [slot[k][i] EXCEPT !.status = "Pending", !.order = o, !.note = n]
  <1>1. slot[k] \in [SlotIdx -> SlotRecord] /\ slot[k][i] \in SlotRecord
    BY DEF SlotTypes
  <1>2. /\ s \in SlotRecord /\ s.status = "Pending" /\ s.order = o /\ s.note = n
        /\ s.l1 = slot[k][i].l1
    BY <1>1 DEF SlotRecord
  <1>3. slot' = [slot EXCEPT ![k] = [slot[k] EXCEPT ![i] = s]]
    BY DEF OrderSubmitted
  <1> HIDE DEF s
  <1>4. s \in SlotRecord
    BY <1>2
  <1>5. /\ SlotTypes' /\ slot'[k][i] = s
        /\ \A h \in Key, j \in SlotIdx : h # k \/ j # i => slot'[h][j] = slot[h][j]
    <2>1. [slot[k] EXCEPT ![i] = s] \in [SlotIdx -> SlotRecord]
      BY <1>1, <1>4
    <2>2. SlotTypes'
      BY <1>3, <2>1 DEF SlotTypes
    <2>3. slot'[k] = [slot[k] EXCEPT ![i] = s] /\ \A h \in Key : h # k => slot'[h] = slot[h]
      BY <1>3 DEF SlotTypes
    <2>4. QED
      BY <1>1, <2>2, <2>3
  <1>6. QED
    BY <1>2, <1>5 DEF StillDelegated

\* run_batch: what becomes of a slot.
Marked(k, n) ==
    /\ slot[k][n].status = "Pending" /\ slot'[k][n].status = "Expired"
    /\ slot'[k][n].order = slot[k][n].order /\ slot'[k][n].note = None
Wiped(k, n) ==
    /\ slot[k][n].status = "Pending" /\ slot'[k][n].status = "Matched"
    /\ slot'[k][n].order = None /\ slot'[k][n].note = None

LEMMA RunBatchFact ==
  ASSUME ChainTypes, NEW u \in Key, NEW m \in Key, NEW i, NEW j, RunBatchTx(u, i, m, j)
  PROVE  /\ i \in SlotIdx /\ j \in SlotIdx /\ market = "er"
         /\ SlotTypes' /\ StillDelegated
         /\ \A k \in Key, n \in SlotIdx :
               \/ slot'[k][n] = slot[k][n]
               \/ <<k, n>> \in {<<u, i>>, <<m, j>>} /\ Marked(k, n)
               \/ <<k, n>> \in {<<u, i>>, <<m, j>>} /\ Wiped(k, n) /\ Crossed(u, i, m, j)
         /\ batch' \in [er : Results, l1 : Results]
         /\ batch'.l1 = batch.l1 /\ batch'.er.runs = batch.er.runs + 1
         /\ Crossed(u, i, m, j) => batch'.er.log = batch.er.log \cup {MatchOf(u, i, m, j)}
         /\ ~Crossed(u, i, m, j) => batch'.er.log = batch.er.log
  <1>1. i \in SlotIdx /\ j \in SlotIdx /\ market = "er"
    BY DEF RunBatchTx, CanRunBatch
  <1>2. slot \in [Key -> [SlotIdx -> SlotRecord]]
    BY DEF ChainTypes
  <1> DEFINE new(k, n) ==
        LET s == slot[k][n]
            resting == <<k, n>> \in {<<u, i>>, <<m, j>>} /\ s.status = "Pending"
        IN CASE resting /\ s.order \in late -> [s EXCEPT !.status = "Expired", !.note = None]
             [] resting /\ Crossed(u, i, m, j) -> [EmptySlot EXCEPT !.l1 = s.l1, !.status = "Matched"]
             [] OTHER -> s
  <1>3. slot' = [k \in Key |-> [n \in SlotIdx |-> new(k, n)]]
    BY DEF RunBatchTx
  <1>4. ASSUME NEW k \in Key, NEW n \in SlotIdx
        PROVE  /\ new(k, n) \in SlotRecord /\ new(k, n).l1 = slot[k][n].l1
               /\ \/ new(k, n) = slot[k][n]
                  \/ /\ <<k, n>> \in {<<u, i>>, <<m, j>>}
                     /\ slot[k][n].status = "Pending" /\ new(k, n).status = "Expired"
                     /\ new(k, n).order = slot[k][n].order /\ new(k, n).note = None
                  \/ /\ <<k, n>> \in {<<u, i>>, <<m, j>>} /\ Crossed(u, i, m, j)
                     /\ slot[k][n].status = "Pending" /\ new(k, n).status = "Matched"
                     /\ new(k, n).order = None /\ new(k, n).note = None
    <2> DEFINE s == slot[k][n]
               marked == [s EXCEPT !.status = "Expired", !.note = None]
               wiped == [EmptySlot EXCEPT !.l1 = s.l1, !.status = "Matched"]
               here == <<k, n>> \in {<<u, i>>, <<m, j>>}
    <2>1. s \in SlotRecord /\ None \in Id
      BY <1>2, NameFact
    <2>2. /\ marked \in SlotRecord /\ marked.l1 = s.l1 /\ marked.status = "Expired"
          /\ marked.order = s.order /\ marked.note = None
      BY <2>1 DEF SlotRecord
    <2>3. /\ wiped \in SlotRecord /\ wiped.l1 = s.l1 /\ wiped.status = "Matched"
          /\ wiped.order = None /\ wiped.note = None
      BY <2>1 DEF SlotRecord, EmptySlot
    <2>4. CASE ~here \/ s.status # "Pending"
      <3>1. new(k, n) = s
        BY <2>4
      <3>2. QED
        BY <2>1, <3>1
    <2>5. CASE here /\ s.status = "Pending" /\ s.order \in late
      <3>0. ~Crossed(u, i, m, j)
        <4>1. ASSUME NEW p \in Book(u, i, m, j)  PROVE slot[p[1]][p[2]].order \notin late
          BY DEF Book
        <4>2. <<k, n>>[1] = k /\ <<k, n>>[2] = n
          OBVIOUS
        <4>3. <<k, n>> \notin Book(u, i, m, j)
          BY <2>5, <4>1, <4>2
        <4>4. QED
          BY <2>5, <4>3 DEF Crossed
      <3>1. new(k, n) = marked
        BY <2>5, <3>0
      <3>2. QED
        BY <2>2, <2>5, <3>1
    <2>6. CASE here /\ s.status = "Pending" /\ s.order \notin late /\ Crossed(u, i, m, j)
      <3>1. new(k, n) = wiped
        BY <2>6
      <3>2. QED
        BY <2>3, <2>6, <3>1
    <2>7. CASE here /\ s.status = "Pending" /\ s.order \notin late /\ ~Crossed(u, i, m, j)
      <3>1. new(k, n) = s
        BY <2>7
      <3>2. QED
        BY <2>1, <3>1
    <2>8. QED
      BY <2>4, <2>5, <2>6, <2>7
  <1> HIDE DEF new
  <1>5. \A k \in Key, n \in SlotIdx : slot'[k][n] = new(k, n)
    BY <1>3
  <1>6. SlotTypes' /\ StillDelegated
    BY <1>3, <1>4, <1>5 DEF SlotTypes, StillDelegated
  <1>7. ASSUME NEW k \in Key, NEW n \in SlotIdx
        PROVE  \/ slot'[k][n] = slot[k][n]
               \/ <<k, n>> \in {<<u, i>>, <<m, j>>} /\ Marked(k, n)
               \/ <<k, n>> \in {<<u, i>>, <<m, j>>} /\ Wiped(k, n) /\ Crossed(u, i, m, j)
    BY <1>4, <1>5 DEF Marked, Wiped
  <1> DEFINE add == IF Crossed(u, i, m, j) THEN {MatchOf(u, i, m, j)} ELSE {}
  <1>8. batch' = [batch EXCEPT !.er.runs = @ + 1, !.er.log = @ \cup add]
    BY DEF RunBatchTx
  <1>9. MatchOf(u, i, m, j) \in Match
    <2>1. slot[u][i] \in SlotRecord /\ slot[m][j] \in SlotRecord /\ vault.fee \in BOOLEAN
      BY <1>1, <1>2 DEF ChainTypes, Vault
    <2>2. QED
      BY <2>1 DEF MatchOf, Match, SlotRecord
  <1>10. add \subseteq Match
    BY <1>9
  <1>11. batch.er \in Results /\ batch \in [er : Results, l1 : Results]
    BY DEF ChainTypes
  <1> HIDE DEF add
  <1> DEFINE er == [batch.er EXCEPT !.runs = @ + 1, !.log = @ \cup add]
  <1>12. er \in Results /\ er.runs = batch.er.runs + 1 /\ er.log = batch.er.log \cup add
    <2>1. batch.er.runs \in Nat /\ batch.er.log \subseteq Match
      BY <1>11 DEF Results
    <2>2. batch.er.runs + 1 \in Nat /\ batch.er.log \cup add \in SUBSET Match
      BY <1>10, <2>1
    <2>3. er.runs = batch.er.runs + 1
      BY <1>11 DEF Results
    <2>4. er.log = batch.er.log \cup add
      BY <1>11 DEF Results
    <2>5. er \in Results
      BY <1>11, <2>2 DEF Results
    <2>6. QED
      BY <2>3, <2>4, <2>5
  <1>13. batch' = [batch EXCEPT !.er = er]
    BY <1>8, <1>11
  <1> HIDE DEF er
  <1>14. batch' \in [er : Results, l1 : Results] /\ batch'.l1 = batch.l1 /\ batch'.er = er
    BY <1>11, <1>12, <1>13
  <1>15. QED
    BY <1>1, <1>6, <1>7, <1>12, <1>14 DEF add

\* DelegateMarketTx, UndelegateTx and CommitLands keep the results of L1 behind
\* those of the rollup, and lose no match.
LEMMA MarketMoves ==
  ASSUME ChainTypes, UNCHANGED <<slot, vault, late>>,
         DelegateMarketTx \/ (UndelegateTx /\ UNCHANGED batch)
            \/ (market = "returning" /\ market' = "l1" /\ batch' = [batch EXCEPT !.l1 = batch.er])
  PROVE  ChainTypes' /\ batch.er.log = batch'.er.log /\ batch.l1.log \subseteq batch'.l1.log
  <1>1. batch \in [er : Results, l1 : Results] /\ batch.er \in Results /\ batch.l1 \in Results
    BY DEF ChainTypes
  <1>2. CASE DelegateMarketTx
    <2>1. market = "l1" /\ market' = "er" /\ batch' = [batch EXCEPT !.er = batch.l1] /\ batch.er = batch.l1
      BY <1>2 DEF DelegateMarketTx, ChainTypes
    <2>2. batch' = batch
      BY <1>1, <2>1
    <2>3. QED
      BY <2>1, <2>2 DEF ChainTypes
  <1>3. CASE UndelegateTx /\ UNCHANGED batch
    BY <1>3 DEF UndelegateTx, ChainTypes
  <1>4. CASE market = "returning" /\ market' = "l1" /\ batch' = [batch EXCEPT !.l1 = batch.er]
    <2>1. batch' \in [er : Results, l1 : Results] /\ batch'.er = batch.er /\ batch'.l1 = batch.er
      BY <1>1, <1>4
    <2>2. batch.er.runs <= batch.er.runs
      BY <1>1 DEF Results
    <2>3. QED
      BY <1>4, <2>1, <2>2 DEF ChainTypes
  <1>5. QED
    BY <1>2, <1>3, <1>4

LEMMA SlotsChange ==
  ASSUME ChainTypes, SlotTypes', UNCHANGED <<market, batch, vault, late>>
  PROVE  ChainTypes'
  BY DEF ChainTypes, SlotTypes

LEMMA VaultChanges ==
  ASSUME ChainTypes, vault' \in Vault, UNCHANGED <<slot, market, batch, late>>
  PROVE  ChainTypes'
  BY DEF ChainTypes

LEMMA ChainStays ==
  ASSUME ChainTypes, UNCHANGED chain
  PROVE  ChainTypes'
  BY DEF ChainTypes, chain

LEMMA BatchRuns ==
  ASSUME ChainTypes, NEW u \in Key, NEW m \in Key, NEW i, NEW j, RunBatchTx(u, i, m, j),
         UNCHANGED <<market, vault, late>>
  PROVE  ChainTypes'
  <1>1. /\ SlotTypes' /\ batch' \in [er : Results, l1 : Results] /\ market = "er"
        /\ batch'.l1 = batch.l1 /\ batch'.er.runs = batch.er.runs + 1
        /\ batch.er.log \subseteq batch'.er.log
    <2>1. /\ SlotTypes' /\ batch' \in [er : Results, l1 : Results] /\ market = "er"
          /\ batch'.l1 = batch.l1 /\ batch'.er.runs = batch.er.runs + 1
          /\ Crossed(u, i, m, j) => batch'.er.log = batch.er.log \cup {MatchOf(u, i, m, j)}
          /\ ~Crossed(u, i, m, j) => batch'.er.log = batch.er.log
      BY RunBatchFact
    <2>2. QED
      BY <2>1
  <1>2. batch.er.runs \in Nat /\ batch.l1.runs \in Nat /\ batch.l1.runs <= batch.er.runs
    BY DEF ChainTypes, Results
  <1>3. batch'.l1.runs <= batch'.er.runs
    BY <1>1, <1>2
  <1>4. QED
    BY <1>1, <1>3 DEF ChainTypes, SlotTypes

\* Changes of the vault.
LEMMA VaultMoves ==
  ASSUME vault \in Vault
  PROVE  /\ \A b \in BOOLEAN : [vault EXCEPT !.fee = b] \in Vault
         /\ \A n \in Id : Deposited(n) \in Vault
         /\ \A u \in Trader : WalletCreated(u) \in Vault
         /\ \A a, oa, b, ob \in Id : NotesLocked(a, oa, b, ob) \in Vault /\ NotesSettled(a, oa, b, ob) \in Vault
         /\ \A l : [vault EXCEPT !.locks = @ \ {l}] \in Vault
  <1>1. \A b \in BOOLEAN : [vault EXCEPT !.fee = b] \in Vault
    BY DEF Vault
  <1>2. \A n \in Id : Deposited(n) \in Vault
    BY DEF Vault, Deposited
  <1>3. \A u \in Trader : WalletCreated(u) \in Vault
    BY DEF Vault, WalletCreated
  <1>4. ASSUME NEW a \in Id, NEW oa \in Id, NEW b \in Id, NEW ob \in Id
        PROVE  NotesLocked(a, oa, b, ob) \in Vault /\ NotesSettled(a, oa, b, ob) \in Vault
    <2>1. [note |-> a, order |-> oa] \in Lock /\ [note |-> b, order |-> ob] \in Lock
      BY DEF Lock
    <2>2. [buyer |-> a, buyOrder |-> oa, seller |-> b, sellOrder |-> ob] \in Settlement
      BY DEF Settlement
    <2>3. NotesLocked(a, oa, b, ob) \in Vault
      BY <2>1 DEF Vault, NotesLocked
    <2>4. NotesSettled(a, oa, b, ob) \in Vault
      BY <2>2 DEF Vault, NotesSettled
    <2>5. QED
      BY <2>3, <2>4
  <1>5. \A l : [vault EXCEPT !.locks = @ \ {l}] \in Vault
    BY DEF Vault
  <1>6. QED
    BY <1>1, <1>2, <1>3, <1>4, <1>5

-----------------------------------------------------------------------------
(***************************************************************************)
(* The first layer is inductive.                                           *)
(***************************************************************************)

MatchPCs == {"market", "delegate", "fee", "deposit", "scan", "ensure", "init", "delegateSlot", "submit",
             "pre", "run", "undelegate", "wait", "find", "lock", "settle", "done", "failed"}
InitPCs == {"market", "delegate", "scan", "ensure", "init", "delegateSlot", "done", "failed"}

\* A trade request moves on.
LEMMA TradeGoes ==
  ASSUME Requests, NEW r \in Req, Trade(r), ~At(r, "failed"), NEW pc \in MatchPCs,
         req[r].kind = "init" => pc \in InitPCs, Goto(r, pc)
  PROVE  Requests'
  <1>1. req[r] \in Request /\ Stage(req[r]) /\ req[r].kind \in {"init", "match"} /\ req[r].pc # "failed"
    BY RequestTyped DEF Trade, At
  <1>2. pc \in PCs
    BY DEF PCs, MatchPCs
  <1>3. Stage([req[r] EXCEPT !.pc = pc])
    <2> DEFINE x == [req[r] EXCEPT !.pc = pc]
    <2>1. /\ x.kind = req[r].kind /\ x.pc = pc /\ x.who = req[r].who /\ x.ctx = req[r].ctx
          /\ x.slot = req[r].slot
      BY <1>1 DEF Request
    <2> HIDE DEF x
    <2>2. Stage(x)
      BY <1>1, <2>1 DEF Stage, Ends, MatchPCs, InitPCs, TradeKinds, LiveKinds
    <2>3. QED
      BY <2>2 DEF x
  <1>4. QED
    BY <1>2, <1>3, GotoOK

\* A request fails.
LEMMA RequestFails ==
  ASSUME Requests, NEW r \in Req, ~At(r, "free"), Goto(r, "failed")
  PROVE  Requests'
  <1>1. req[r] \in Request /\ Stage(req[r]) /\ req[r].pc # "free"
    BY RequestTyped DEF At
  <1>2. Stage([req[r] EXCEPT !.pc = "failed"])
    <2> DEFINE x == [req[r] EXCEPT !.pc = "failed"]
    <2>1. /\ x.kind = req[r].kind /\ x.pc = "failed" /\ x.who = req[r].who /\ x.ctx = req[r].ctx
          /\ x.slot = req[r].slot
      BY <1>1 DEF Request
    <2> HIDE DEF x
    <2>2. Stage(x)
      BY <1>1, <2>1 DEF Stage, Ends, TradeKinds, LiveKinds
    <2>3. QED
      BY <2>2 DEF x
  <1>3. QED
    BY <1>2, GotoOK DEF PCs

LEMMA ScanSlotTypes ==
  ASSUME Requests, ChainTypes, NEW r \in Req, ScanSlot(r)  PROVE Requests'
  <1> DEFINE k == SlotKey(r)
             i == req[r].slot
             reuse == IF req[r].reuse = MaxSlots /\ Reusable(k, i) THEN i ELSE req[r].reuse
             pending == req[r].seen \cup IF slot[k][i].status = "Pending" THEN {slot[k][i].order} ELSE {}
  <1>1. req[r] \in Request /\ Stage(req[r]) /\ req[r].kind \in {"init", "match"} /\ req[r].pc = "scan"
    BY RequestTyped DEF ScanSlot, Trade, At
  <1>2. i \in SlotIdx /\ k \in Key
    BY <1>1, NameFact DEF Stage, SlotKey, TradeKinds
  <1>3. reuse \in Place /\ pending \in SUBSET Id
    <2>1. req[r].reuse \in Place /\ req[r].seen \in SUBSET Id
      BY <1>1 DEF Request
    <2>2. slot[k][i].order \in Id
      BY <1>2 DEF ChainTypes, SlotRecord
    <2>3. QED
      BY <1>2, <2>1, <2>2, NameFact
  <1>4. \/ Goto(r, "ensure")
        \/ i < MaxSlots - 1 /\ req' = [req EXCEPT ![r].slot = i + 1, ![r].reuse = reuse, ![r].seen = pending]
        \/ req' = [req EXCEPT ![r].slot = reuse, ![r].seen = pending,
                              ![r].pc = IF reuse = MaxSlots THEN "failed" ELSE "ensure"]
    BY DEF ScanSlot
  <1> HIDE DEF k, i, reuse, pending
  <1>5. CASE Goto(r, "ensure")
    BY <1>1, <1>5, TradeGoes DEF Trade, At, MatchPCs, InitPCs
  <1>6. CASE i < MaxSlots - 1 /\ req' = [req EXCEPT ![r].slot = i + 1, ![r].reuse = reuse, ![r].seen = pending]
    <2> DEFINE x == [req[r] EXCEPT !.slot = i + 1, !.reuse = reuse, !.seen = pending]
    <2>1. i + 1 \in SlotIdx
      BY <1>2, <1>6, DemoAssumption DEF SlotIdx
    <2>2. /\ x \in Request /\ x.slot = i + 1 /\ x.kind = req[r].kind /\ x.pc = req[r].pc
          /\ x.who = req[r].who /\ x.ctx = req[r].ctx
      BY <1>1, <1>3, <2>1, NameFact DEF Request
    <2>3. req' = [req EXCEPT ![r] = x]
      BY <1>6
    <2> HIDE DEF x
    <2>4. Stage(x)
      BY <1>1, <2>1, <2>2 DEF Stage, TradeKinds, LiveKinds
    <2>5. QED
      BY <2>2, <2>3, <2>4, RequestReplaced
  <1>7. CASE req' = [req EXCEPT ![r].slot = reuse, ![r].seen = pending,
                                ![r].pc = IF reuse = MaxSlots THEN "failed" ELSE "ensure"]
    <2> DEFINE pc == IF reuse = MaxSlots THEN "failed" ELSE "ensure"
               x == [req[r] EXCEPT !.slot = reuse, !.seen = pending, !.pc = pc]
    <2>1. pc \in PCs /\ pc \in {"failed", "ensure"} /\ (pc = "ensure" => reuse \in SlotIdx)
      BY <1>3, DemoAssumption DEF PCs, Place, SlotIdx
    <2>2. req' = [req EXCEPT ![r] = x]
      BY <1>7
    <2> HIDE DEF pc
    <2>3. /\ x \in Request /\ x.slot = reuse /\ x.kind = req[r].kind /\ x.pc = pc
          /\ x.who = req[r].who /\ x.ctx = req[r].ctx
      BY <1>1, <1>3, <2>1 DEF Request
    <2> HIDE DEF x
    <2>4. Stage(x)
      BY <1>1, <2>1, <2>3 DEF Stage, TradeKinds, LiveKinds, Ends
    <2>5. QED
      BY <2>2, <2>3, <2>4, RequestReplaced
  <1>8. QED
    BY <1>4, <1>5, <1>6, <1>7

LEMMA TradeTypes ==
  ASSUME Requests, ChainTypes, NEW r \in Req, TradeStep(r)
  PROVE  Requests' /\ ChainTypes'
  <1>0. /\ req[r] \in Request /\ Stage(req[r])
        /\ req[r].who \in Key \cup {None} /\ SlotTypes /\ vault \in Vault
    BY RequestTyped DEF Request, ChainTypes, SlotTypes
  <1>a. Trade(r) => /\ req[r].who \in Trader /\ req[r].who \in Key /\ SlotKey(r) \in Key
                    /\ req[r].ctx.note \in Id /\ req[r].ctx.order \in Id /\ req[r].seller \in Id
    BY <1>0, NameFact DEF Trade, Stage, TradeKinds, TradeCtx, Request, Id, SlotKey
  <1>b. OwnId(r) \in Id
    BY NameFact DEF OwnId
  <1>c. At(r, "fee") \/ At(r, "find") \/ At(r, "lock") \/ At(r, "settle") => Trade(r) /\ req[r].kind # "init"
    BY <1>0 DEF At, Trade, Stage, Request, Ends, TradeKinds, LiveKinds
  <1> USE DEF MatchPCs, InitPCs
  <1>1. CASE ReadMarket(r)
    BY <1>1, TradeGoes, ChainStays DEF ReadMarket, At
  <1>2. CASE DelegateMarket(r)
    BY <1>2, TradeGoes, MarketMoves DEF DelegateMarket, At
  <1>3. CASE EnsureZeroProtocolFee(r)
    BY <1>0, <1>3, <1>c, TradeGoes, VaultMoves, VaultChanges DEF EnsureZeroProtocolFee, At
  <1>4. CASE MakerDeposit(r)
    <2>1. req[r].kind = "match"
      BY <1>0, <1>4 DEF MakerDeposit, At, Trade, Stage, Ends
    <2>2. QED
      BY <1>0, <1>4, <1>b, <2>1, TradeGoes, VaultMoves, VaultChanges DEF MakerDeposit, At
  <1>5. CASE ScanSlot(r)
    BY <1>5, ScanSlotTypes, ChainStays DEF ScanSlot
  <1>6. CASE EnsureSlot(r)
    BY <1>6, TradeGoes, ChainStays DEF EnsureSlot, At
  <1>7. CASE InitSlot(r)
    <2>1. /\ Trade(r) /\ At(r, "init") /\ req[r].slot \in SlotIdx /\ slot[SlotKey(r)][req[r].slot].l1 # "delegated"
          /\ slot' = SlotInitialized(SlotKey(r), req[r].slot)
      BY <1>7 DEF InitSlot, CanInitSlot
    <2>2. SlotTypes'
      BY <1>0, <1>a, <2>1, SlotMoves
    <2>3. QED
      BY <1>7, <2>1, <2>2, TradeGoes, SlotsChange DEF InitSlot, At
  <1>8. CASE DelegateSlot(r)
    <2>1. /\ Trade(r) /\ At(r, "delegateSlot") /\ req[r].slot \in SlotIdx
          /\ slot' = SlotDelegated(SlotKey(r), req[r].slot)
      BY <1>8 DEF DelegateSlot, CanDelegateSlot
    <2>2. SlotTypes'
      BY <1>0, <1>a, <2>1, SlotMoves
    <2>3. QED
      BY <1>8, <2>1, <2>2, TradeGoes, SlotsChange DEF DelegateSlot, At
  <1>9. CASE MakerSubmit(r)
    <2>1. /\ Trade(r) /\ At(r, "submit") /\ req[r].slot \in SlotIdx
          /\ slot' = OrderSubmitted(Maker, req[r].slot, OwnId(r), OwnId(r))
      BY <1>9 DEF MakerSubmit, CanSubmit
    <2>2. SlotTypes'
      BY <1>0, <1>b, <2>1, SubmitFills, NameFact
    <2>3. req[r].kind = "match"
      BY <1>0, <2>1 DEF At, Trade, Stage, Ends
    <2>4. QED
      BY <1>9, <2>1, <2>2, <2>3, TradeGoes, SlotsChange DEF MakerSubmit, At
  <1>10. CASE ReadPreBatch(r)
    <2> DEFINE x == [req[r] EXCEPT !.pre = batch.l1.runs, !.pc = "run"]
    <2>1. /\ Trade(r) /\ At(r, "pre") /\ req' = [req EXCEPT ![r] = x] /\ UNCHANGED chain
      BY <1>10 DEF ReadPreBatch
    <2>2. batch.l1.runs \in Nat
      BY DEF ChainTypes, Results
    <2>3. /\ x \in Request /\ x.slot = req[r].slot /\ x.kind = req[r].kind /\ x.pc = "run"
          /\ x.who = req[r].who /\ x.ctx = req[r].ctx
      BY <1>0, <2>2 DEF Request, PCs
    <2> HIDE DEF x
    <2>4. Stage(x)
      BY <1>0, <2>1, <2>3 DEF Stage, TradeKinds, LiveKinds, Ends, Trade, At
    <2>5. QED
      BY <2>1, <2>3, <2>4, RequestReplaced, ChainStays
  <1>11. CASE RunBatch(r)
    <2>1. req[r].kind = "match"
      BY <1>0, <1>11 DEF RunBatch, At, Trade, Stage, Ends
    <2>2. ChainTypes'
      BY <1>11, <1>a, BatchRuns, NameFact DEF RunBatch
    <2>3. QED
      BY <1>11, <2>1, <2>2, TradeGoes DEF RunBatch, At
  <1>12. CASE Undelegate(r)
    <2>1. req[r].kind = "match"
      BY <1>0, <1>12 DEF Undelegate, At, Trade, Stage, Ends
    <2>2. QED
      BY <1>12, <2>1, TradeGoes, MarketMoves DEF Undelegate, At
  <1>13. CASE WaitL1(r)
    <2>1. req[r].kind = "match"
      BY <1>0, <1>13 DEF WaitL1, At, Trade, Stage, Ends
    <2>2. QED
      BY <1>13, <2>1, TradeGoes, ChainStays DEF WaitL1, At
  <1>14. CASE FindMatch(r)
    <2>1. PICK m \in ThisRunsMatch(r) :
             req' = [req EXCEPT ![r].pc = "lock", ![r].seller = m.seller]
      BY <1>14 DEF FindMatch
    <2> DEFINE x == [req[r] EXCEPT !.pc = "lock", !.seller = m.seller]
    <2>2. /\ Trade(r) /\ At(r, "find") /\ req' = [req EXCEPT ![r] = x] /\ UNCHANGED chain
          /\ req[r].kind # "init"
      BY <1>14, <1>c, <2>1 DEF FindMatch
    <2>3. m.seller \in Id
      BY <1>b DEF ThisRunsMatch
    <2>4. /\ x \in Request /\ x.slot = req[r].slot /\ x.kind = req[r].kind /\ x.pc = "lock"
          /\ x.who = req[r].who /\ x.ctx = req[r].ctx
      BY <1>0, <2>3 DEF Request, PCs
    <2> HIDE DEF x
    <2>5. Stage(x)
      BY <1>0, <2>2, <2>4 DEF Stage, TradeKinds, LiveKinds, Ends, Trade, At
    <2>6. QED
      BY <2>2, <2>4, <2>5, RequestReplaced, ChainStays
  <1>15. CASE LockNotes(r)
    BY <1>0, <1>15, <1>a, <1>b, <1>c, TradeGoes, VaultMoves, VaultChanges DEF LockNotes, At
  <1>16. CASE Settle(r)
    BY <1>0, <1>16, <1>a, <1>b, <1>c, TradeGoes, VaultMoves, VaultChanges DEF Settle, At
  <1>17. CASE Refused(r)
    <2>1. Goto(r, "failed") /\ UNCHANGED chain /\ ~At(r, "free")
      BY <1>17 DEF Refused, Fails, At
    <2>2. QED
      BY <2>1, RequestFails, ChainStays
  <1>18. QED
    BY <1>1, <1>2, <1>3, <1>4, <1>5, <1>6, <1>7, <1>8, <1>9, <1>10, <1>11, <1>12, <1>13, <1>14,
       <1>15, <1>16, <1>17 DEF TradeStep

\* A live request moves on to a stage of its kind.
BootPCs == {"ensure", "init", "delegateSlot", "market", "delegate", "write", "writing"}
LEMMA LiveGoes ==
  ASSUME Requests, NEW r \in Req, NEW pc, Goto(r, pc),
         \/ req[r].kind = "bootstrap" /\ req[r].pc \in BootPCs /\ pc \in BootPCs
         \/ req[r].kind \in {"taker", "maker"} /\ pc \in {"reread", "write", "writing"}
         \/ req[r].kind = "batch" /\ req[r].pc \in {"pre", "run", "undelegate", "wait"} /\ pc \in {"run", "undelegate", "wait"}
  PROVE  Requests'
  <1>1. req[r] \in Request /\ Stage(req[r])
    BY RequestTyped
  <1>2. pc \in PCs
    BY DEF PCs, BootPCs
  <1>3. Stage([req[r] EXCEPT !.pc = pc])
    <2> DEFINE x == [req[r] EXCEPT !.pc = pc]
    <2>1. /\ x.kind = req[r].kind /\ x.pc = pc /\ x.who = req[r].who /\ x.ctx = req[r].ctx
          /\ x.slot = req[r].slot
      BY <1>1 DEF Request
    <2> HIDE DEF x
    <2>2. Stage(x)
      BY <1>1, <2>1 DEF Stage, Ends, BootPCs, TradeKinds, LiveKinds
    <2>3. QED
      BY <2>2 DEF x
  <1>4. QED
    BY <1>2, <1>3, GotoOK

\* The kind of a live request, from its stage.
LEMMA LiveStages ==
  ASSUME Requests, NEW r \in Req
  PROVE  /\ At(r, "read") => req[r].kind \in {"taker", "maker", "batch"}
         /\ At(r, "send") \/ At(r, "reread") => req[r].kind \in {"taker", "maker"}
         /\ At(r, "write") \/ At(r, "writing") \/ At(r, "choose") => Live(r)
         /\ At(r, "choose") => req[r].kind = "bootstrap"
         /\ Live(r) /\ req[r].pc \in {"deposit", "ensure", "init", "delegateSlot", "market", "delegate"}
               => req[r].kind = "bootstrap"
         /\ Live(r) /\ req[r].pc \in {"pre", "run", "undelegate", "wait"} => req[r].kind = "batch"
         /\ Live(r) => req[r].who \in {Taker, Maker} /\ req[r].ctx \in {None} \cup LiveState
         /\ At(r, "send") => req[r].ctx \in LiveState
         /\ Live(r) /\ req[r].pc \in {"pre", "run", "undelegate", "wait"} => req[r].ctx \in LiveState
         /\ Live(r) /\ req[r].pc \in {"ensure", "init", "delegateSlot", "market", "delegate"} => req[r].ctx \in LiveState
  <1>1. req[r] \in Request /\ Stage(req[r])
    BY RequestTyped
  <1>2. req[r].kind \in {"none", "init", "match", "bootstrap", "taker", "maker", "batch"}
    BY <1>1 DEF Request, TradeKinds, LiveKinds
  <1>3. QED
    BY <1>1, <1>2 DEF Stage, At, Live, Ends, TradeKinds, LiveKinds

\* The parts of a state of the file.
LEMMA LiveStateFact ==
  ASSUME NEW s \in LiveState
  PROVE  /\ s \in [taker : ActorRecord, maker : ActorRecord, ran : 0 .. MaxReq]
         /\ s.taker.boot = s.maker.boot
         /\ \A role \in {"taker", "maker"} : /\ s[role] \in ActorRecord /\ s[role].boot \in Req
                                             /\ s[role].slot \in Place /\ s[role].order \in Id
  BY DEF LiveState, ActorRecord

\* A state is not the missing file.
LEMMA NotNone == None \notin LiveState
  <1>1. SUFFICES ASSUME None \in LiveState  PROVE FALSE
    OBVIOUS
  <1>2. DOMAIN None = {"taker", "maker", "ran"}
    BY <1>1 DEF LiveState
  <1>3. DOMAIN None = {}
    BY DEF None
  <1>4. QED
    BY <1>2, <1>3

LEMMA ReadStateTypes ==
  ASSUME Requests, File, NEW r \in Req, ReadState(r)  PROVE Requests'
  <1> DEFINE pc == IF file = NoState THEN "failed" ELSE IF req[r].kind = "batch" THEN "pre" ELSE "send"
             x == [req[r] EXCEPT !.ctx = file, !.pc = pc]
  <1>1. req[r] \in Request /\ Stage(req[r]) /\ req[r].kind \in {"taker", "maker", "batch"}
    BY RequestTyped, LiveStages DEF ReadState
  <1>2. req' = [req EXCEPT ![r] = x]
    BY DEF ReadState
  <1>3. /\ file \in {None} \cup LiveState /\ pc \in {"failed", "pre", "send"} /\ pc \in PCs
        /\ (pc # "failed" => file \in LiveState)
        /\ (pc = "pre" => req[r].kind = "batch") /\ (pc = "send" => req[r].kind # "batch")
    BY DEF File, NoState, PCs
  <1> HIDE DEF pc
  <1>4. /\ x \in Request /\ x.slot = req[r].slot /\ x.kind = req[r].kind /\ x.pc = pc
        /\ x.who = req[r].who /\ x.ctx = file
    BY <1>1, <1>3 DEF Request, Ctx
  <1> HIDE DEF x
  <1>5. Stage(x)
    BY <1>1, <1>3, <1>4 DEF Stage, TradeKinds, LiveKinds, Ends
  <1>6. QED
    BY <1>2, <1>4, <1>5, RequestReplaced

LEMMA WriteStateTypes ==
  ASSUME Requests, NEW r \in Req, WriteState(r)
  PROVE  /\ Requests'
         /\ \A q \in Req : /\ req'[q].kind = req[q].kind /\ req'[q].who = req[q].who
                           /\ req'[q].ctx = req[q].ctx /\ req'[q].slot = req[q].slot
                           /\ req'[q].reuse = req[q].reuse /\ req'[q].seen = req[q].seen
                           /\ req'[q].seller = req[q].seller
                           /\ req'[q].pc = IF q = r THEN "writing" ELSE req[q].pc
  <1>1. Live(r) /\ req[r].pc = "write"
    BY LiveStages DEF WriteState, At
  <1>2. ASSUME NEW q \in Req
        PROVE  /\ req'[q] \in Request /\ Stage(req'[q])
               /\ req'[q].kind = req[q].kind /\ req'[q].who = req[q].who
               /\ req'[q].ctx = req[q].ctx /\ req'[q].slot = req[q].slot
               /\ req'[q].reuse = req[q].reuse /\ req'[q].seen = req[q].seen
               /\ req'[q].seller = req[q].seller
               /\ req'[q].pc = IF q = r THEN "writing" ELSE req[q].pc
    <2> DEFINE a == [req[q] EXCEPT !.pc = "writing", !.mixed = \E p \in Req : At(p, "writing")]
               b == [req[q] EXCEPT !.mixed = @ \/ At(q, "writing")]
    <2>1. req'[q] = IF q = r THEN a ELSE b
      BY DEF WriteState
    <2>2. req[q] \in Request /\ Stage(req[q])
      BY RequestTyped
    <2>3. (req[q].mixed \/ At(q, "writing")) \in BOOLEAN /\ (\E p \in Req : At(p, "writing")) \in BOOLEAN
      OBVIOUS
    <2>4. /\ a \in Request /\ a.kind = req[q].kind /\ a.who = req[q].who /\ a.ctx = req[q].ctx
          /\ a.slot = req[q].slot /\ a.pc = "writing" /\ a.reuse = req[q].reuse
          /\ a.seen = req[q].seen /\ a.seller = req[q].seller
      BY <2>2, <2>3 DEF Request, PCs
    <2>5. /\ b \in Request /\ b.kind = req[q].kind /\ b.who = req[q].who /\ b.ctx = req[q].ctx
          /\ b.slot = req[q].slot /\ b.pc = req[q].pc /\ b.reuse = req[q].reuse
          /\ b.seen = req[q].seen /\ b.seller = req[q].seller
      BY <2>2, <2>3 DEF Request
    <2> HIDE DEF a, b
    <2>6. Stage(b)
      BY <2>2, <2>5 DEF Stage
    <2>7. q = r => Stage(a)
      BY <1>1, <2>2, <2>4 DEF Stage, Live, TradeKinds, LiveKinds, Ends
    <2>8. CASE q = r
      BY <2>1, <2>4, <2>7, <2>8
    <2>9. CASE q # r
      BY <2>1, <2>5, <2>6, <2>9
    <2>10. QED
      BY <2>8, <2>9
  <1>3. \E f \in [Req -> Request] : req' = f
    <2> DEFINE g == [q \in Req |-> req'[q]]
    <2>1. req' = g
      BY DEF WriteState
    <2>2. g \in [Req -> Request]
      BY <1>2
    <2>3. QED
      BY <2>1, <2>2
  <1>4. QED
    BY <1>2, <1>3 DEF Requests, Stage, TradeCtx, LiveState

LEMMA StateWrittenTypes ==
  ASSUME Requests, File, NEW r \in Req, StateWritten(r)  PROVE Requests' /\ File'
  <1> DEFINE x == [req[r] EXCEPT !.pc = "done", !.mixed = FALSE]
  <1>1. /\ req[r] \in Request /\ Stage(req[r]) /\ Live(r) /\ req[r].ctx \in {None} \cup LiveState
    BY RequestTyped, LiveStages DEF StateWritten
  <1>2. req' = [req EXCEPT ![r] = x] /\ file' \in {req[r].ctx, None}
    BY DEF StateWritten, NoState
  <1>3. /\ x \in Request /\ x.slot = req[r].slot /\ x.kind = req[r].kind /\ x.pc = "done"
        /\ x.who = req[r].who /\ x.ctx = req[r].ctx
    BY <1>1 DEF Request, PCs
  <1> HIDE DEF x
  <1>4. Stage(x)
    BY <1>1, <1>3 DEF Stage, TradeKinds, LiveKinds, Ends, Live
  <1>5. QED
    BY <1>1, <1>2, <1>3, <1>4, RequestReplaced DEF File, LiveState

LEMMA LiveDepositTypes ==
  ASSUME Requests, ChainTypes, NEW r \in Req, LiveDeposit(r)  PROVE Requests' /\ ChainTypes'
  <1>1. /\ req[r] \in Request /\ Stage(req[r]) /\ req[r].kind = "bootstrap"
        /\ req[r].who \in {Taker, Maker} /\ req[r].pc = "deposit"
    BY RequestTyped, LiveStages DEF LiveDeposit, At
  <1>2. <<req[r].who, r>> \in Id
    BY <1>1, NameFact
  <1>3. vault \in Vault /\ vault' = Deposited(<<req[r].who, r>>) /\ UNCHANGED <<slot, market, batch, late>>
    BY DEF LiveDeposit, ChainTypes
  <1>4. ChainTypes'
    BY <1>2, <1>3, VaultMoves, VaultChanges
  <1>5. CASE req[r].who = Taker
    <2> DEFINE x == [req[r] EXCEPT !.who = Maker]
    <2>1. req' = [req EXCEPT ![r] = x]
      BY <1>5 DEF LiveDeposit
    <2>2. /\ x \in Request /\ x.slot = req[r].slot /\ x.kind = req[r].kind /\ x.pc = "deposit"
          /\ x.who = Maker /\ x.ctx = req[r].ctx
      BY <1>1, NameFact DEF Request
    <2> HIDE DEF x
    <2>3. Stage(x)
      BY <1>1, <2>2 DEF Stage, TradeKinds, LiveKinds, Ends
    <2>4. QED
      BY <1>4, <2>1, <2>2, <2>3, RequestReplaced
  <1>6. CASE req[r].who # Taker
    <2> DEFINE x == [req[r] EXCEPT !.who = Taker, !.pc = "choose"]
    <2>1. req' = [req EXCEPT ![r] = x]
      BY <1>6 DEF LiveDeposit
    <2>2. /\ x \in Request /\ x.slot = req[r].slot /\ x.kind = req[r].kind /\ x.pc = "choose"
          /\ x.who = Taker /\ x.ctx = req[r].ctx
      BY <1>1, NameFact DEF Request, PCs
    <2> HIDE DEF x
    <2>3. Stage(x)
      BY <1>1, <2>2 DEF Stage, TradeKinds, LiveKinds, Ends
    <2>4. QED
      BY <1>4, <2>1, <2>2, <2>3, RequestReplaced
  <1>7. QED
    BY <1>5, <1>6

LEMMA LiveChooseTypes ==
  ASSUME Requests, NEW r \in Req, LiveChoose(r)
  PROVE  /\ Requests'
         /\ req'[r].ctx # req[r].ctx => req'[r].ctx.maker.boot = r
  <1>1. /\ req[r] \in Request /\ Stage(req[r]) /\ req[r].kind = "bootstrap"
        /\ req[r].who \in {Taker, Maker} /\ req[r].pc = "choose" /\ req[r].slot \in Place
    BY RequestTyped, LiveStages DEF LiveChoose, At, Request
  <1> DEFINE fresh == FreshSlot(req[r].who)
             new == [taker |-> Actor(r, req[r].slot), maker |-> Actor(r, fresh), ran |-> 0]
  <1>2. fresh \in Place
    BY FreshSlotFact
  <1>3. req' = IF req[r].who = Taker THEN [req EXCEPT ![r].who = Maker, ![r].slot = fresh]
               ELSE [req EXCEPT ![r].who = Taker, ![r].pc = "ensure", ![r].ctx = new]
    BY DEF LiveChoose
  <1> HIDE DEF fresh
  <1>4. new \in LiveState /\ new.maker.boot = r
    <2>1. Actor(r, req[r].slot) \in ActorRecord /\ Actor(r, req[r].slot).boot = r
      BY <1>1, NameFact DEF Actor, ActorRecord
    <2>2. Actor(r, fresh) \in ActorRecord /\ Actor(r, fresh).boot = r
      BY <1>2, NameFact DEF Actor, ActorRecord
    <2>3. 0 \in 0 .. MaxReq
      BY DemoAssumption
    <2>4. QED
      BY <2>1, <2>2, <2>3 DEF LiveState
  <1> HIDE DEF new
  <1>5. CASE req[r].who = Taker
    <2> DEFINE x == [req[r] EXCEPT !.who = Maker, !.slot = fresh]
    <2>1. req' = [req EXCEPT ![r] = x]
      BY <1>3, <1>5
    <2>2. /\ x \in Request /\ x.slot = fresh /\ x.kind = req[r].kind /\ x.pc = "choose"
          /\ x.who = Maker /\ x.ctx = req[r].ctx
      BY <1>1, <1>2, NameFact DEF Request
    <2> HIDE DEF x
    <2>3. Stage(x)
      BY <1>1, <2>2 DEF Stage, TradeKinds, LiveKinds, Ends
    <2>4. QED
      BY <2>1, <2>2, <2>3, RequestReplaced
  <1>6. CASE req[r].who # Taker
    <2> DEFINE x == [req[r] EXCEPT !.who = Taker, !.pc = "ensure", !.ctx = new]
    <2>1. req' = [req EXCEPT ![r] = x]
      BY <1>3, <1>6
    <2>2. /\ x \in Request /\ x.slot = req[r].slot /\ x.kind = req[r].kind /\ x.pc = "ensure"
          /\ x.who = Taker /\ x.ctx = new
      BY <1>1, <1>4, NameFact DEF Request, PCs, Ctx
    <2> HIDE DEF x
    <2>3. Stage(x)
      BY <1>1, <1>4, <2>2 DEF Stage, TradeKinds, LiveKinds, Ends
    <2>4. QED
      BY <1>4, <2>1, <2>2, <2>3, RequestReplaced
  <1>7. QED
    BY <1>5, <1>6

LEMMA SlotReadyTypes ==
  ASSUME Requests, NEW r \in Req, Live(r), At(r, "ensure") \/ At(r, "delegateSlot"), LiveSlotReady(r)
  PROVE  Requests'
  <1>1. /\ req[r] \in Request /\ Stage(req[r]) /\ req[r].kind = "bootstrap"
        /\ req[r].ctx \in LiveState
    BY RequestTyped, LiveStages DEF At
  <1>2. req[r].ctx.maker.slot \in Place
    BY <1>1, LiveStateFact
  <1>3. CASE req[r].who = Taker
    <2> DEFINE x == [req[r] EXCEPT !.who = Maker, !.slot = req[r].ctx.maker.slot, !.pc = "ensure"]
    <2>1. req' = [req EXCEPT ![r] = x]
      BY <1>3 DEF LiveSlotReady
    <2>2. /\ x \in Request /\ x.kind = req[r].kind /\ x.pc = "ensure"
          /\ x.who = Maker /\ x.ctx = req[r].ctx
      BY <1>1, <1>2, NameFact DEF Request, PCs
    <2> HIDE DEF x
    <2>3. Stage(x)
      BY <1>1, <2>2 DEF Stage, TradeKinds, LiveKinds, Ends
    <2>4. QED
      BY <2>1, <2>2, <2>3, RequestReplaced
  <1>4. CASE req[r].who # Taker
    <2>1. Goto(r, "market")
      BY <1>4 DEF LiveSlotReady, Goto
    <2>2. QED
      BY <1>1, <2>1, LiveGoes DEF BootPCs, At
  <1>5. QED
    BY <1>3, <1>4

\* What a role's order is written back as.
LEMMA NextStateFact ==
  ASSUME File, NEW r \in Req, req[r].kind \in {"taker", "maker"}
  PROVE  /\ NextState(r) \in {None} \cup LiveState
         /\ NextState(r) # None => file \in LiveState /\ NextState(r).maker.boot = file.maker.boot
  <1>1. CASE file = None
    BY <1>1 DEF NextState, NoState
  <1>2. CASE file # None
    <2>1. file \in LiveState
      BY <1>2 DEF File
    <2>2. /\ file \in [taker : ActorRecord, maker : ActorRecord, ran : 0 .. MaxReq]
          /\ file.taker.boot = file.maker.boot
          /\ file.taker \in ActorRecord /\ file.maker \in ActorRecord
      BY <2>1, LiveStateFact
    <2> DEFINE o == <<RoleKey(req[r].kind), r>>
    <2>3. o \in Id
      BY NameFact DEF RoleKey
    <2>4. NextState(r) = [file EXCEPT ![req[r].kind].order = o]
      BY <1>2 DEF NextState, NoState
    <2> HIDE DEF o
    <2>5. CASE req[r].kind = "taker"
      <3> DEFINE a == [file.taker EXCEPT !.order = o]
      <3>1. a \in ActorRecord /\ a.boot = file.taker.boot
        BY <2>2, <2>3 DEF ActorRecord
      <3>2. NextState(r) = [file EXCEPT !.taker = a]
        BY <2>4, <2>5
      <3> HIDE DEF a
      <3>3. QED
        BY <2>1, <2>2, <3>1, <3>2 DEF LiveState
    <2>6. CASE req[r].kind = "maker"
      <3> DEFINE a == [file.maker EXCEPT !.order = o]
      <3>1. a \in ActorRecord /\ a.boot = file.maker.boot
        BY <2>2, <2>3 DEF ActorRecord
      <3>2. NextState(r) = [file EXCEPT !.maker = a]
        BY <2>4, <2>6
      <3> HIDE DEF a
      <3>3. QED
        BY <2>1, <2>2, <3>1, <3>2 DEF LiveState
    <2>7. QED
      BY <2>5, <2>6
  <1>3. QED
    BY <1>1, <1>2

LEMMA RereadTypes ==
  ASSUME Requests, File, NEW r \in Req, RereadState(r)  PROVE Requests'
  <1> DEFINE x == [req[r] EXCEPT !.ctx = NextState(r), !.pc = "write"]
  <1>1. req[r] \in Request /\ Stage(req[r]) /\ req[r].kind \in {"taker", "maker"}
    BY RequestTyped, LiveStages DEF RereadState
  <1>2. req' = [req EXCEPT ![r] = x]
    BY DEF RereadState
  <1>3. NextState(r) \in {None} \cup LiveState
    BY <1>1, NextStateFact
  <1>4. /\ x \in Request /\ x.slot = req[r].slot /\ x.kind = req[r].kind /\ x.pc = "write"
        /\ x.who = req[r].who /\ x.ctx = NextState(r)
    <2>1. NextState(r) \in Ctx /\ "write" \in PCs
      BY <1>3 DEF Ctx, PCs
    <2>2. QED
      BY ONLY <1>1, <2>1 DEF Request
  <1> HIDE DEF x
  <1>5. Stage(x)
    BY <1>1, <1>3, <1>4 DEF Stage, TradeKinds, LiveKinds, Ends
  <1>6. QED
    BY <1>2, <1>4, <1>5, RequestReplaced

LEMMA LiveWaitTypes ==
  ASSUME Requests, NEW r \in Req, LiveWaitL1(r)
  PROVE  Requests' /\ req'[r].ctx.maker.boot = req[r].ctx.maker.boot
  <1>1. req[r] \in Request /\ Stage(req[r]) /\ req[r].kind = "batch" /\ req[r].ctx \in LiveState
    BY RequestTyped, LiveStages DEF LiveWaitL1, At
  <1> DEFINE new == [req[r].ctx EXCEPT !.ran = r]
             x == [req[r] EXCEPT !.pc = "write", !.ctx = new]
  <1>2. new \in LiveState /\ new.maker.boot = req[r].ctx.maker.boot
    <2>1. /\ req[r].ctx \in [taker : ActorRecord, maker : ActorRecord, ran : 0 .. MaxReq]
          /\ req[r].ctx.taker.boot = req[r].ctx.maker.boot
      BY <1>1, LiveStateFact
    <2>2. r \in 0 .. MaxReq
      BY DemoAssumption DEF Req
    <2>3. QED
      BY <2>1, <2>2 DEF LiveState
  <1>3. req' = [req EXCEPT ![r] = x]
    BY DEF LiveWaitL1
  <1> HIDE DEF new
  <1>4. /\ x \in Request /\ x.slot = req[r].slot /\ x.kind = req[r].kind /\ x.pc = "write"
        /\ x.who = req[r].who /\ x.ctx = new
    BY <1>1, <1>2 DEF Request, PCs, Ctx
  <1> HIDE DEF x
  <1>5. Stage(x)
    BY <1>1, <1>2, <1>4 DEF Stage, TradeKinds, LiveKinds, Ends
  <1>6. QED
    BY <1>2, <1>3, <1>4, <1>5, RequestReplaced

\* Every step of a live request.
LEMMA LiveTypes ==
  ASSUME Requests, ChainTypes, File, NEW r \in Req, LiveStep(r)
  PROVE  Requests' /\ ChainTypes' /\ File'
  <1>0. /\ req[r] \in Request /\ SlotTypes /\ vault \in Vault
        /\ Live(r) => req[r].who \in Key
    BY RequestTyped, LiveStages, NameFact DEF ChainTypes, SlotTypes
  <1>a. ASSUME UNCHANGED file  PROVE File'
    BY <1>a DEF File, LiveState
  <1>1. CASE ReadState(r)
    BY <1>1, <1>a, ReadStateTypes, ChainStays DEF ReadState
  <1>2. CASE WriteState(r)
    <2>1. file' = None /\ UNCHANGED chain
      BY <1>2 DEF WriteState, NoState
    <2>2. File'
      BY <2>1 DEF File
    <2>3. Requests'
      BY <1>2, WriteStateTypes
    <2>4. QED
      BY <2>1, <2>2, <2>3, ChainStays
  <1>3. CASE StateWritten(r)
    BY <1>3, StateWrittenTypes, ChainStays DEF StateWritten
  <1>4. CASE LiveDeposit(r)
    BY <1>4, <1>a, LiveDepositTypes DEF LiveDeposit
  <1>5. CASE LiveChoose(r)
    BY <1>5, <1>a, LiveChooseTypes, ChainStays DEF LiveChoose
  <1>6. CASE LiveEnsureSlot(r)
    <2>1. /\ Live(r) /\ At(r, "ensure") /\ UNCHANGED <<chain, file>>
          /\ Goto(r, "init") \/ Goto(r, "delegateSlot") \/ LiveSlotReady(r)
      BY <1>6 DEF LiveEnsureSlot
    <2>2. req[r].kind = "bootstrap" /\ req[r].pc = "ensure"
      BY <2>1, LiveStages DEF At
    <2>3. CASE Goto(r, "init") \/ Goto(r, "delegateSlot")
      <3>1. Requests'
        BY <2>2, <2>3, LiveGoes DEF BootPCs
      <3>2. QED
        BY <1>a, <2>1, <3>1, ChainStays
    <2>4. CASE LiveSlotReady(r)
      BY <1>a, <2>1, <2>4, SlotReadyTypes, ChainStays
    <2>5. QED
      BY <2>1, <2>3, <2>4
  <1>7. CASE LiveInitSlot(r)
    <2>1. /\ Live(r) /\ At(r, "init") /\ req[r].slot \in SlotIdx
          /\ slot[req[r].who][req[r].slot].l1 # "delegated" /\ Goto(r, "ensure")
          /\ slot' = SlotInitialized(req[r].who, req[r].slot) /\ UNCHANGED <<market, batch, vault, late, file>>
      BY <1>7 DEF LiveInitSlot, CanInitSlot
    <2>2. SlotTypes'
      BY <1>0, <2>1, SlotMoves
    <2>3. req[r].kind = "bootstrap" /\ req[r].pc = "init"
      BY <2>1, LiveStages DEF At
    <2>4. Requests'
      BY <2>1, <2>3, LiveGoes DEF BootPCs
    <2>5. QED
      BY <1>a, <2>1, <2>2, <2>4, SlotsChange
  <1>8. CASE LiveDelegateSlot(r)
    <2>1. /\ Live(r) /\ At(r, "delegateSlot") /\ req[r].slot \in SlotIdx /\ LiveSlotReady(r)
          /\ slot' = SlotDelegated(req[r].who, req[r].slot) /\ UNCHANGED <<market, batch, vault, late, file>>
      BY <1>8 DEF LiveDelegateSlot, CanDelegateSlot
    <2>2. SlotTypes'
      BY <1>0, <2>1, SlotMoves
    <2>3. QED
      BY <1>a, <2>1, <2>2, SlotsChange, SlotReadyTypes
  <1>9. CASE LiveReadMarket(r)
    <2>1. Live(r) /\ At(r, "market") /\ UNCHANGED <<chain, file>> /\ (Goto(r, "delegate") \/ Goto(r, "write"))
      BY <1>9 DEF LiveReadMarket
    <2>2. req[r].kind = "bootstrap" /\ req[r].pc = "market"
      BY <2>1, LiveStages DEF At
    <2>3. Requests'
      BY <2>1, <2>2, LiveGoes DEF BootPCs
    <2>4. QED
      BY <1>a, <2>1, <2>3, ChainStays
  <1>10. CASE LiveDelegateMarket(r)
    <2>1. Live(r) /\ At(r, "delegate") /\ Goto(r, "write") /\ DelegateMarketTx /\ UNCHANGED <<slot, vault, late, file>>
      BY <1>10 DEF LiveDelegateMarket
    <2>2. req[r].kind = "bootstrap" /\ req[r].pc = "delegate"
      BY <2>1, LiveStages DEF At
    <2>3. Requests'
      BY <2>1, <2>2, LiveGoes DEF BootPCs
    <2>4. QED
      BY <1>a, <2>1, <2>3, MarketMoves
  <1>11. CASE LiveSubmit(r)
    <2> DEFINE a == req[r].ctx[req[r].kind]
               k == RoleKey(req[r].kind)
    <2>1. /\ At(r, "send") /\ a.slot \in SlotIdx /\ Goto(r, "reread")
          /\ slot' = OrderSubmitted(k, a.slot, <<k, r>>, <<k, a.boot>>)
          /\ UNCHANGED <<market, batch, vault, late, file>>
      BY <1>11 DEF LiveSubmit, CanSubmit
    <2>2. req[r].kind \in {"taker", "maker"} /\ req[r].ctx \in LiveState
      BY <2>1, LiveStages
    <2>3. k \in Key /\ <<k, r>> \in Id /\ <<k, a.boot>> \in Id
      BY <2>2, LiveStateFact, NameFact DEF RoleKey
    <2>4. SlotTypes'
      BY <1>0, <2>1, <2>3, SubmitFills
    <2>5. Requests'
      BY <2>1, <2>2, LiveGoes
    <2>6. QED
      BY <1>a, <2>1, <2>4, <2>5, SlotsChange
  <1>12. CASE RereadState(r)
    BY <1>12, <1>a, RereadTypes, ChainStays DEF RereadState
  <1>13. CASE LiveReadPre(r)
    <2> DEFINE x == [req[r] EXCEPT !.pre = batch.l1.runs, !.pc = "run"]
    <2>1. /\ Live(r) /\ At(r, "pre") /\ req' = [req EXCEPT ![r] = x] /\ UNCHANGED <<chain, file>>
      BY <1>13 DEF LiveReadPre
    <2>2. batch.l1.runs \in Nat
      BY DEF ChainTypes, Results
    <2>3. /\ x \in Request /\ x.slot = req[r].slot /\ x.kind = req[r].kind /\ x.pc = "run"
          /\ x.who = req[r].who /\ x.ctx = req[r].ctx
      BY <1>0, <2>2 DEF Request, PCs
    <2>4. Stage(req[r]) /\ req[r].kind = "batch" /\ req[r].pc = "pre"
      BY <2>1, RequestTyped, LiveStages DEF At
    <2> HIDE DEF x
    <2>5. Stage(x)
      BY <2>3, <2>4 DEF Stage, TradeKinds, LiveKinds, Ends
    <2>6. QED
      BY <1>a, <2>1, <2>3, <2>5, RequestReplaced, ChainStays
  <1>14. CASE LiveRunBatch(r)
    <2>1. /\ Live(r) /\ At(r, "run") /\ Goto(r, "undelegate") /\ UNCHANGED <<market, vault, late, file>>
          /\ RunBatchTx(Taker, req[r].ctx.taker.slot, Maker, req[r].ctx.maker.slot)
      BY <1>14 DEF LiveRunBatch
    <2>2. req[r].kind = "batch" /\ req[r].pc = "run"
      BY <2>1, LiveStages DEF At
    <2>3. ChainTypes'
      BY <2>1, BatchRuns, NameFact
    <2>4. Requests'
      BY <2>1, <2>2, LiveGoes
    <2>5. QED
      BY <1>a, <2>1, <2>3, <2>4
  <1>15. CASE LiveUndelegate(r)
    <2>1. /\ Live(r) /\ At(r, "undelegate") /\ Goto(r, "wait") /\ UNCHANGED <<slot, batch, vault, late, file>>
          /\ UndelegateTx
      BY <1>15 DEF LiveUndelegate
    <2>2. req[r].kind = "batch" /\ req[r].pc = "undelegate"
      BY <2>1, LiveStages DEF At
    <2>3. Requests'
      BY <2>1, <2>2, LiveGoes
    <2>4. QED
      BY <1>a, <2>1, <2>3, MarketMoves
  <1>16. CASE LiveWaitL1(r)
    BY <1>16, <1>a, LiveWaitTypes, ChainStays DEF LiveWaitL1
  <1>17. CASE LiveRefused(r)
    <2>1. Goto(r, "failed") /\ UNCHANGED <<chain, file>> /\ ~At(r, "free")
      BY <1>17 DEF LiveRefused, Fails, At
    <2>2. QED
      BY <1>a, <2>1, RequestFails, ChainStays
  <1>18. QED
    BY <1>1, <1>2, <1>3, <1>4, <1>5, <1>6, <1>7, <1>8, <1>9, <1>10, <1>11, <1>12, <1>13, <1>14,
       <1>15, <1>16, <1>17 DEF LiveStep

\* A new request.
LEMMA StartedTypes ==
  ASSUME Requests, NEW r \in Req, NEW kind, NEW who, NEW pc, NEW ctx, Started(r, kind, who, pc, ctx),
         \/ /\ kind \in {"init", "match"} /\ pc = "market" /\ who \in Trader
            /\ ctx \in TradeCtx /\ ctx.note[1] = who /\ ctx.order[1] = who
         \/ /\ kind \in LiveKinds /\ who = Taker /\ ctx = None
            /\ pc = IF kind = "bootstrap" THEN "deposit" ELSE "read"
  PROVE  /\ Requests' /\ \A q \in Req : q # r => req'[q] = req[q]
         /\ req'[r].kind = kind /\ req'[r].who = who /\ req'[r].pc = pc /\ req'[r].ctx = ctx
         /\ req'[r].seen = {} /\ req'[r].reuse = MaxSlots
  <1> DEFINE x == [Free EXCEPT !.kind = kind, !.who = who, !.pc = pc, !.ctx = ctx]
  <1>1. /\ kind \in {"none"} \cup TradeKinds \cup LiveKinds /\ who \in Key \cup {None} /\ pc \in PCs
        /\ ctx \in Ctx
    BY NameFact DEF TradeKinds, LiveKinds, PCs, Ctx
  <1>2. /\ x \in Request /\ x.kind = kind /\ x.who = who /\ x.pc = pc /\ x.ctx = ctx /\ x.slot = 0
        /\ x.seen = {} /\ x.reuse = MaxSlots
    BY <1>1, NameFact DEF Free, Request
  <1>3. req' = [req EXCEPT ![r] = x]
    BY DEF Started
  <1> HIDE DEF x
  <1>4. Stage(x)
    BY <1>2, NameFact DEF Stage, TradeKinds, LiveKinds, Ends
  <1>5. QED
    BY <1>2, <1>3, <1>4, RequestReplaced

\* A page's record is replaced.
LEMMA PageReplaced ==
  ASSUME Pages, NEW u \in Trader, NEW x \in PanelRecord, panel' = [panel EXCEPT ![u] = x]
  PROVE  /\ panel' \in [Trader -> PanelRecord] /\ panel'[u] = x
         /\ \A v \in Trader : v # u => panel'[v] = panel[v]
  BY DEF Pages

LEMMA AwaitFact ==
  ASSUME Pages, NEW u \in Trader, NEW w \in 0 .. AwaitsTx, Await(u, w)
  PROVE  /\ panel' \in [Trader -> PanelRecord] /\ \A v \in Trader : v # u => panel'[v] = panel[v]
         /\ panel'[u].wait = w /\ panel'[u].step = panel[u].step /\ panel'[u].slot = panel[u].slot
         /\ panel'[u].note = panel[u].note /\ panel'[u].order = panel[u].order
         /\ panel'[u].deposits = panel[u].deposits /\ panel'[u].submits = panel[u].submits
  <1> DEFINE x == [panel[u] EXCEPT !.wait = w]
  <1>1. panel[u] \in PanelRecord
    BY DEF Pages
  <1>2. /\ x \in PanelRecord /\ x.wait = w /\ x.step = panel[u].step /\ x.slot = panel[u].slot
        /\ x.note = panel[u].note /\ x.order = panel[u].order
        /\ x.deposits = panel[u].deposits /\ x.submits = panel[u].submits
    BY <1>1 DEF PanelRecord
  <1>3. panel' = [panel EXCEPT ![u] = x]
    BY DEF Await
  <1> HIDE DEF x
  <1>4. QED
    BY <1>2, <1>3, PageReplaced

LEMMA AdvanceFact ==
  ASSUME Pages, NEW u \in Trader, NEW step \in Steps, Advance(u, step)
  PROVE  /\ panel' \in [Trader -> PanelRecord] /\ \A v \in Trader : v # u => panel'[v] = panel[v]
         /\ panel'[u].wait = 0 /\ panel'[u].step = step /\ panel'[u].slot = panel[u].slot
         /\ panel'[u].note = panel[u].note /\ panel'[u].order = panel[u].order
         /\ panel'[u].deposits = panel[u].deposits /\ panel'[u].submits = panel[u].submits
  <1> DEFINE x == [panel[u] EXCEPT !.step = step, !.wait = 0]
  <1>1. panel[u] \in PanelRecord /\ 0 \in 0 .. AwaitsTx
    BY DemoAssumption DEF Pages, AwaitsTx
  <1>2. /\ x \in PanelRecord /\ x.wait = 0 /\ x.step = step /\ x.slot = panel[u].slot
        /\ x.note = panel[u].note /\ x.order = panel[u].order
        /\ x.deposits = panel[u].deposits /\ x.submits = panel[u].submits
    BY <1>1 DEF PanelRecord
  <1>3. panel' = [panel EXCEPT ![u] = x]
    BY DEF Advance
  <1> HIDE DEF x
  <1>4. QED
    BY <1>2, <1>3, PageReplaced

LEMMA DepositFact ==
  ASSUME Pages, NEW u \in Trader, NEW o \in Outcome,
         panel' = [panel EXCEPT ![u].deposits = @ + 1,
                                ![u].note = IF o.returns THEN panel[u].deposits + 1 ELSE @,
                                ![u].step = IF o.returns THEN "deposited" ELSE @]
  PROVE  /\ panel' \in [Trader -> PanelRecord] /\ \A v \in Trader : v # u => panel'[v] = panel[v]
         /\ panel'[u].wait = panel[u].wait /\ panel'[u].slot = panel[u].slot
         /\ panel'[u].order = panel[u].order /\ panel'[u].submits = panel[u].submits
         /\ panel[u].deposits \in Nat /\ panel'[u].deposits = panel[u].deposits + 1
         /\ \/ panel'[u].step = panel[u].step /\ panel'[u].note = panel[u].note
            \/ panel'[u].step = "deposited" /\ panel'[u].note = panel'[u].deposits
  <1> DEFINE note == IF o.returns THEN panel[u].deposits + 1 ELSE panel[u].note
             step == IF o.returns THEN "deposited" ELSE panel[u].step
             x == [panel[u] EXCEPT !.deposits = panel[u].deposits + 1, !.note = note, !.step = step]
  <1>1. panel[u] \in PanelRecord
    BY DEF Pages
  <1>2. /\ panel[u].deposits \in Nat /\ panel[u].deposits + 1 \in Nat /\ note \in Nat /\ step \in Steps
        /\ \/ step = panel[u].step /\ note = panel[u].note
           \/ step = "deposited" /\ note = panel[u].deposits + 1
    BY <1>1 DEF PanelRecord, Steps
  <1>3. panel' = [panel EXCEPT ![u] = x]
    OBVIOUS
  <1> HIDE DEF note, step
  <1>4. /\ x \in PanelRecord /\ x.wait = panel[u].wait /\ x.step = step /\ x.slot = panel[u].slot
        /\ x.note = note /\ x.order = panel[u].order
        /\ x.deposits = panel[u].deposits + 1 /\ x.submits = panel[u].submits
    BY <1>1, <1>2 DEF PanelRecord
  <1> HIDE DEF x
  <1>5. QED
    BY <1>2, <1>3, <1>4, PageReplaced

\* runSubmitOrderEr.
LEMMA SubmitFact ==
  ASSUME Pages, NEW u \in Trader, RunSubmitOrderEr(u)
  PROVE  /\ panel' \in [Trader -> PanelRecord] /\ \A v \in Trader : v # u => panel'[v] = panel[v]
         /\ panel'[u].slot = panel[u].slot /\ panel'[u].step = panel[u].step
         /\ panel'[u].note = panel[u].note /\ panel'[u].deposits = panel[u].deposits
         /\ panel[u].submits \in Nat /\ panel'[u].submits = panel[u].submits + 1
         /\ panel'[u].order = panel'[u].submits
         /\ \/ /\ CanSubmit(u, panel[u].slot) /\ panel'[u].wait = AwaitsTx
               /\ BuiltOrder(u, panel'[u].order) \in Flight
               /\ flight' = flight \cup {BuiltOrder(u, panel'[u].order)}
            \/ panel'[u].wait = 0 /\ flight' = flight
  <1> DEFINE s == panel[u].submits + 1
             wait == IF CanSubmit(u, panel[u].slot) THEN AwaitsTx ELSE 0
             x == [panel[u] EXCEPT !.submits = s, !.order = s, !.wait = wait]
  <1>1. panel[u] \in PanelRecord
    BY DEF Pages
  <1>2. panel[u].submits \in Nat /\ s \in Nat /\ wait \in 0 .. AwaitsTx
    BY <1>1, DemoAssumption DEF PanelRecord, AwaitsTx
  <1>3. panel' = [panel EXCEPT ![u] = x]
    BY DEF RunSubmitOrderEr
  <1>4. /\ CanSubmit(u, panel[u].slot) => wait = AwaitsTx /\ flight' = flight \cup {BuiltOrder(u, s)}
        /\ ~CanSubmit(u, panel[u].slot) => wait = 0 /\ flight' = flight
    BY DEF RunSubmitOrderEr
  <1>5. BuiltOrder(u, s) \in Flight
    <2>1. <<u, s>> \in Id /\ Note(u) \in Id /\ panel[u].slot \in Place
      BY <1>1, <1>2, NameFact DEF Note, PanelRecord
    <2>2. QED
      BY <2>1 DEF BuiltOrder, Flight
  <1> HIDE DEF wait
  <1>6. /\ x \in PanelRecord /\ x.wait = wait /\ x.step = panel[u].step /\ x.slot = panel[u].slot
        /\ x.note = panel[u].note /\ x.order = s /\ x.deposits = panel[u].deposits /\ x.submits = s
    BY <1>1, <1>2 DEF PanelRecord
  <1> HIDE DEF x
  <1>7. QED
    BY <1>2, <1>3, <1>4, <1>5, <1>6, PageReplaced

\* The answer of init-slot.
LEMMA SlotAnswerFact ==
  ASSUME Pages, NEW u \in Trader, NEW i \in Place,
         panel' = [panel EXCEPT ![u].wait = 0, ![u].step = "slot_ready", ![u].slot = i]
  PROVE  /\ panel' \in [Trader -> PanelRecord] /\ \A v \in Trader : v # u => panel'[v] = panel[v]
         /\ panel'[u].wait = 0 /\ panel'[u].step = "slot_ready" /\ panel'[u].slot = i
         /\ panel'[u].note = panel[u].note /\ panel'[u].order = panel[u].order
         /\ panel'[u].deposits = panel[u].deposits /\ panel'[u].submits = panel[u].submits
  <1> DEFINE x == [panel[u] EXCEPT !.wait = 0, !.step = "slot_ready", !.slot = i]
  <1>1. panel[u] \in PanelRecord /\ 0 \in 0 .. AwaitsTx
    BY DemoAssumption DEF Pages, AwaitsTx
  <1>2. /\ x \in PanelRecord /\ x.wait = 0 /\ x.step = "slot_ready" /\ x.slot = i
        /\ x.note = panel[u].note /\ x.order = panel[u].order
        /\ x.deposits = panel[u].deposits /\ x.submits = panel[u].submits
    BY <1>1 DEF PanelRecord, Steps
  <1>3. panel' = [panel EXCEPT ![u] = x]
    OBVIOUS
  <1> HIDE DEF x
  <1>4. QED
    BY <1>2, <1>3, PageReplaced

\* A reload.
LEMMA ReloadFact ==
  ASSUME Pages, NEW u \in Trader, Reload(u)
  PROVE  /\ panel' \in [Trader -> PanelRecord] /\ \A v \in Trader : v # u => panel'[v] = panel[v]
         /\ panel'[u].wait = 0 /\ panel'[u].step = "idle" /\ panel'[u].order = 0 /\ panel'[u].note = 0
         /\ panel'[u].deposits = panel[u].deposits /\ panel'[u].submits = panel[u].submits
  <1> DEFINE x == [NewPanel EXCEPT !.deposits = panel[u].deposits, !.submits = panel[u].submits]
  <1>1. panel[u].deposits \in Nat /\ panel[u].submits \in Nat /\ 0 \in 0 .. AwaitsTx /\ MaxSlots \in Place
    BY DemoAssumption, NameFact DEF Pages, AwaitsTx, PanelRecord
  <1>2. /\ x \in PanelRecord /\ x.wait = 0 /\ x.step = "idle" /\ x.note = 0 /\ x.order = 0
        /\ x.deposits = panel[u].deposits /\ x.submits = panel[u].submits
    BY <1>1 DEF PanelRecord, Steps, NewPanel
  <1>3. panel' = [panel EXCEPT ![u] = x]
    BY DEF Reload
  <1> HIDE DEF x
  <1>4. QED
    BY <1>2, <1>3, PageReplaced

\* The request a panel makes.
LEMMA CallTypes ==
  ASSUME Requests, Pages, NEW u \in Trader, NEW step, NEW kind \in {"init", "match"}, Call(u, step, kind)
  PROVE  /\ Requests' /\ UNCHANGED <<chain, flight>> /\ Shows(u, step)
         /\ \E r \in Req :
               /\ At(r, "free") /\ Await(u, r) /\ \A q \in Req : q # r => req'[q] = req[q]
               /\ req'[r].kind = kind /\ req'[r].who = u /\ req'[r].pc = "market" /\ req'[r].seen = {}
               /\ req'[r].ctx.note = Note(u) /\ req'[r].reuse = MaxSlots
  <1> DEFINE ctx == [slot |-> panel[u].slot, note |-> Note(u), order |-> <<u, panel[u].order>>]
  <1>1. PICK r \in Req : CanStart(r) /\ Started(r, kind, u, "market", ctx) /\ Await(u, r)
    BY DEF Call
  <1>2. ctx \in TradeCtx /\ ctx.note[1] = u /\ ctx.order[1] = u /\ ctx.note = Note(u)
    BY DEF Pages, PanelRecord, TradeCtx, Note
  <1> HIDE DEF ctx
  <1>3. /\ Requests' /\ \A q \in Req : q # r => req'[q] = req[q]
        /\ req'[r].kind = kind /\ req'[r].who = u /\ req'[r].pc = "market" /\ req'[r].ctx = ctx
        /\ req'[r].seen = {} /\ req'[r].reuse = MaxSlots
    BY <1>1, <1>2, StartedTypes
  <1>4. QED
    BY <1>1, <1>2, <1>3 DEF Call, CanStart

\* Every step of a panel.
LEMMA PanelTypes ==
  ASSUME Requests, ChainTypes, Pages, NEW u \in Trader, PanelStep(u)
  PROVE  Requests' /\ ChainTypes' /\ Pages'
  <1>a. /\ flight \subseteq Flight /\ panel[u] \in PanelRecord /\ vault \in Vault
    BY DEF Pages, ChainTypes
  <1>b. ASSUME UNCHANGED req  PROVE Requests'
    BY <1>b DEF Requests, Stage, TradeCtx, LiveState
  <1>c. ASSUME panel' \in [Trader -> PanelRecord], flight' \subseteq Flight  PROVE Pages'
    BY <1>c DEF Pages
  <1>w. \A w \in Req \cup {0} : w \in 0 .. AwaitsTx
    BY DemoAssumption DEF Req, AwaitsTx
  <1>1. CASE RunRegister(u)
    <2>1. UNCHANGED <<slot, market, batch, late, req, flight>> /\ vault' \in {vault, WalletCreated(u)}
          /\ (Advance(u, "registered") \/ UNCHANGED panel)
      BY <1>1 DEF RunRegister
    <2>2. panel' \in [Trader -> PanelRecord]
      BY <2>1, AdvanceFact DEF Pages, Steps
    <2>3. vault' \in Vault
      BY <1>a, <2>1, VaultMoves
    <2>4. QED
      BY <1>a, <1>b, <1>c, <2>1, <2>2, <2>3, VaultChanges
  <1>2. CASE RunInitSlot(u) \/ RunCounterMatch(u)
    <2>1. PICK step \in Steps, kind \in {"init", "match"} : Call(u, step, kind)
      BY <1>2 DEF RunInitSlot, RunCounterMatch, Steps
    <2>2. Requests' /\ UNCHANGED <<chain, flight>> /\ \E r \in Req : Await(u, r)
      BY <2>1, CallTypes
    <2>3. panel' \in [Trader -> PanelRecord]
      BY <1>w, <2>2, AwaitFact
    <2>4. QED
      BY <1>a, <1>c, <2>2, <2>3, ChainStays
  <1>3. CASE RunDeposit(u)
    <2>1. PICK o \in Outcome :
             /\ vault' = IF o.landed THEN Deposited(PreparedNote(u)) ELSE vault
             /\ panel' = [panel EXCEPT ![u].deposits = @ + 1,
                                       ![u].note = IF o.returns THEN panel[u].deposits + 1 ELSE @,
                                       ![u].step = IF o.returns THEN "deposited" ELSE @]
      BY <1>3 DEF RunDeposit
    <2>2. UNCHANGED <<slot, market, batch, late, req, flight>>
      BY <1>3 DEF RunDeposit
    <2>3. panel' \in [Trader -> PanelRecord] /\ panel[u].deposits \in Nat
      BY <2>1, DepositFact
    <2>4. PreparedNote(u) \in Id
      BY <2>3, NameFact DEF PreparedNote
    <2>5. vault' \in Vault
      BY <1>a, <2>1, <2>4, VaultMoves
    <2>6. QED
      BY <1>a, <1>b, <1>c, <2>2, <2>3, <2>5, VaultChanges
  <1>4. CASE RunSubmitOrderEr(u)
    <2>1. panel' \in [Trader -> PanelRecord] /\ flight' \subseteq Flight
      BY <1>4, <1>a, SubmitFact
    <2>2. QED
      BY <1>4, <1>b, <1>c, <2>1, ChainStays DEF RunSubmitOrderEr
  <1>5. CASE SubmitConfirmed(u)
    <2>1. Advance(u, "order_er") /\ UNCHANGED <<chain, req, flight>>
      BY <1>5 DEF SubmitConfirmed
    <2>2. panel' \in [Trader -> PanelRecord]
      BY <2>1, AdvanceFact DEF Steps
    <2>3. QED
      BY <1>a, <1>b, <1>c, <2>1, <2>2, ChainStays
  <1>6. CASE SubmitLost(u) \/ ConnectionLost(u)
    <2>1. Await(u, 0) /\ UNCHANGED <<chain, req>> /\ flight' \subseteq flight
      BY <1>6 DEF SubmitLost, ConnectionLost
    <2>2. panel' \in [Trader -> PanelRecord]
      BY <1>w, <2>1, AwaitFact
    <2>3. QED
      BY <1>a, <1>b, <1>c, <2>1, <2>2, ChainStays
  <1>7. CASE PanelAnswered(u)
    <2> DEFINE q == req[panel[u].wait]
    <2>1. /\ panel[u].wait \in Req /\ UNCHANGED <<chain, req, flight>>
          /\ \/ Await(u, 0) \/ Advance(u, "matched")
             \/ panel' = [panel EXCEPT ![u].wait = 0, ![u].step = "slot_ready", ![u].slot = q.slot]
      BY <1>7 DEF PanelAnswered
    <2>2. q.slot \in Place
      BY <2>1, RequestTyped DEF Request
    <2> HIDE DEF q
    <2>3. panel' \in [Trader -> PanelRecord]
      BY <1>w, <2>1, <2>2, AwaitFact, AdvanceFact, SlotAnswerFact DEF Steps
    <2>4. QED
      BY <1>a, <1>b, <1>c, <2>1, <2>3, ChainStays
  <1>8. CASE Reload(u)
    <2>1. panel' \in [Trader -> PanelRecord] /\ UNCHANGED <<chain, req, flight>>
      BY <1>8, ReloadFact DEF Reload
    <2>2. QED
      BY <1>a, <1>b, <1>c, <2>1, ChainStays
  <1>9. QED
    BY <1>1, <1>2, <1>3, <1>4, <1>5, <1>6, <1>7, <1>8 DEF PanelStep

\* The ER executes an order, or drops it.
LEMMA ExecuteFact ==
  ASSUME ChainTypes, Pages, NEW f \in flight, OrderExecutes(f)
  PROVE  /\ f \in Flight /\ f.by \in Trader /\ f.by \in Key /\ flight' = flight \ {f}
         /\ UNCHANGED <<market, batch, vault, late, req, budget, panel>>
         /\ SlotTypes' /\ StillDelegated
         /\ \/ slot' = slot /\ ~CanSubmit(f.by, f.slot)
            \/ /\ CanSubmit(f.by, f.slot) /\ f.slot \in SlotIdx
               /\ slot'[f.by][f.slot].status = "Pending" /\ slot'[f.by][f.slot].order = f.order
               /\ slot'[f.by][f.slot].note = f.note
               /\ \A h \in Key, j \in SlotIdx : h # f.by \/ j # f.slot => slot'[h][j] = slot[h][j]
  <1>1. /\ f \in Flight /\ f.by \in Trader /\ f.by \in Key /\ f.order \in Id /\ f.note \in Id
        /\ flight' = flight \ {f} /\ SlotTypes
        /\ UNCHANGED <<market, batch, vault, late, req, budget, panel>>
    BY NameFact DEF OrderExecutes, Pages, Flight, ChainTypes, SlotTypes
  <1>2. CASE CanSubmit(f.by, f.slot)
    <2>1. f.slot \in SlotIdx /\ slot' = OrderSubmitted(f.by, f.slot, f.order, f.note)
      BY <1>2 DEF CanSubmit, OrderExecutes
    <2>2. /\ SlotTypes' /\ StillDelegated
          /\ slot'[f.by][f.slot].status = "Pending" /\ slot'[f.by][f.slot].order = f.order
          /\ slot'[f.by][f.slot].note = f.note
          /\ \A h \in Key, j \in SlotIdx : h # f.by \/ j # f.slot => slot'[h][j] = slot[h][j]
      BY <1>1, <2>1, SubmitFills
    <2>3. QED
      BY <1>1, <1>2, <2>1, <2>2
  <1>3. CASE ~CanSubmit(f.by, f.slot)
    <2>1. slot' = slot
      BY <1>3 DEF OrderExecutes
    <2>2. QED
      BY <1>1, <1>3, <2>1 DEF SlotTypes, StillDelegated
  <1>4. QED
    BY <1>2, <1>3

\* The chain's own steps.
LEMMA ChainStepTypes ==
  ASSUME Requests, ChainTypes, ChainNext
  PROVE  Requests' /\ ChainTypes'
  <1>b. ASSUME UNCHANGED req  PROVE Requests'
    BY <1>b DEF Requests, Stage, TradeCtx, LiveState
  <1>v. vault \in Vault
    BY DEF ChainTypes
  <1>1. CASE CommitLands
    BY <1>1, <1>b, MarketMoves DEF CommitLands
  <1>2. CASE FeeSet
    BY <1>2, <1>b, <1>v, VaultMoves, VaultChanges DEF FeeSet
  <1>3. CASE OrderExpires
    <2>1. PICK o \in Orders : late' = late \cup {o}
      BY <1>3 DEF OrderExpires
    <2>2. o \in Id
      BY <2>1 DEF Orders, ChainTypes, SlotRecord, Vault, Lock, Match, Results
    <2>3. UNCHANGED <<slot, market, batch, vault, req>>
      BY <1>3 DEF OrderExpires
    <2>4. QED
      BY <1>b, <2>1, <2>2, <2>3 DEF ChainTypes
  <1>4. CASE LockReleased
    BY <1>4, <1>b, <1>v, VaultMoves, VaultChanges DEF LockReleased
  <1>5. CASE \E r \in Req : RequestDies(r)
    <2>1. PICK r \in Req : RequestDies(r)
      BY <1>5
    <2>2. Goto(r, "failed") /\ UNCHANGED chain /\ ~At(r, "free")
      BY <2>1 DEF RequestDies, Fails, Ended, At
    <2>3. QED
      BY <2>2, RequestFails, ChainStays
  <1>6. QED
    BY <1>1, <1>2, <1>3, <1>4, <1>5 DEF ChainNext

LEMMA LiveClickTypes ==
  ASSUME Requests, NEW kind \in LiveKinds, LiveClick(kind)
  PROVE  /\ Requests' /\ UNCHANGED <<chain, file>>
         /\ \E r \in Req :
               /\ At(r, "free") /\ \A q \in Req : q # r => req'[q] = req[q]
               /\ req'[r].kind = kind /\ req'[r].ctx = None /\ req'[r].pc \in {"deposit", "read"}
               /\ req'[r].seen = {} /\ req'[r].reuse = MaxSlots
  <1> DEFINE pc == IF kind = "bootstrap" THEN "deposit" ELSE "read"
  <1>1. PICK r \in Req : CanStart(r) /\ Started(r, kind, Taker, pc, None)
    BY DEF LiveClick, NoState
  <1>2. /\ Requests' /\ \A q \in Req : q # r => req'[q] = req[q]
        /\ req'[r].kind = kind /\ req'[r].ctx = None /\ req'[r].pc = pc /\ req'[r].seen = {}
        /\ req'[r].reuse = MaxSlots
    BY <1>1, StartedTypes
  <1>3. QED
    BY <1>1, <1>2 DEF LiveClick, CanStart

LEMMA TypesInit == Init => TypeInv
  <1> SUFFICES ASSUME Init  PROVE TypeInv
    OBVIOUS
  <1>1. EmptySlot \in SlotRecord /\ NoResults \in Results
    BY NameFact DEF EmptySlot, SlotRecord, NoResults, Results
  <1>2. Free \in Request /\ Stage(Free)
    BY NameFact DEF Free, Request, Stage, PCs, Ctx, TradeKinds, LiveKinds
  <1>3. NewPanel \in PanelRecord
    BY NameFact, DemoAssumption DEF NewPanel, PanelRecord, Steps, AwaitsTx
  <1>4. ChainTypes
    BY <1>1 DEF Init, ChainInit, ChainTypes, Results, NoResults, Vault
  <1>5. Requests
    BY <1>2 DEF Init, ChainInit, Requests
  <1>6. Pages /\ File
    BY <1>3 DEF Init, TradeInit, LiveInit, Pages, File, NoState
  <1>7. QED
    BY <1>4, <1>5, <1>6 DEF TypeInv

LEMMA TypesStep == TypeInv /\ [Next]_vars => TypeInv'
  <1> SUFFICES ASSUME TypeInv, [Next]_vars  PROVE TypeInv'
    OBVIOUS
  <1>0. Requests /\ ChainTypes /\ Pages /\ File
    BY DEF TypeInv
  <1>a. ASSUME UNCHANGED <<panel, flight>>  PROVE Pages'
    BY <1>0, <1>a DEF Pages
  <1>b. ASSUME UNCHANGED file  PROVE File'
    BY <1>0, <1>b DEF File, LiveState
  <1>c. ASSUME UNCHANGED req  PROVE Requests'
    BY <1>0, <1>c DEF Requests, Stage, TradeCtx, LiveState
  <1>1. CASE TradeNext /\ UNCHANGED <<file, reader>>
    <2>1. CASE \E u \in Trader : PanelStep(u)
      BY <1>0, <1>1, <1>b, <2>1, PanelTypes DEF TypeInv
    <2>2. CASE \E r \in Req : TradeStep(r) /\ UNCHANGED <<panel, flight>>
      BY <1>0, <1>1, <1>a, <1>b, <2>2, TradeTypes DEF TypeInv
    <2>3. CASE \E f \in flight : OrderExecutes(f)
      <3>1. PICK f \in flight : OrderExecutes(f)
        BY <2>3
      <3>2. SlotTypes' /\ UNCHANGED <<market, batch, vault, late, req, panel>> /\ flight' \subseteq flight
        BY <1>0, <3>1, ExecuteFact
      <3>3. Pages'
        BY <1>0, <3>2 DEF Pages
      <3>4. QED
        BY <1>0, <1>1, <1>b, <1>c, <3>2, <3>3, SlotsChange DEF TypeInv
    <2>4. QED
      BY <1>1, <2>1, <2>2, <2>3 DEF TradeNext
  <1>2. CASE LiveNext /\ UNCHANGED <<panel, flight, reader>>
    <2>1. CASE \E kind \in LiveKinds : LiveClick(kind)
      BY <1>0, <1>2, <1>a, <1>b, <2>1, LiveClickTypes, ChainStays DEF TypeInv
    <2>2. CASE \E r \in Req : LiveStep(r)
      BY <1>0, <1>2, <1>a, <2>2, LiveTypes DEF TypeInv
    <2>3. QED
      BY <1>2, <2>1, <2>2 DEF LiveNext, LiveKinds
  <1>3. CASE ChainNext /\ UNCHANGED <<panel, flight, file, reader>>
    BY <1>0, <1>3, <1>a, <1>b, ChainStepTypes DEF TypeInv
  <1>4. CASE ReadConsumed \/ ReadLock \/ UNCHANGED vars
    <2>1. UNCHANGED <<chain, req, panel, flight, file>>
      BY <1>4 DEF ReadConsumed, ReadLock, vars, chain
    <2>2. QED
      BY <1>0, <1>a, <1>b, <1>c, <2>1, ChainStays DEF TypeInv
  <1>5. QED
    BY <1>1, <1>2, <1>3, <1>4 DEF Next

LEMMA TypesCorrect == Spec => []TypeInv
  BY TypesInit, TypesStep, PTL DEF Spec

(***************************************************************************)
(* Every part of the demo's state has its type, and L1's results never run *)
(* ahead of the rollup's, in every interleaving of requests, panels and    *)
(* faults.                                                                 *)
(***************************************************************************)
THEOREM TypeCorrect == Spec => []TypeOK
  <1>1. TypeInv => TypeOK
    <2> SUFFICES ASSUME TypeInv  PROVE TypeOK
      OBVIOUS
    <2>1. Requests /\ ChainTypes /\ Pages
      BY DEF TypeInv
    <2>2. slot \in [Key -> [SlotIdx -> SlotRecord]] /\ late \subseteq Id
      BY <2>1 DEF ChainTypes
    <2>3. \A l \in vault.locks : l.note \in Id /\ l.order \in Id
      BY <2>1 DEF ChainTypes, Vault, Lock
    <2>4. \A r \in Req : req[r].pc \in PCs /\ req[r].slot \in 0 .. MaxSlots
      BY <2>1 DEF Requests, Request, Place
    <2>5. \A u \in Trader : panel[u].step \in Steps /\ panel[u].wait \in 0 .. AwaitsTx
      BY <2>1 DEF Pages, PanelRecord
    <2>6. /\ market \in {"l1", "er", "returning"} 
          /\ batch.l1.log \subseteq batch.er.log /\ batch.l1.runs <= batch.er.runs
      BY <2>1 DEF ChainTypes
    <2>7. QED
      BY <2>2, <2>3, <2>4, <2>5, <2>6 DEF TypeOK, SlotRecord
  <1>2. QED
    BY <1>1, TypesCorrect, PTL

(***************************************************************************)
(* However many tabs of the live panel write demo-live-state.json, and     *)
(* whatever the interleaving of their reads and truncating writes, the     *)
(* file never pairs a taker and a maker of different bootstraps.           *)
(***************************************************************************)
THEOREM SameBootstrapCorrect == Spec => []SameBootstrap
  <1>1. TypeInv => SameBootstrap
    BY LiveStateFact DEF TypeInv, File, SameBootstrap, NoState
  <1>2. QED
    BY <1>1, TypesCorrect, PTL

-----------------------------------------------------------------------------
(***************************************************************************)
(* What a step may do to a request, and to the chain.  The other layers    *)
(* are proved from these two facts.                                        *)
(***************************************************************************)

\* The stages before, and after, chooseFreshSlot, and from run_batch on.
Early == {"market", "delegate", "fee", "deposit"}
Chosen == {"ensure", "init", "delegateSlot", "submit"}
Ran == {"undelegate", "wait", "find", "lock", "settle", "done", "failed"}

\* A request starts with what its panel gave it.
Starts(q) ==
    /\ req'[q].pc \in {"market", "deposit", "read"} /\ req'[q].seen = {} /\ req'[q].reuse = MaxSlots
    /\ req'[q].kind \in LiveKinds => req'[q].ctx = None
\* The bootstrap of the state that a live request carries.
SameBoot(q) ==
    req'[q].ctx # None =>
       \/ req[q].ctx # None /\ req'[q].ctx.maker.boot = req[q].ctx.maker.boot
       \/ file # None /\ req'[q].ctx.maker.boot = file.maker.boot
       \/ req[q].kind = "bootstrap" /\ req'[q].ctx.maker.boot = q
\* A match request keeps what it has scanned, and its place in the route.
SameScan(q) ==
    /\ req'[q].slot = req[q].slot /\ req'[q].reuse = req[q].reuse /\ req'[q].seen = req[q].seen
    /\ req'[q].pc \in Early => req[q].pc \in Early
    /\ req'[q].pc = "scan" => req[q].pc \in Early \cup {"scan"}
    /\ req'[q].pc \in Chosen => req[q].pc \in Chosen
SameSearch(q) ==
    /\ req'[q].pc \in {"lock", "settle"}
          => FindMatch(q) \/ (req[q].pc \in {"lock", "settle"} /\ req'[q].seller = req[q].seller)
    /\ req'[q].pc = "done" => req[q].pc = "done" \/ Settle(q)
    /\ req[q].pc \in Ran => req'[q].pc \in Ran
Goes(q) ==
    /\ req'[q].kind = req[q].kind
    /\ Trade(q) => req'[q].who = req[q].who /\ req'[q].ctx = req[q].ctx
    /\ Live(q) => SameBoot(q)
    /\ req[q].pc \in Sent => req'[q].pc \in Sent
    /\ req[q].pc \in Ends => req'[q].pc = req[q].pc /\ req'[q].slot = req[q].slot
    /\ req[q].kind = "match" => SameSearch(q) /\ (SameScan(q) \/ ScanSlot(q))
    /\ req[q].kind = "init" /\ req'[q].pc = "done"
          => req[q].pc = "done" \/ slot'[req[q].who][req'[q].slot].l1 = "delegated"
Evolves(q) == IF req[q].pc = "free" THEN req'[q].pc = "free" \/ Starts(q) ELSE Goes(q)

LEMMA Unmoved ==
  ASSUME Requests, NEW q \in Req, req'[q] = req[q]
  PROVE  Evolves(q)
  BY DEF Evolves, Goes, SameBoot, SameScan, SameSearch

LEMMA GotoFact ==
  ASSUME Requests, NEW r \in Req, NEW pc, Goto(r, pc)
  PROVE  /\ \A q \in Req : q # r => req'[q] = req[q]
         /\ req'[r].pc = pc /\ req'[r].kind = req[r].kind /\ req'[r].who = req[r].who
         /\ req'[r].ctx = req[r].ctx /\ req'[r].slot = req[r].slot /\ req'[r].reuse = req[r].reuse
         /\ req'[r].seen = req[r].seen /\ req'[r].seller = req[r].seller
  <1> DEFINE x == [req[r] EXCEPT !.pc = pc]
  <1>1. req[r] \in Request
    BY RequestTyped
  <1>2. /\ x.pc = pc /\ x.kind = req[r].kind /\ x.who = req[r].who
        /\ x.ctx = req[r].ctx /\ x.slot = req[r].slot /\ x.reuse = req[r].reuse
        /\ x.seen = req[r].seen /\ x.seller = req[r].seller
    BY <1>1 DEF Request
  <1>3. req' = [req EXCEPT ![r] = x]
    BY DEF Goto
  <1> HIDE DEF x
  <1>4. req'[r] = x /\ \A q \in Req : q # r => req'[q] = req[q]
    BY <1>3 DEF Requests
  <1>5. QED
    BY <1>2, <1>4

\* The steps of a trade request that only move it on.
LEMMA TradeMoves ==
  ASSUME Requests, NEW r \in Req, NEW pc, Goto(r, pc), Trade(r), ~Ended(r),
         pc # "failed" =>
            /\ req[r].kind = "match" =>
                  \/ req[r].pc \in Early /\ pc \in Early \cup {"scan"}
                  \/ req[r].pc \in Chosen /\ pc \in Chosen \cup {"pre"}
                  \/ req[r].pc = "run" /\ pc = "undelegate"
                  \/ req[r].pc = "undelegate" /\ pc = "wait"
                  \/ req[r].pc = "wait" /\ pc = "find"
                  \/ req[r].pc = "lock" /\ pc = "settle"
                  \/ Settle(r) /\ pc = "done"
            /\ req[r].kind = "init" =>
                  \/ pc \in {"market", "delegate", "scan", "ensure", "init", "delegateSlot"}
                  \/ pc = "done" /\ slot'[req[r].who][req[r].slot].l1 = "delegated"
  PROVE  \A q \in Req : Evolves(q)
  <1>1. /\ req'[r].pc = pc /\ req'[r].kind = req[r].kind /\ req'[r].who = req[r].who
        /\ req'[r].ctx = req[r].ctx /\ req'[r].slot = req[r].slot /\ req'[r].reuse = req[r].reuse
        /\ req'[r].seen = req[r].seen /\ req'[r].seller = req[r].seller
        /\ \A q \in Req : q # r => Evolves(q)
    BY GotoFact, Unmoved
  <1>2. Stage(req[r]) /\ req[r].kind \in {"init", "match"} /\ req[r].pc \notin {"free", "done", "failed"}
    BY RequestTyped DEF Ended, Trade
  <1>3. ~Live(r)
    BY <1>2 DEF Live
  <1>4. req[r].pc \in Sent => req'[r].pc \in Sent
    BY <1>1, <1>2 DEF Sent, Stage, Ends, Early, Chosen
  <1>5. req[r].kind = "match" => SameSearch(r) /\ SameScan(r)
    BY <1>1, <1>2 DEF SameSearch, SameScan, Early, Chosen, Ran
  <1>6. Goes(r)
    BY <1>1, <1>2, <1>3, <1>4, <1>5 DEF Goes, Ends
  <1>7. QED
    BY <1>1, <1>2, <1>6 DEF Evolves

\* One step of chooseFreshSlot.
LEMMA ScanSlotFact ==
  ASSUME Requests, ChainTypes, NEW r \in Req, ScanSlot(r)
  PROVE  LET k == SlotKey(r)
             i == req[r].slot
             y == req'[r]
         IN /\ \A q \in Req : q # r => req'[q] = req[q]
            /\ i \in SlotIdx /\ k \in Key
            /\ y.kind = req[r].kind /\ y.who = req[r].who /\ y.ctx = req[r].ctx
            /\ y.pc \in {"scan", "ensure", "failed"}
            /\ \/ slot[k][i].l1 = "absent" /\ y.pc = "ensure" /\ y.slot = i /\ y.seen = req[r].seen
               \/ \E reuse \in Place :
                     /\ reuse = req[r].reuse \/ (reuse = i /\ slot[k][i].status # "Pending")
                     /\ y.seen = req[r].seen \cup IF slot[k][i].status = "Pending" THEN {slot[k][i].order} ELSE {}
                     /\ \/ y.pc = "scan" /\ y.slot = i + 1 /\ i + 1 \in SlotIdx /\ y.reuse = reuse
                        \/ y.pc \in {"ensure", "failed"} /\ y.slot = reuse
  <1> DEFINE k == SlotKey(r)
             i == req[r].slot
             y == req'[r]
             reuse == IF req[r].reuse = MaxSlots /\ Reusable(k, i) THEN i ELSE req[r].reuse
             pending == req[r].seen \cup IF slot[k][i].status = "Pending" THEN {slot[k][i].order} ELSE {}
  <1>1. req[r] \in Request /\ Stage(req[r]) /\ req[r].kind \in {"init", "match"} /\ req[r].pc = "scan"
    BY RequestTyped DEF ScanSlot, Trade, At
  <1>2. i \in SlotIdx /\ k \in Key
    BY <1>1, NameFact DEF Stage, SlotKey, TradeKinds
  <1>3. reuse \in Place /\ (reuse = req[r].reuse \/ (reuse = i /\ slot[k][i].status # "Pending"))
    BY <1>1, <1>2, NameFact DEF Reusable, Request
  <1>4. \/ Goto(r, "ensure") /\ slot[k][i].l1 = "absent"
        \/ i < MaxSlots - 1 /\ req' = [req EXCEPT ![r].slot = i + 1, ![r].reuse = reuse, ![r].seen = pending]
        \/ req' = [req EXCEPT ![r].slot = reuse, ![r].seen = pending,
                              ![r].pc = IF reuse = MaxSlots THEN "failed" ELSE "ensure"]
    BY DEF ScanSlot
  <1> HIDE DEF reuse, pending, k, i
  <1>5. CASE Goto(r, "ensure") /\ slot[k][i].l1 = "absent"
    BY <1>2, <1>5, GotoFact DEF k, i
  <1>6. CASE i < MaxSlots - 1 /\ req' = [req EXCEPT ![r].slot = i + 1, ![r].reuse = reuse, ![r].seen = pending]
    <2> DEFINE x == [req[r] EXCEPT !.slot = i + 1, !.reuse = reuse, !.seen = pending]
    <2>1. i + 1 \in SlotIdx
      BY <1>2, <1>6, DemoAssumption DEF SlotIdx
    <2>2. /\ x.slot = i + 1 /\ x.kind = req[r].kind /\ x.pc = "scan" /\ x.reuse = reuse
          /\ x.who = req[r].who /\ x.ctx = req[r].ctx /\ x.seen = pending
      BY <1>1 DEF Request
    <2>3. req' = [req EXCEPT ![r] = x]
      BY <1>6
    <2> HIDE DEF x
    <2>4. req'[r] = x /\ \A q \in Req : q # r => req'[q] = req[q]
      BY <2>3 DEF Requests
    <2>5. QED
      BY <1>2, <1>3, <2>1, <2>2, <2>4 DEF k, i, pending
  <1>7. CASE req' = [req EXCEPT ![r].slot = reuse, ![r].seen = pending,
                                ![r].pc = IF reuse = MaxSlots THEN "failed" ELSE "ensure"]
    <2> DEFINE pc == IF reuse = MaxSlots THEN "failed" ELSE "ensure"
               x == [req[r] EXCEPT !.slot = reuse, !.seen = pending, !.pc = pc]
    <2>1. pc \in {"failed", "ensure"}
      OBVIOUS
    <2>2. req' = [req EXCEPT ![r] = x]
      BY <1>7
    <2> HIDE DEF pc
    <2>3. /\ x.slot = reuse /\ x.kind = req[r].kind /\ x.pc = pc
          /\ x.who = req[r].who /\ x.ctx = req[r].ctx /\ x.seen = pending
      BY <1>1 DEF Request
    <2> HIDE DEF x
    <2>4. req'[r] = x /\ \A q \in Req : q # r => req'[q] = req[q]
      BY <2>2 DEF Requests
    <2>5. QED
      BY <1>2, <1>3, <2>1, <2>3, <2>4 DEF k, i, pending
  <1>8. QED
    BY <1>4, <1>5, <1>6, <1>7

\* The match of this run is found.
LEMMA FindMatchFact ==
  ASSUME Requests, NEW r \in Req, FindMatch(r)
  PROVE  /\ req[r].pc = "find" /\ req'[r].pc = "lock" /\ \A q \in Req : q # r => req'[q] = req[q]
         /\ req'[r].slot = req[r].slot /\ req'[r].kind = req[r].kind /\ req'[r].seen = req[r].seen
         /\ req'[r].who = req[r].who /\ req'[r].ctx = req[r].ctx /\ req'[r].reuse = req[r].reuse
         /\ UNCHANGED chain
         /\ \E m \in batch.l1.log : /\ m.buyer = req[r].ctx.note /\ m.seller = OwnId(r) /\ ~m.fee
                                     /\ req'[r].seller = m.seller
  <1>1. PICK m \in ThisRunsMatch(r) :
           ~m.fee /\ req' = [req EXCEPT ![r].pc = "lock", ![r].seller = m.seller]
    BY DEF FindMatch
  <1> DEFINE x == [req[r] EXCEPT !.pc = "lock", !.seller = m.seller]
  <1>2. req[r] \in Request
    BY RequestTyped
  <1>3. /\ x.slot = req[r].slot /\ x.kind = req[r].kind /\ x.seen = req[r].seen /\ x.pc = "lock"
        /\ x.who = req[r].who /\ x.ctx = req[r].ctx /\ x.reuse = req[r].reuse /\ x.seller = m.seller
    BY <1>2 DEF Request
  <1>4. req' = [req EXCEPT ![r] = x]
    BY <1>1
  <1> HIDE DEF x
  <1>5. req'[r] = x /\ \A q \in Req : q # r => req'[q] = req[q]
    BY <1>4 DEF Requests
  <1>6. /\ m \in batch.l1.log /\ m.buyer = req[r].ctx.note /\ m.seller = OwnId(r)
        /\ req[r].pc = "find" /\ UNCHANGED chain
    BY DEF ThisRunsMatch, FindMatch, At
  <1>7. QED
    BY <1>1, <1>3, <1>5, <1>6

LEMMA TradeEvolves ==
  ASSUME Requests, ChainTypes, NEW r \in Req, TradeStep(r)
  PROVE  \A q \in Req : Evolves(q)
  <1>0. req[r] \in Request /\ Stage(req[r]) /\ SlotTypes
    BY RequestTyped DEF ChainTypes, SlotTypes
  <1>a. Trade(r) => req[r].kind \in {"init", "match"} /\ req[r].who \in Key /\ ~Live(r)
    BY <1>0, NameFact DEF Trade, Stage, TradeKinds, Live
  <1>b. At(r, "fee") \/ At(r, "find") \/ At(r, "lock") \/ At(r, "settle") => Trade(r)
    BY <1>0 DEF At, Trade, Stage, Request, Ends, TradeKinds, LiveKinds
  <1> USE DEF At, Ended
  <1>1. CASE ReadMarket(r) \/ DelegateMarket(r)
    <2>1. /\ Trade(r) /\ req[r].pc \in {"market", "delegate"}
          /\ \E pc \in {"delegate", "scan", "fee"} : Goto(r, pc) /\ (req[r].kind = "init" => pc # "fee")
      BY <1>1 DEF ReadMarket, DelegateMarket
    <2>2. QED
      BY <1>a, <2>1, TradeMoves DEF Early
  <1>2. CASE EnsureZeroProtocolFee(r)
    <2>1. Trade(r) /\ req[r].pc = "fee" /\ Goto(r, "deposit") /\ req[r].kind # "init"
      BY <1>0, <1>2, <1>b DEF EnsureZeroProtocolFee, Stage, Ends
    <2>2. QED
      BY <1>a, <2>1, TradeMoves DEF Early
  <1>3. CASE MakerDeposit(r)
    <2>1. Trade(r) /\ req[r].pc = "deposit" /\ Goto(r, "scan")
      BY <1>3 DEF MakerDeposit
    <2>2. QED
      BY <1>a, <2>1, TradeMoves DEF Early
  <1>4. CASE ScanSlot(r)
    <2>1. Trade(r) /\ req[r].pc = "scan" /\ ScanSlot(r)
      BY <1>4 DEF ScanSlot
    <2>2. /\ \A q \in Req : q # r => req'[q] = req[q]
          /\ req'[r].kind = req[r].kind /\ req'[r].who = req[r].who /\ req'[r].ctx = req[r].ctx
          /\ req'[r].pc \in {"scan", "ensure", "failed"}
      BY <1>4, ScanSlotFact
    <2>3. SameSearch(r)
      BY <2>1, <2>2 DEF SameSearch, Ran
    <2>4. Goes(r)
      BY <1>a, <2>1, <2>2, <2>3 DEF Goes, Sent, Ends
    <2>5. QED
      BY <2>1, <2>2, <2>4, Unmoved DEF Evolves
  <1>5. CASE EnsureSlot(r)
    <2> DEFINE where == slot[SlotKey(r)][req[r].slot].l1
    <2>1. /\ Trade(r) /\ req[r].pc = "ensure" /\ slot' = slot
          /\ \/ Goto(r, "init") \/ Goto(r, "delegateSlot")
             \/ Goto(r, "submit") /\ req[r].kind # "init"
             \/ Goto(r, "done") /\ req[r].kind = "init" /\ where \notin {"absent", "owned"}
      BY <1>5 DEF EnsureSlot, chain
    <2>2. req[r].kind = "init" => req[r].slot \in SlotIdx
      BY <1>0, <2>1 DEF Stage, TradeKinds
    <2>3. req[r].kind = "init" /\ where \notin {"absent", "owned"}
             => slot'[req[r].who][req[r].slot].l1 = "delegated"
      BY <1>0, <1>a, <2>1, <2>2 DEF SlotKey, SlotTypes, SlotRecord
    <2> HIDE DEF where
    <2>4. QED
      BY <1>a, <2>1, <2>3, TradeMoves DEF Chosen
  <1>6. CASE InitSlot(r)
    <2>1. Trade(r) /\ req[r].pc = "init" /\ Goto(r, "ensure")
      BY <1>6 DEF InitSlot
    <2>2. QED
      BY <1>a, <2>1, TradeMoves DEF Chosen
  <1>7. CASE DelegateSlot(r)
    <2>1. /\ Trade(r) /\ req[r].pc = "delegateSlot" /\ req[r].slot \in SlotIdx
          /\ slot' = SlotDelegated(SlotKey(r), req[r].slot)
          /\ \/ Goto(r, "submit") /\ req[r].kind # "init"
             \/ Goto(r, "done") /\ req[r].kind = "init"
      BY <1>7 DEF DelegateSlot, CanDelegateSlot
    <2>2. req[r].kind = "init" => slot'[req[r].who][req[r].slot].l1 = "delegated"
      BY <1>0, <1>a, <2>1, SlotMoves DEF SlotKey
    <2>3. QED
      BY <1>a, <2>1, <2>2, TradeMoves DEF Chosen
  <1>8. CASE MakerSubmit(r)
    <2>1. Trade(r) /\ req[r].pc = "submit" /\ Goto(r, "pre") /\ req[r].kind # "init"
      BY <1>0, <1>8 DEF MakerSubmit, Stage, Ends
    <2>2. QED
      BY <1>a, <2>1, TradeMoves DEF Chosen
  <1>9. CASE ReadPreBatch(r)
    <2> DEFINE x == [req[r] EXCEPT !.pre = batch.l1.runs, !.pc = "run"]
    <2>1. Trade(r) /\ req[r].pc = "pre" /\ req' = [req EXCEPT ![r] = x]
      BY <1>9 DEF ReadPreBatch
    <2>2. /\ x.slot = req[r].slot /\ x.kind = req[r].kind /\ x.pc = "run" /\ x.seen = req[r].seen
          /\ x.who = req[r].who /\ x.ctx = req[r].ctx /\ x.reuse = req[r].reuse
      BY <1>0 DEF Request
    <2>3. req'[r] = x /\ \A q \in Req : q # r => req'[q] = req[q]
      BY <2>1 DEF Requests
    <2> HIDE DEF x
    <2>4. SameSearch(r) /\ SameScan(r)
      BY <2>1, <2>2, <2>3 DEF SameSearch, SameScan, Early, Chosen, Ran
    <2>5. Goes(r)
      BY <1>a, <2>1, <2>2, <2>3, <2>4 DEF Goes, Ends, Sent
    <2>6. QED
      BY <2>1, <2>3, <2>5, Unmoved DEF Evolves
  <1>10. CASE RunBatch(r) \/ Undelegate(r) \/ WaitL1(r)
    <2>1. /\ Trade(r)
          /\ \/ req[r].pc = "run" /\ Goto(r, "undelegate")
             \/ req[r].pc = "undelegate" /\ Goto(r, "wait")
             \/ req[r].pc = "wait" /\ Goto(r, "find")
      BY <1>10 DEF RunBatch, Undelegate, WaitL1
    <2>2. req[r].kind # "init"
      BY <1>0, <2>1 DEF Stage, Ends
    <2>3. QED
      BY <1>a, <2>1, <2>2, TradeMoves
  <1>11. CASE FindMatch(r)
    <2>1. /\ req[r].pc = "find" /\ req'[r].pc = "lock" /\ \A q \in Req : q # r => req'[q] = req[q]
          /\ req'[r].slot = req[r].slot /\ req'[r].kind = req[r].kind /\ req'[r].seen = req[r].seen
          /\ req'[r].who = req[r].who /\ req'[r].ctx = req[r].ctx /\ req'[r].reuse = req[r].reuse
      BY <1>11, FindMatchFact
    <2>2. Trade(r) /\ ~Live(r)
      BY <1>a, <1>b, <2>1
    <2>3. SameSearch(r) /\ SameScan(r)
      BY <1>11, <2>1 DEF SameSearch, SameScan, Early, Chosen, Ran
    <2>4. Goes(r)
      BY <2>1, <2>2, <2>3 DEF Goes, Ends, Sent
    <2>5. QED
      BY <2>1, <2>4, Unmoved DEF Evolves
  <1>12. CASE LockNotes(r) \/ Settle(r)
    <2>1. \/ req[r].pc = "lock" /\ Goto(r, "settle")
          \/ req[r].pc = "settle" /\ Goto(r, "done") /\ Settle(r)
      <3>1. CASE LockNotes(r)
        BY <3>1 DEF LockNotes
      <3>2. CASE Settle(r)
        <4>1. req[r].pc = "settle" /\ Goto(r, "done")
          BY <3>2 DEF Settle
        <4>2. QED
          BY <3>2, <4>1
      <3>3. QED
        BY <1>12, <3>1, <3>2
    <2>2. req[r].kind # "init" /\ Trade(r)
      BY <1>0, <1>b, <2>1 DEF Stage, Ends
    <2>3. QED
      BY <1>a, <2>1, <2>2, TradeMoves
  <1>13. CASE Refused(r)
    <2>1. Trade(r) /\ Goto(r, "failed") /\ ~Ended(r)
      BY <1>13 DEF Refused, Fails
    <2>2. QED
      BY <2>1, TradeMoves
  <1>14. QED
    BY <1>1, <1>2, <1>3, <1>4, <1>5, <1>6, <1>7, <1>8, <1>9, <1>10, <1>11, <1>12, <1>13 DEF TradeStep

\* A live request moves on.
LEMMA LiveMoves ==
  ASSUME Requests, NEW r \in Req, Live(r), ~Ended(r), \A q \in Req : q # r => req'[q] = req[q],
         req'[r].kind = req[r].kind, SameBoot(r), req[r].pc \in Sent => req'[r].pc \in Sent
  PROVE  \A q \in Req : Evolves(q)
  <1>1. Goes(r) /\ req[r].pc # "free"
    BY DEF Goes, Live, Trade, Ended, Ends
  <1>2. QED
    BY <1>1, Unmoved DEF Evolves

LEMMA LiveGotoMoves ==
  ASSUME Requests, NEW r \in Req, Live(r), ~Ended(r), NEW pc, Goto(r, pc), req[r].pc \in Sent => pc \in Sent
  PROVE  \A q \in Req : Evolves(q)
  <1>1. /\ \A q \in Req : q # r => req'[q] = req[q]
        /\ req'[r].pc = pc /\ req'[r].kind = req[r].kind /\ req'[r].ctx = req[r].ctx
    BY GotoFact
  <1>2. SameBoot(r)
    BY <1>1 DEF SameBoot
  <1>3. QED
    BY <1>1, <1>2, LiveMoves

LEMMA SlotReadyEvolves ==
  ASSUME Requests, NEW r \in Req, Live(r), At(r, "ensure") \/ At(r, "delegateSlot"), LiveSlotReady(r)
  PROVE  \A q \in Req : Evolves(q)
  <1>1. req[r] \in Request
    BY RequestTyped
  <1>2. ~Ended(r) /\ req[r].pc \notin Sent
    BY DEF Ended, At, Sent
  <1>3. CASE req[r].who = Taker
    <2> DEFINE x == [req[r] EXCEPT !.who = Maker, !.slot = req[r].ctx.maker.slot, !.pc = "ensure"]
    <2>1. req' = [req EXCEPT ![r] = x]
      BY <1>3 DEF LiveSlotReady
    <2>2. x.kind = req[r].kind /\ x.ctx = req[r].ctx
      BY <1>1 DEF Request
    <2> HIDE DEF x
    <2>3. req'[r] = x /\ \A q \in Req : q # r => req'[q] = req[q]
      BY <2>1 DEF Requests
    <2>4. SameBoot(r)
      BY <2>2, <2>3 DEF SameBoot
    <2>5. QED
      BY <1>2, <2>2, <2>3, <2>4, LiveMoves
  <1>4. CASE req[r].who # Taker
    <2>1. Goto(r, "market")
      BY <1>4 DEF LiveSlotReady, Goto
    <2>2. QED
      BY <1>2, <2>1, LiveGotoMoves
  <1>5. QED
    BY <1>3, <1>4

LEMMA LiveEvolves ==
  ASSUME Requests, ChainTypes, File, NEW r \in Req, LiveStep(r)
  PROVE  \A q \in Req : Evolves(q)
  <1>0. req[r] \in Request /\ Stage(req[r])
    BY RequestTyped
  <1> USE DEF At, Ended, Sent
  <1>1. CASE ReadState(r)
    <2> DEFINE x == [req[r] EXCEPT !.ctx = file,
                         !.pc = IF file = NoState THEN "failed" ELSE IF req[r].kind = "batch" THEN "pre" ELSE "send"]
    <2>1. req[r].pc = "read" /\ req' = [req EXCEPT ![r] = x]
      BY <1>1 DEF ReadState
    <2>2. x.kind = req[r].kind /\ x.ctx = file
      BY <1>0 DEF Request
    <2> HIDE DEF x
    <2>3. req'[r] = x /\ \A q \in Req : q # r => req'[q] = req[q]
      BY <2>1 DEF Requests
    <2>4. SameBoot(r)
      BY <2>2, <2>3 DEF SameBoot
    <2>5. Live(r)
      BY <2>1, LiveStages DEF Live
    <2>6. QED
      BY <2>1, <2>2, <2>3, <2>4, <2>5, LiveMoves
  <1>2. CASE WriteState(r)
    <2>1. Live(r) /\ req[r].pc = "write"
      BY <1>2, LiveStages DEF WriteState
    <2>2. ASSUME NEW q \in Req  PROVE Evolves(q)
      <3>1. /\ req'[q].kind = req[q].kind /\ req'[q].who = req[q].who
            /\ req'[q].ctx = req[q].ctx /\ req'[q].slot = req[q].slot
            /\ req'[q].reuse = req[q].reuse /\ req'[q].seen = req[q].seen
            /\ req'[q].seller = req[q].seller
            /\ req'[q].pc = IF q = r THEN "writing" ELSE req[q].pc
        BY <1>2, WriteStateTypes
      <3>2. SameBoot(q)
        BY <3>1 DEF SameBoot
      <3>3. CASE q = r
        <4>1. Goes(q) /\ req[q].pc # "free"
          BY <2>1, <3>1, <3>2, <3>3 DEF Goes, Live, Trade, Ends
        <4>2. QED
          BY <4>1 DEF Evolves
      <3>4. CASE q # r
        BY <3>1, <3>2, <3>4 DEF Evolves, Goes, SameScan, SameSearch
      <3>5. QED
        BY <3>3, <3>4
    <2>3. QED
      BY <2>2
  <1>3. CASE StateWritten(r)
    <2> DEFINE x == [req[r] EXCEPT !.pc = "done", !.mixed = FALSE]
    <2>1. req[r].pc = "writing" /\ req' = [req EXCEPT ![r] = x]
      BY <1>3 DEF StateWritten
    <2>2. x.kind = req[r].kind /\ x.ctx = req[r].ctx /\ x.pc = "done"
      BY <1>0 DEF Request
    <2> HIDE DEF x
    <2>3. req'[r] = x /\ \A q \in Req : q # r => req'[q] = req[q]
      BY <2>1 DEF Requests
    <2>4. SameBoot(r)
      BY <2>2, <2>3 DEF SameBoot
    <2>5. Live(r)
      BY <2>1, LiveStages
    <2>6. QED
      BY <2>1, <2>2, <2>3, <2>4, <2>5, LiveMoves
  <1>4. CASE LiveDeposit(r)
    <2>1. Live(r) /\ req[r].pc = "deposit"
      BY <1>4 DEF LiveDeposit
    <2>2. PICK x : req' = [req EXCEPT ![r] = x] /\ x.kind = req[r].kind /\ x.ctx = req[r].ctx
      <3>1. CASE req[r].who = Taker
        <4> DEFINE x == [req[r] EXCEPT !.who = Maker]
        <4>1. req' = [req EXCEPT ![r] = x] /\ x.kind = req[r].kind /\ x.ctx = req[r].ctx
          BY <1>0, <1>4, <3>1 DEF LiveDeposit, Request
        <4>2. QED
          BY <4>1
      <3>2. CASE req[r].who # Taker
        <4> DEFINE x == [req[r] EXCEPT !.who = Taker, !.pc = "choose"]
        <4>1. req' = [req EXCEPT ![r] = x] /\ x.kind = req[r].kind /\ x.ctx = req[r].ctx
          BY <1>0, <1>4, <3>2 DEF LiveDeposit, Request
        <4>2. QED
          BY <4>1
      <3>3. QED
        BY <3>1, <3>2
    <2>3. req'[r] = x /\ \A q \in Req : q # r => req'[q] = req[q]
      BY <2>2 DEF Requests
    <2>4. SameBoot(r)
      BY <2>2, <2>3 DEF SameBoot
    <2>5. QED
      BY <2>1, <2>2, <2>3, <2>4, LiveMoves
  <1>5. CASE LiveChoose(r)
    <2>1. req[r].pc = "choose" /\ Live(r) /\ req[r].kind = "bootstrap"
      BY <1>5, LiveStages DEF LiveChoose
    <2>2. \E x : req' = [req EXCEPT ![r] = x] /\ x.kind = req[r].kind
      <3> DEFINE fresh == FreshSlot(req[r].who)
                 new == [taker |-> Actor(r, req[r].slot), maker |-> Actor(r, fresh), ran |-> 0]
      <3>1. req' = IF req[r].who = Taker THEN [req EXCEPT ![r].who = Maker, ![r].slot = fresh]
                   ELSE [req EXCEPT ![r].who = Taker, ![r].pc = "ensure", ![r].ctx = new]
        BY <1>5 DEF LiveChoose
      <3> HIDE DEF fresh, new
      <3>2. CASE req[r].who = Taker
        <4> DEFINE x == [req[r] EXCEPT !.who = Maker, !.slot = fresh]
        <4>1. req' = [req EXCEPT ![r] = x] /\ x.kind = req[r].kind
          BY <1>0, <3>1, <3>2 DEF Request
        <4>2. QED
          BY <4>1
      <3>3. CASE req[r].who # Taker
        <4> DEFINE x == [req[r] EXCEPT !.who = Taker, !.pc = "ensure", !.ctx = new]
        <4>1. req' = [req EXCEPT ![r] = x] /\ x.kind = req[r].kind
          BY <1>0, <3>1, <3>3 DEF Request
        <4>2. QED
          BY <4>1
      <3>4. QED
        BY <3>2, <3>3
    <2>3. req'[r].kind = req[r].kind /\ \A q \in Req : q # r => req'[q] = req[q]
      BY <2>2 DEF Requests
    <2>4. SameBoot(r)
      BY <1>5, <2>1, LiveChooseTypes DEF SameBoot
    <2>5. QED
      BY <2>1, <2>3, <2>4, LiveMoves
  <1>6. CASE LiveEnsureSlot(r)
    <2>1. /\ Live(r) /\ At(r, "ensure")
          /\ Goto(r, "init") \/ Goto(r, "delegateSlot") \/ LiveSlotReady(r)
      BY <1>6 DEF LiveEnsureSlot
    <2>2. QED
      BY <2>1, LiveGotoMoves, SlotReadyEvolves
  <1>7. CASE LiveInitSlot(r)
    BY <1>7, LiveGotoMoves DEF LiveInitSlot
  <1>8. CASE LiveDelegateSlot(r)
    BY <1>8, SlotReadyEvolves DEF LiveDelegateSlot
  <1>9. CASE LiveReadMarket(r)
    BY <1>9, LiveGotoMoves DEF LiveReadMarket
  <1>10. CASE LiveDelegateMarket(r)
    BY <1>10, LiveGotoMoves DEF LiveDelegateMarket
  <1>11. CASE LiveSubmit(r)
    <2>1. At(r, "send") /\ Goto(r, "reread")
      BY <1>11 DEF LiveSubmit
    <2>2. Live(r)
      BY <2>1, LiveStages DEF Live
    <2>3. QED
      BY <2>1, <2>2, LiveGotoMoves
  <1>12. CASE RereadState(r)
    <2> DEFINE x == [req[r] EXCEPT !.ctx = NextState(r), !.pc = "write"]
    <2>1. req[r].pc = "reread" /\ req' = [req EXCEPT ![r] = x]
      BY <1>12 DEF RereadState
    <2>2. x.kind = req[r].kind /\ x.ctx = NextState(r) /\ x.pc = "write"
      BY <1>0 DEF Request
    <2> HIDE DEF x
    <2>3. req'[r] = x /\ \A q \in Req : q # r => req'[q] = req[q]
      BY <2>1 DEF Requests
    <2>4. req[r].kind \in {"taker", "maker"}
      BY <2>1, LiveStages
    <2>5. NextState(r) # None => file # None /\ NextState(r).maker.boot = file.maker.boot
      BY <2>4, NextStateFact DEF NextState, NoState
    <2>6. SameBoot(r)
      BY <2>2, <2>3, <2>5 DEF SameBoot
    <2>7. Live(r)
      BY <2>4 DEF Live
    <2>8. QED
      BY <2>1, <2>2, <2>3, <2>6, <2>7, LiveMoves
  <1>13. CASE LiveReadPre(r)
    <2> DEFINE x == [req[r] EXCEPT !.pre = batch.l1.runs, !.pc = "run"]
    <2>1. Live(r) /\ req[r].pc = "pre" /\ req' = [req EXCEPT ![r] = x]
      BY <1>13 DEF LiveReadPre
    <2>2. x.kind = req[r].kind /\ x.ctx = req[r].ctx /\ x.pc = "run"
      BY <1>0 DEF Request
    <2> HIDE DEF x
    <2>3. req'[r] = x /\ \A q \in Req : q # r => req'[q] = req[q]
      BY <2>1 DEF Requests
    <2>4. SameBoot(r)
      BY <2>2, <2>3 DEF SameBoot
    <2>5. QED
      BY <2>1, <2>2, <2>3, <2>4, LiveMoves
  <1>14. CASE LiveRunBatch(r)
    BY <1>14, LiveGotoMoves DEF LiveRunBatch
  <1>15. CASE LiveUndelegate(r)
    BY <1>15, LiveGotoMoves DEF LiveUndelegate
  <1>16. CASE LiveWaitL1(r)
    <2>1. Live(r) /\ req[r].pc = "wait" /\ req' = [req EXCEPT ![r].pc = "write", ![r].ctx.ran = r]
      BY <1>16 DEF LiveWaitL1
    <2> DEFINE x == [req[r] EXCEPT !.pc = "write", !.ctx = [req[r].ctx EXCEPT !.ran = r]]
    <2>2. req' = [req EXCEPT ![r] = x]
      BY <2>1
    <2>3. x.kind = req[r].kind /\ x.pc = "write"
      BY <1>0 DEF Request
    <2> HIDE DEF x
    <2>4. req'[r] = x /\ \A q \in Req : q # r => req'[q] = req[q]
      BY <2>2 DEF Requests
    <2>5. req[r].ctx # None /\ req'[r].ctx.maker.boot = req[r].ctx.maker.boot
      <3>1. req[r].ctx \in LiveState
        BY <2>1, LiveStages
      <3>2. QED
        BY <1>16, <3>1, LiveWaitTypes, NotNone
    <2>6. SameBoot(r)
      BY <2>5 DEF SameBoot
    <2>7. QED
      BY <2>1, <2>3, <2>4, <2>6, LiveMoves
  <1>17. CASE LiveRefused(r)
    <2>1. Live(r) /\ Goto(r, "failed") /\ ~Ended(r)
      BY <1>17 DEF LiveRefused, Fails
    <2>2. QED
      BY <2>1, LiveGotoMoves
  <1>18. QED
    BY <1>1, <1>2, <1>3, <1>4, <1>5, <1>6, <1>7, <1>8, <1>9, <1>10, <1>11, <1>12, <1>13, <1>14,
       <1>15, <1>16, <1>17 DEF LiveStep

\* Every step, seen from any request.
LEMMA RequestsEvolve ==
  ASSUME TypeInv, [Next]_vars
  PROVE  \A q \in Req : Evolves(q)
  <1>0. Requests /\ ChainTypes /\ Pages /\ File
    BY DEF TypeInv
  <1>a. ASSUME UNCHANGED req  PROVE \A q \in Req : Evolves(q)
    BY <1>0, <1>a, Unmoved
  <1>b. ASSUME NEW r \in Req, At(r, "free"), Starts(r), \A q \in Req : q # r => req'[q] = req[q]
        PROVE  \A q \in Req : Evolves(q)
    <2>1. Evolves(r)
      BY <1>b DEF Evolves, At
    <2>2. QED
      BY <1>0, <1>b, <2>1, Unmoved
  <1>1. CASE \E u \in Trader : PanelStep(u)
    <2>1. PICK u \in Trader : PanelStep(u)
      BY <1>1
    <2>2. CASE RunInitSlot(u) \/ RunCounterMatch(u)
      <3>1. PICK step \in Steps, kind \in {"init", "match"} : Call(u, step, kind)
        BY <2>2 DEF RunInitSlot, RunCounterMatch, Steps
      <3>2. PICK r \in Req :
               /\ At(r, "free") /\ \A q \in Req : q # r => req'[q] = req[q]
               /\ req'[r].kind = kind /\ req'[r].pc = "market" /\ req'[r].seen = {}
               /\ req'[r].reuse = MaxSlots
        BY <1>0, <3>1, CallTypes
      <3>3. Starts(r)
        BY <3>2 DEF Starts, LiveKinds
      <3>4. QED
        BY <1>b, <3>2, <3>3
    <2>3. CASE ~(RunInitSlot(u) \/ RunCounterMatch(u))
      <3>1. UNCHANGED req
        BY <2>1, <2>3 DEF PanelStep, RunRegister, RunDeposit, RunSubmitOrderEr, SubmitConfirmed,
                          SubmitLost, PanelAnswered, ConnectionLost, Reload
      <3>2. QED
        BY <1>a, <3>1
    <2>4. QED
      BY <2>2, <2>3
  <1>2. CASE \E r \in Req : TradeStep(r)
    BY <1>0, <1>2, TradeEvolves
  <1>3. CASE \E r \in Req : LiveStep(r)
    BY <1>0, <1>3, LiveEvolves
  <1>4. CASE \E kind \in LiveKinds : LiveClick(kind)
    <2>1. PICK kind \in LiveKinds : LiveClick(kind)
      BY <1>4
    <2>2. PICK r \in Req :
             /\ At(r, "free") /\ \A q \in Req : q # r => req'[q] = req[q]
             /\ req'[r].kind = kind /\ req'[r].ctx = None /\ req'[r].pc \in {"deposit", "read"}
             /\ req'[r].seen = {} /\ req'[r].reuse = MaxSlots
      BY <1>0, <2>1, LiveClickTypes
    <2>3. Starts(r)
      BY <2>2 DEF Starts
    <2>4. QED
      BY <1>b, <2>2, <2>3
  <1>5. CASE \E r \in Req : RequestDies(r)
    <2>1. PICK r \in Req : RequestDies(r)
      BY <1>5
    <2>2. ~Ended(r) /\ Goto(r, "failed")
      BY <2>1 DEF RequestDies, Fails
    <2>3. req[r].kind \in {"init", "match", "bootstrap", "taker", "maker", "batch"}
      BY <1>0, <2>2, RequestTyped DEF Request, Stage, Ended, TradeKinds, LiveKinds
    <2>4. CASE Trade(r)
      BY <1>0, <2>2, <2>4, TradeMoves
    <2>5. CASE Live(r)
      BY <1>0, <2>2, <2>5, LiveGotoMoves DEF Sent
    <2>6. QED
      BY <2>3, <2>4, <2>5 DEF Trade, Live
  <1>6. CASE \/ \E f \in flight : OrderExecutes(f)
             \/ CommitLands \/ FeeSet \/ OrderExpires \/ LockReleased \/ ReadConsumed \/ ReadLock
             \/ UNCHANGED vars
    <2>1. UNCHANGED req
      BY <1>6 DEF OrderExecutes, CommitLands, FeeSet, OrderExpires, LockReleased, ReadConsumed,
                  ReadLock, vars
    <2>2. QED
      BY <1>a, <2>1
  <1>7. QED
    BY <1>1, <1>2, <1>3, <1>4, <1>5, <1>6 DEF Next, TradeNext, LiveNext, ChainNext, LiveKinds

\* A step that neither places nor matches an order, and settles nothing.
Calm ==
    /\ SameOrders /\ StillDelegated
    /\ batch'.er.log = batch.er.log /\ batch.l1.log \subseteq batch'.l1.log
    /\ vault'.settled = vault.settled
    /\ file' # None => file' = file \/ \E r \in Req : Live(r) /\ file' = req[r].ctx
Orderly(r) == MakerSubmit(r) \/ RunBatch(r) \/ Settle(r) \/ LiveSubmit(r) \/ LiveRunBatch(r)

LEMMA CalmChain ==
  ASSUME UNCHANGED <<slot, batch, file>>, vault'.settled = vault.settled
  PROVE  Calm
  BY DEF Calm, SameOrders, StillDelegated

LEMMA CalmSlots ==
  ASSUME SameOrders, StillDelegated, UNCHANGED <<batch, vault, file>>
  PROVE  Calm
  BY DEF Calm

LEMMA CalmMarket ==
  ASSUME ChainTypes, UNCHANGED <<slot, vault, late, file>>,
         DelegateMarketTx \/ (UndelegateTx /\ UNCHANGED batch)
            \/ (market = "returning" /\ market' = "l1" /\ batch' = [batch EXCEPT !.l1 = batch.er])
  PROVE  Calm
  <1>1. batch.er.log = batch'.er.log /\ batch.l1.log \subseteq batch'.l1.log
    BY MarketMoves
  <1>2. QED
    BY <1>1 DEF Calm, SameOrders, StillDelegated

LEMMA SettledStays ==
  ASSUME vault \in Vault
  PROVE  /\ \A b : [vault EXCEPT !.fee = b].settled = vault.settled
         /\ \A n : Deposited(n).settled = vault.settled
         /\ \A u : WalletCreated(u).settled = vault.settled
         /\ \A a, oa, b, ob : NotesLocked(a, oa, b, ob).settled = vault.settled
         /\ \A l : [vault EXCEPT !.locks = @ \ {l}].settled = vault.settled
  BY DEF Vault, Deposited, WalletCreated, NotesLocked

LEMMA TradeCalm ==
  ASSUME TypeInv, NEW r \in Req, TradeStep(r), UNCHANGED file
  PROVE  Calm \/ Orderly(r)
  <1>0. Requests /\ ChainTypes /\ vault \in Vault /\ SlotTypes
    BY DEF TypeInv, ChainTypes, SlotTypes
  <1>1. CASE ReadMarket(r) \/ ScanSlot(r) \/ EnsureSlot(r) \/ ReadPreBatch(r) \/ WaitL1(r) \/ FindMatch(r) \/ Refused(r)
    <2>1. UNCHANGED chain
      BY <1>1 DEF ReadMarket, ScanSlot, EnsureSlot, ReadPreBatch, WaitL1, FindMatch, Refused, Fails
    <2>2. QED
      BY <2>1, CalmChain DEF chain
  <1>2. CASE DelegateMarket(r) \/ Undelegate(r)
    BY <1>0, <1>2, CalmMarket DEF DelegateMarket, Undelegate
  <1>3. CASE EnsureZeroProtocolFee(r) \/ MakerDeposit(r) \/ LockNotes(r)
    <2>1. /\ UNCHANGED <<slot, batch>>
          /\ \/ vault' = [vault EXCEPT !.fee = FALSE] \/ vault' = Deposited(OwnId(r))
             \/ vault' = NotesLocked(req[r].ctx.note, req[r].ctx.order, req[r].seller, OwnId(r))
      BY <1>3 DEF EnsureZeroProtocolFee, MakerDeposit, LockNotes
    <2>2. vault'.settled = vault.settled
      BY <1>0, <2>1 DEF Vault, Deposited, NotesLocked
    <2>3. QED
      BY <2>1, <2>2, CalmChain
  <1>4. CASE InitSlot(r) \/ DelegateSlot(r)
    <2>1. /\ Trade(r) /\ req[r].slot \in SlotIdx /\ UNCHANGED <<batch, vault>>
          /\ \/ slot' = SlotInitialized(SlotKey(r), req[r].slot) /\ slot[SlotKey(r)][req[r].slot].l1 # "delegated"
             \/ slot' = SlotDelegated(SlotKey(r), req[r].slot)
      BY <1>4 DEF InitSlot, DelegateSlot, CanInitSlot, CanDelegateSlot
    <2>2. SlotKey(r) \in Key
      BY <1>0, <2>1, RequestTyped, NameFact DEF Trade, Stage, TradeKinds, SlotKey
    <2>3. SameOrders /\ StillDelegated
      BY <1>0, <2>1, <2>2, SlotMoves
    <2>4. QED
      BY <2>1, <2>3, CalmSlots
  <1>5. QED
    BY <1>1, <1>2, <1>3, <1>4 DEF TradeStep, Orderly

LEMMA LiveCalm ==
  ASSUME TypeInv, NEW r \in Req, LiveStep(r)
  PROVE  Calm \/ (Orderly(r) /\ UNCHANGED file)
  <1>0. Requests /\ ChainTypes /\ vault \in Vault /\ SlotTypes
    BY DEF TypeInv, ChainTypes, SlotTypes
  <1>1. CASE ReadState(r) \/ LiveChoose(r) \/ LiveEnsureSlot(r) \/ LiveReadMarket(r) \/ RereadState(r)
                \/ LiveReadPre(r) \/ LiveWaitL1(r) \/ LiveRefused(r)
    <2>1. UNCHANGED <<chain, file>>
      BY <1>1 DEF ReadState, LiveChoose, LiveEnsureSlot, LiveReadMarket, RereadState, LiveReadPre,
                  LiveWaitL1, LiveRefused, Fails
    <2>2. QED
      BY <2>1, CalmChain DEF chain
  <1>2. CASE WriteState(r) \/ StateWritten(r)
    <2>1. UNCHANGED chain /\ (file' # None => Live(r) /\ file' = req[r].ctx)
      BY <1>0, <1>2, LiveStages DEF WriteState, StateWritten, NoState
    <2>2. QED
      BY <2>1 DEF Calm, chain, SameOrders, StillDelegated
  <1>3. CASE LiveDeposit(r)
    <2>1. UNCHANGED <<slot, batch, file>> /\ vault' = Deposited(<<req[r].who, r>>)
      BY <1>3 DEF LiveDeposit
    <2>2. vault'.settled = vault.settled
      BY <1>0, <2>1, SettledStays
    <2>3. QED
      BY <2>1, <2>2, CalmChain
  <1>4. CASE LiveInitSlot(r) \/ LiveDelegateSlot(r)
    <2>1. /\ Live(r) /\ req[r].slot \in SlotIdx /\ UNCHANGED <<batch, vault, file>>
          /\ \/ slot' = SlotInitialized(req[r].who, req[r].slot) /\ slot[req[r].who][req[r].slot].l1 # "delegated"
             \/ slot' = SlotDelegated(req[r].who, req[r].slot)
      BY <1>4 DEF LiveInitSlot, LiveDelegateSlot, CanInitSlot, CanDelegateSlot
    <2>2. req[r].who \in Key
      BY <1>0, <2>1, LiveStages, NameFact
    <2>3. SameOrders /\ StillDelegated
      BY <1>0, <2>1, <2>2, SlotMoves
    <2>4. QED
      BY <2>1, <2>3, CalmSlots
  <1>5. CASE LiveDelegateMarket(r) \/ LiveUndelegate(r)
    BY <1>0, <1>5, CalmMarket DEF LiveDelegateMarket, LiveUndelegate
  <1>6. CASE LiveSubmit(r) \/ LiveRunBatch(r)
    <2>1. UNCHANGED file
      BY <1>6 DEF LiveSubmit, LiveRunBatch
    <2>2. QED
      BY <1>6, <2>1 DEF Orderly
  <1>7. QED
    BY <1>1, <1>2, <1>3, <1>4, <1>5, <1>6 DEF LiveStep

\* Every step, seen from the chain.
LEMMA ChainEvolves ==
  ASSUME TypeInv, [Next]_vars
  PROVE  \/ Calm /\ UNCHANGED <<panel, flight>>
         \/ \E r \in Req : Orderly(r) /\ UNCHANGED <<panel, flight, file>>
         \/ \E f \in flight : OrderExecutes(f) /\ UNCHANGED file
         \/ Calm /\ \E u \in Trader : PanelStep(u) /\ UNCHANGED file
  <1>0. ChainTypes /\ vault \in Vault
    BY DEF TypeInv, ChainTypes
  <1>1. CASE TradeNext /\ UNCHANGED <<file, reader>>
    <2>1. CASE \E u \in Trader : PanelStep(u)
      <3>1. PICK u \in Trader : PanelStep(u)
        BY <2>1
      <3>2. CASE RunRegister(u) \/ RunDeposit(u)
        <4>1. UNCHANGED <<slot, batch>> /\ vault' \in {vault, WalletCreated(u), Deposited(PreparedNote(u))}
          BY <3>2 DEF RunRegister, RunDeposit
        <4>2. vault'.settled = vault.settled
          BY <1>0, <4>1, SettledStays
        <4>3. QED
          BY <1>1, <3>1, <4>1, <4>2, CalmChain
      <3>3. CASE ~(RunRegister(u) \/ RunDeposit(u))
        <4>1. UNCHANGED chain
          BY <3>1, <3>3 DEF PanelStep, RunInitSlot, RunCounterMatch, Call, RunSubmitOrderEr, SubmitConfirmed,
                            SubmitLost, PanelAnswered, ConnectionLost, Reload
        <4>2. QED
          BY <1>1, <3>1, <4>1, CalmChain DEF chain
      <3>4. QED
        BY <3>2, <3>3
    <2>2. CASE \E r \in Req : TradeStep(r) /\ UNCHANGED <<panel, flight>>
      BY <1>1, <2>2, TradeCalm
    <2>3. CASE \E f \in flight : OrderExecutes(f)
      BY <1>1, <2>3
    <2>4. QED
      BY <1>1, <2>1, <2>2, <2>3 DEF TradeNext
  <1>2. CASE LiveNext /\ UNCHANGED <<panel, flight, reader>>
    <2>1. CASE \E kind \in LiveKinds : LiveClick(kind)
      <3>1. UNCHANGED <<chain, file>>
        BY <2>1 DEF LiveClick
      <3>2. QED
        BY <1>2, <3>1, CalmChain DEF chain
    <2>2. CASE \E r \in Req : LiveStep(r)
      BY <1>2, <2>2, LiveCalm
    <2>3. QED
      BY <1>2, <2>1, <2>2 DEF LiveNext, LiveKinds
  <1>3. CASE ChainNext /\ UNCHANGED <<panel, flight, file, reader>>
    <2>1. CASE CommitLands
      BY <1>0, <1>3, <2>1, CalmMarket DEF CommitLands
    <2>2. CASE FeeSet \/ LockReleased
      <3>1. /\ UNCHANGED <<slot, batch>>
            /\ \/ vault' = [vault EXCEPT !.fee = TRUE]
               \/ \E l : vault' = [vault EXCEPT !.locks = @ \ {l}]
        BY <2>2 DEF FeeSet, LockReleased
      <3>2. vault'.settled = vault.settled
        BY <1>0, <3>1 DEF Vault
      <3>3. QED
        BY <1>3, <3>1, <3>2, CalmChain
    <2>3. CASE OrderExpires \/ \E r \in Req : RequestDies(r)
      <3>1. UNCHANGED <<slot, batch, vault>>
        BY <2>3 DEF OrderExpires, RequestDies, Fails, chain
      <3>2. QED
        BY <1>3, <3>1, CalmChain
    <2>4. QED
      BY <1>3, <2>1, <2>2, <2>3 DEF ChainNext
  <1>4. CASE ReadConsumed \/ ReadLock \/ UNCHANGED vars
    <2>1. UNCHANGED <<slot, batch, vault, panel, flight, file>>
      BY <1>4 DEF ReadConsumed, ReadLock, vars, chain
    <2>2. QED
      BY <2>1, CalmChain
  <1>5. QED
    BY <1>1, <1>2, <1>3, <1>4 DEF Next

\* The orders that requests send.
LEMMA MakerSubmitFact ==
  ASSUME TypeInv, NEW r \in Req, MakerSubmit(r)
  PROVE  /\ req[r].kind = "match" /\ req[r].pc = "submit" /\ req'[r].pc = "pre" /\ req[r].slot \in SlotIdx
         /\ slot[Maker][req[r].slot].status # "Pending"
         /\ UNCHANGED <<batch, vault>> /\ StillDelegated
         /\ \A q \in Req : q # r => req'[q] = req[q]
         /\ slot'[Maker][req[r].slot].status = "Pending"
         /\ slot'[Maker][req[r].slot].order = <<Maker, r>> /\ slot'[Maker][req[r].slot].note = <<Maker, r>>
         /\ \A h \in Key, j \in SlotIdx : h # Maker \/ j # req[r].slot => slot'[h][j] = slot[h][j]
  <1>0. Requests /\ ChainTypes /\ SlotTypes /\ <<Maker, r>> \in Id /\ Maker \in Key
    BY NameFact DEF TypeInv, ChainTypes, SlotTypes
  <1>1. /\ Trade(r) /\ req[r].pc = "submit" /\ req[r].slot \in SlotIdx /\ Goto(r, "pre")
        /\ slot[Maker][req[r].slot].status # "Pending"
        /\ slot' = OrderSubmitted(Maker, req[r].slot, <<Maker, r>>, <<Maker, r>>) /\ UNCHANGED <<batch, vault>>
    BY DEF MakerSubmit, CanSubmit, At, OwnId
  <1>2. req[r].kind = "match"
    BY <1>0, <1>1, RequestTyped DEF Trade, Stage, Ends
  <1>3. /\ StillDelegated /\ slot'[Maker][req[r].slot].status = "Pending"
        /\ slot'[Maker][req[r].slot].order = <<Maker, r>> /\ slot'[Maker][req[r].slot].note = <<Maker, r>>
        /\ \A h \in Key, j \in SlotIdx : h # Maker \/ j # req[r].slot => slot'[h][j] = slot[h][j]
    BY <1>0, <1>1, SubmitFills
  <1>4. req'[r].pc = "pre" /\ \A q \in Req : q # r => req'[q] = req[q]
    BY <1>0, <1>1, GotoFact
  <1>5. QED
    BY <1>1, <1>2, <1>3, <1>4

LEMMA LiveSubmitFact ==
  ASSUME TypeInv, NEW r \in Req, LiveSubmit(r)
  PROVE  LET a == req[r].ctx[req[r].kind]
             k == RoleKey(req[r].kind)
         IN /\ req[r].kind \in {"taker", "maker"} /\ req[r].pc = "send" /\ req'[r].pc = "reread"
            /\ req[r].ctx \in LiveState
            /\ k \in Key /\ k \notin Trader /\ a.slot \in SlotIdx /\ a.boot \in Req
            /\ slot[k][a.slot].status # "Pending"
            /\ UNCHANGED <<batch, vault>> /\ StillDelegated
            /\ \A q \in Req : q # r => req'[q] = req[q]
            /\ slot'[k][a.slot].status = "Pending"
            /\ slot'[k][a.slot].order = <<k, r>> /\ slot'[k][a.slot].note = <<k, a.boot>>
            /\ \A h \in Key, j \in SlotIdx : h # k \/ j # a.slot => slot'[h][j] = slot[h][j]
  <1> DEFINE a == req[r].ctx[req[r].kind]
             k == RoleKey(req[r].kind)
  <1>0. Requests /\ ChainTypes /\ SlotTypes
    BY DEF TypeInv, ChainTypes, SlotTypes
  <1>1. /\ req[r].pc = "send" /\ a.slot \in SlotIdx /\ Goto(r, "reread")
        /\ slot[k][a.slot].status # "Pending"
        /\ slot' = OrderSubmitted(k, a.slot, <<k, r>>, <<k, a.boot>>) /\ UNCHANGED <<batch, vault>>
    BY DEF LiveSubmit, CanSubmit, At
  <1>2. req[r].kind \in {"taker", "maker"} /\ req[r].ctx \in LiveState
    BY <1>0, <1>1, LiveStages DEF At
  <1>3. /\ k \in Key /\ k \notin Trader /\ a.boot \in Req /\ <<k, r>> \in Id /\ <<k, a.boot>> \in Id
    BY <1>2, LiveStateFact, NameFact, DemoAssumption DEF RoleKey
  <1> HIDE DEF a, k
  <1>4. /\ StillDelegated /\ slot'[k][a.slot].status = "Pending"
        /\ slot'[k][a.slot].order = <<k, r>> /\ slot'[k][a.slot].note = <<k, a.boot>>
        /\ \A h \in Key, j \in SlotIdx : h # k \/ j # a.slot => slot'[h][j] = slot[h][j]
    <2>1. /\ \A n \in Id :
               slot' = OrderSubmitted(k, a.slot, <<k, r>>, n) =>
                  /\ StillDelegated /\ slot'[k][a.slot].status = "Pending"
                  /\ slot'[k][a.slot].order = <<k, r>> /\ slot'[k][a.slot].note = n
                  /\ \A h \in Key, j \in SlotIdx : h # k \/ j # a.slot => slot'[h][j] = slot[h][j]
      BY <1>0, <1>1, <1>3, SubmitFills
    <2>2. QED
      BY <1>1, <1>3, <2>1
  <1>5. req'[r].pc = "reread" /\ \A q \in Req : q # r => req'[q] = req[q]
    BY <1>0, <1>1, GotoFact
  <1>6. QED
    BY <1>1, <1>2, <1>3, <1>4, <1>5 DEF a, k

\* run_batch, by a match request of a trader or by the live flow.
Buys(r, u, i) ==
    \/ u = Taker
    \/ /\ u = req[r].who /\ i = req[r].ctx.slot /\ u \in Trader
       /\ req[r].kind = "match" /\ req'[r].pc = "undelegate"
LEMMA RunsFact ==
  ASSUME TypeInv, NEW r \in Req, RunBatch(r) \/ LiveRunBatch(r)
  PROVE  /\ vault' = vault /\ batch'.l1 = batch.l1 /\ StillDelegated
         /\ \E u \in Trader \cup {Taker}, i, j \in SlotIdx :
               /\ Buys(r, u, i) /\ u \in Key
               /\ \A k \in Key, n \in SlotIdx :
                     \/ slot'[k][n] = slot[k][n]
                     \/ k \in {u, Maker} /\ Marked(k, n)
                     \/ /\ Wiped(k, n) /\ Crossed(u, i, Maker, j)
                        /\ <<k, n>> \in {<<u, i>>, <<Maker, j>>}
               /\ Crossed(u, i, Maker, j) => batch'.er.log = batch.er.log \cup {MatchOf(u, i, Maker, j)}
               /\ ~Crossed(u, i, Maker, j) => batch'.er.log = batch.er.log
  <1>0. Requests /\ ChainTypes
    BY DEF TypeInv
  <1>1. vault' = vault
    BY DEF RunBatch, LiveRunBatch
  <1>2. \E u \in Trader \cup {Taker} : \E i, j : u \in Key /\ Buys(r, u, i) /\ RunBatchTx(u, i, Maker, j)
    <2>1. CASE RunBatch(r)
      <3>1. req[r].kind = "match" /\ req[r].who \in Trader
        BY <1>0, <2>1, RequestTyped DEF RunBatch, At, Trade, Stage, Ends, TradeKinds
      <3>2. req'[r].pc = "undelegate"
        BY <1>0, <2>1, GotoFact DEF RunBatch
      <3>3. RunBatchTx(req[r].who, req[r].ctx.slot, Maker, req[r].slot)
        BY <2>1 DEF RunBatch
      <3>4. QED
        BY <3>1, <3>2, <3>3, NameFact DEF Buys
    <2>2. CASE LiveRunBatch(r)
      <3>1. RunBatchTx(Taker, req[r].ctx.taker.slot, Maker, req[r].ctx.maker.slot)
        BY <2>2 DEF LiveRunBatch
      <3>2. QED
        BY <3>1, NameFact DEF Buys
    <2>3. QED
      BY <2>1, <2>2
  <1>3. PICK u \in Trader \cup {Taker} : \E i, j : u \in Key /\ Buys(r, u, i) /\ RunBatchTx(u, i, Maker, j)
    BY <1>2
  <1>4. PICK i, j : u \in Key /\ Buys(r, u, i) /\ RunBatchTx(u, i, Maker, j)
    BY <1>3
  <1>5. /\ i \in SlotIdx /\ j \in SlotIdx /\ StillDelegated /\ batch'.l1 = batch.l1
        /\ \A k \in Key, n \in SlotIdx :
               \/ slot'[k][n] = slot[k][n]
               \/ <<k, n>> \in {<<u, i>>, <<Maker, j>>} /\ Marked(k, n)
               \/ <<k, n>> \in {<<u, i>>, <<Maker, j>>} /\ Wiped(k, n) /\ Crossed(u, i, Maker, j)
        /\ Crossed(u, i, Maker, j) => batch'.er.log = batch.er.log \cup {MatchOf(u, i, Maker, j)}
        /\ ~Crossed(u, i, Maker, j) => batch'.er.log = batch.er.log
    BY <1>0, <1>4, RunBatchFact, NameFact
  <1>6. \A k, n : <<k, n>> \in {<<u, i>>, <<Maker, j>>} => k \in {u, Maker}
    OBVIOUS
  <1>7. QED
    BY <1>1, <1>4, <1>5, <1>6

\* tee_forced_settle.
LEMMA SettleFact ==
  ASSUME TypeInv, NEW r \in Req, Settle(r)
  PROVE  LET s == [buyer |-> req[r].ctx.note, buyOrder |-> req[r].ctx.order,
                   seller |-> req[r].seller, sellOrder |-> <<Maker, r>>]
         IN /\ req[r].pc = "settle" /\ req[r].kind = "match" /\ req'[r].pc = "done"
            /\ \A q \in Req : q # r => req'[q] = req[q]
            /\ UNCHANGED <<slot, batch>> /\ vault'.settled = vault.settled \cup {s}
            /\ s.buyer = req[r].ctx.note /\ s.seller = req[r].seller /\ s.sellOrder = <<Maker, r>>
            /\ \A t \in vault.settled : {s.buyer, s.seller} \cap {t.buyer, t.seller} = {}
  <1> DEFINE s == [buyer |-> req[r].ctx.note, buyOrder |-> req[r].ctx.order,
                   seller |-> req[r].seller, sellOrder |-> <<Maker, r>>]
  <1>0. Requests /\ vault \in Vault
    BY DEF TypeInv, ChainTypes
  <1>1. /\ req[r].pc = "settle" /\ Goto(r, "done") /\ UNCHANGED <<slot, batch>>
        /\ vault' = NotesSettled(req[r].ctx.note, req[r].ctx.order, req[r].seller, <<Maker, r>>)
        /\ ~Consumed(req[r].ctx.note) /\ ~Consumed(req[r].seller)
    BY DEF Settle, CanSettle, At, OwnId
  <1>2. req[r].kind = "match"
    BY <1>0, <1>1, RequestTyped DEF Stage, Request, Ends, TradeKinds, LiveKinds
  <1>3. vault'.settled = vault.settled \cup {s}
    BY <1>0, <1>1 DEF NotesSettled, Vault
  <1>4. \A t \in vault.settled : {req[r].ctx.note, req[r].seller} \cap {t.buyer, t.seller} = {}
    BY <1>1 DEF Consumed
  <1>5. req'[r].pc = "done" /\ \A q \in Req : q # r => req'[q] = req[q]
    BY <1>0, <1>1, GotoFact
  <1>6. s.buyer = req[r].ctx.note /\ s.seller = req[r].seller /\ s.sellOrder = <<Maker, r>>
    OBVIOUS
  <1> HIDE DEF s
  <1>7. QED
    BY <1>1, <1>2, <1>3, <1>4, <1>5, <1>6 DEF s

-----------------------------------------------------------------------------
(***************************************************************************)
(* The second layer is inductive.                                          *)
(***************************************************************************)

\* A request never changes its kind.
LEMMA KindsStay ==
  ASSUME TypeInv, [Next]_vars
  PROVE  \A q \in Req : req[q].kind # "none" => req'[q].kind = req[q].kind
  <1>1. \A q \in Req : Evolves(q) /\ Stage(req[q])
    BY RequestsEvolve DEF TypeInv, Requests
  <1>2. QED
    BY <1>1 DEF Evolves, Goes, Stage

\* The names of the maker's notes and orders, from one state to the next.
LEMMA NamesStay ==
  ASSUME TypeInv, [Next]_vars, NEW n, NEW o, Named(n, o)
  PROVE  n # None => /\ n \in {Maker} \X Req /\ req'[n[2]].kind \in {"match", "bootstrap"}
                     /\ req'[n[2]].kind = "match" => o = n
  <1>1. SUFFICES ASSUME n # None
                 PROVE  /\ n \in {Maker} \X Req /\ req'[n[2]].kind \in {"match", "bootstrap"}
                        /\ req'[n[2]].kind = "match" => o = n
    OBVIOUS
  <1>2. /\ n \in {Maker} \X Req /\ n[2] \in Req /\ req[n[2]].kind \in {"match", "bootstrap"}
        /\ req[n[2]].kind = "match" => o = n
    BY <1>1 DEF Named
  <1>3. QED
    BY <1>2, KindsStay

\* The maker's slots.
LEMMA SlotNames ==
  ASSUME TypeInv, MatchInv, [Next]_vars, NEW i \in SlotIdx
  PROVE  LET n == slot'[Maker][i].note
             o == slot'[Maker][i].order
         IN n # None => /\ n \in {Maker} \X Req /\ req'[n[2]].kind \in {"match", "bootstrap"}
                        /\ req'[n[2]].kind = "match" => o = n
  <1>0. Named(slot[Maker][i].note, slot[Maker][i].order) /\ Maker \in Key /\ Maker \notin Trader /\ Maker # Taker
    BY NameFact, DemoAssumption DEF MatchInv
  <1>1. CASE slot'[Maker][i].note = slot[Maker][i].note /\ slot'[Maker][i].order = slot[Maker][i].order
    BY <1>0, <1>1, NamesStay
  <1>2. CASE slot'[Maker][i].note = None
    BY <1>2
  <1>3. CASE Calm
    BY <1>0, <1>1, <1>3 DEF Calm, SameOrders
  <1>4. CASE \E f \in flight : OrderExecutes(f)
    <2>1. PICK f \in flight : OrderExecutes(f)
      BY <1>4
    <2>2. slot'[Maker][i] = slot[Maker][i]
      BY <1>0, <2>1, ExecuteFact DEF TypeInv
    <2>3. QED
      BY <1>1, <2>2
  <1>5. CASE \E r \in Req : Orderly(r)
    <2>1. PICK r \in Req : Orderly(r)
      BY <1>5
    <2>2. CASE MakerSubmit(r)
      <3>1. /\ req[r].kind = "match" /\ req[r].slot \in SlotIdx
            /\ slot'[Maker][req[r].slot].order = <<Maker, r>> /\ slot'[Maker][req[r].slot].note = <<Maker, r>>
            /\ \A h \in Key, j \in SlotIdx : h # Maker \/ j # req[r].slot => slot'[h][j] = slot[h][j]
        BY <2>2, MakerSubmitFact
      <3>2. CASE i = req[r].slot
        <4>1. req'[r].kind = "match" /\ <<Maker, r>> \in {Maker} \X Req /\ <<Maker, r>>[2] = r
          BY <3>1, KindsStay
        <4>2. slot'[Maker][i].note = <<Maker, r>> /\ slot'[Maker][i].order = <<Maker, r>>
          BY <3>1, <3>2
        <4>3. QED
          BY ONLY <4>1, <4>2
      <3>3. CASE i # req[r].slot
        BY <1>0, <1>1, <3>1, <3>3
      <3>4. QED
        BY <3>2, <3>3
    <2>3. CASE LiveSubmit(r)
      <3> DEFINE a == req[r].ctx[req[r].kind]
                 k == RoleKey(req[r].kind)
      <3>1. /\ req[r].kind \in {"taker", "maker"} /\ req[r].ctx \in LiveState
            /\ k \in Key /\ a.slot \in SlotIdx /\ a.boot \in Req
            /\ slot'[k][a.slot].order = <<k, r>> /\ slot'[k][a.slot].note = <<k, a.boot>>
            /\ \A h \in Key, j \in SlotIdx : h # k \/ j # a.slot => slot'[h][j] = slot[h][j]
        BY <2>3, LiveSubmitFact
      <3>2. a.boot = req[r].ctx.maker.boot /\ req[r].ctx # None
        BY <3>1, LiveStateFact, NotNone
      <3>3. req'[a.boot].kind = "bootstrap"
        <4>1. req[a.boot].kind = "bootstrap"
          BY <3>1, <3>2 DEF MatchInv, Booted, LiveKinds
        <4>2. QED
          BY <3>1, <4>1, KindsStay
      <3> HIDE DEF a, k
      <3>4. CASE Maker = k /\ i = a.slot
        <4> DEFINE b == a.boot
        <4>1. b \in Req /\ req'[b].kind = "bootstrap" /\ slot'[Maker][i].note = <<Maker, b>>
          BY <3>1, <3>3, <3>4
        <4> HIDE DEF b
        <4>2. <<Maker, b>> \in {Maker} \X Req /\ <<Maker, b>>[2] = b
          BY <4>1
        <4>3. QED
          BY ONLY <4>1, <4>2
      <3>5. CASE ~(Maker = k /\ i = a.slot)
        BY <1>0, <1>1, <3>1, <3>5
      <3>6. QED
        BY <3>4, <3>5
    <2>4. CASE RunBatch(r) \/ LiveRunBatch(r)
      <3>1. slot'[Maker][i] = slot[Maker][i] \/ slot'[Maker][i].note = None
        BY <1>0, <2>4, RunsFact DEF Marked, Wiped
      <3>2. QED
        BY <1>1, <1>2, <3>1
    <2>5. CASE Settle(r)
      BY <1>1, <2>5, SettleFact
    <2>6. QED
      BY <2>1, <2>2, <2>3, <2>4, <2>5 DEF Orderly
  <1>6. QED
    BY <1>3, <1>4, <1>5, ChainEvolves

\* The logs only grow, and L1's is behind the rollup's.
LEMMA LogsGrow ==
  ASSUME TypeInv, [Next]_vars
  PROVE  /\ batch.er.log \subseteq batch'.er.log /\ batch.l1.log \subseteq batch'.l1.log
         /\ vault.settled \subseteq vault'.settled
         /\ batch'.er.log = batch.er.log \/ \E r \in Req : RunBatch(r) \/ LiveRunBatch(r)
         /\ vault'.settled = vault.settled \/ \E r \in Req : Settle(r)
  <1>1. CASE Calm
    BY <1>1 DEF Calm
  <1>2. CASE \E f \in flight : OrderExecutes(f)
    <2>1. UNCHANGED <<batch, vault>>
      BY <1>2 DEF OrderExecutes
    <2>2. QED
      BY <2>1
  <1>3. CASE \E r \in Req : MakerSubmit(r) \/ LiveSubmit(r)
    <2>1. UNCHANGED <<batch, vault>>
      BY <1>3 DEF MakerSubmit, LiveSubmit
    <2>2. QED
      BY <2>1
  <1>4. ASSUME NEW r \in Req, RunBatch(r) \/ LiveRunBatch(r)
        PROVE  /\ batch.er.log \subseteq batch'.er.log /\ batch.l1.log \subseteq batch'.l1.log
               /\ vault.settled \subseteq vault'.settled /\ vault'.settled = vault.settled
    BY <1>4, RunsFact
  <1>5. ASSUME NEW r \in Req, Settle(r)
        PROVE  /\ batch.er.log \subseteq batch'.er.log /\ batch.l1.log \subseteq batch'.l1.log
               /\ vault.settled \subseteq vault'.settled /\ batch'.er.log = batch.er.log
    BY <1>5, SettleFact
  <1>6. QED
    BY <1>1, <1>2, <1>3, <1>4, <1>5, ChainEvolves DEF Orderly

LEMMA LogNames ==
  ASSUME TypeInv, MatchInv, [Next]_vars, NEW m \in batch'.er.log
  PROVE  m.seller # None => /\ m.seller \in {Maker} \X Req /\ req'[m.seller[2]].kind \in {"match", "bootstrap"}
                            /\ req'[m.seller[2]].kind = "match" => m.sellOrder = m.seller
  <1>1. CASE m \in batch.er.log
    BY <1>1, NamesStay DEF MatchInv
  <1>2. CASE m \notin batch.er.log
    <2>1. PICK r \in Req : RunBatch(r) \/ LiveRunBatch(r)
      BY <1>2, LogsGrow
    <2>2. \E u \in Trader \cup {Taker}, i, j \in SlotIdx : m = MatchOf(u, i, Maker, j)
      BY <1>2, <2>1, RunsFact
    <2>3. PICK j \in SlotIdx : m.seller = slot[Maker][j].note /\ m.sellOrder = slot[Maker][j].order
      BY <2>2 DEF MatchOf
    <2>4. Named(m.seller, m.sellOrder)
      BY <2>3 DEF MatchInv
    <2>5. QED
      BY <2>4, NamesStay
  <1>3. QED
    BY <1>1, <1>2

\* What a live request carries, and the file.
LEMMA BootsStay ==
  ASSUME TypeInv, MatchInv, [Next]_vars
  PROVE  /\ \A q \in Req : req'[q].kind \in LiveKinds /\ req'[q].ctx # None
                              => req'[req'[q].ctx.maker.boot].kind = "bootstrap"
         /\ file' # None => req'[file'.maker.boot].kind = "bootstrap"
  <1>0. /\ \A q \in Req : Evolves(q) /\ Stage(req[q])
        /\ \A q \in Req : req[q].kind # "none" => req'[q].kind = req[q].kind
    BY RequestsEvolve, KindsStay DEF TypeInv, Requests
  <1>1. ASSUME NEW s \in LiveState, s # None, Booted(s)
        PROVE  s.maker.boot \in Req /\ req'[s.maker.boot].kind = "bootstrap"
    BY <1>0, <1>1, LiveStateFact DEF Booted
  <1>2. ASSUME NEW q \in Req, Live(q), req[q].ctx # None
        PROVE  req[q].ctx \in LiveState /\ Booted(req[q].ctx)
    BY <1>2, LiveStages DEF TypeInv, MatchInv, Live, LiveKinds
  <1>3. file # None => file \in LiveState /\ Booted(file)
    BY DEF TypeInv, File, MatchInv
  <1>4. ASSUME NEW q \in Req, req'[q].kind \in LiveKinds, req'[q].ctx # None
        PROVE  req'[req'[q].ctx.maker.boot].kind = "bootstrap"
    <2>1. CASE req[q].pc = "free"
      <3>1. req'[q].pc = "free"
        BY <1>0, <1>4, <2>1 DEF Evolves, Starts
      <3>2. Stage(req'[q])
        BY TypesStep DEF TypeInv, Requests, Stage
      <3>3. QED
        BY <1>4, <3>1, <3>2 DEF Stage, LiveKinds
    <2>2. CASE req[q].pc # "free"
      <3>1. Goes(q) /\ req'[q].kind = req[q].kind /\ Live(q)
        BY <1>0, <1>4, <2>2 DEF Evolves, Goes, Live, LiveKinds
      <3>2. SameBoot(q)
        BY <3>1 DEF Goes
      <3>3. CASE req[q].ctx # None /\ req'[q].ctx.maker.boot = req[q].ctx.maker.boot
        BY <1>1, <1>2, <3>1, <3>3
      <3>4. CASE file # None /\ req'[q].ctx.maker.boot = file.maker.boot
        BY <1>1, <1>3, <3>4
      <3>5. CASE req[q].kind = "bootstrap" /\ req'[q].ctx.maker.boot = q
        BY <3>1, <3>5
      <3>6. QED
        BY <1>4, <3>2, <3>3, <3>4, <3>5 DEF SameBoot
    <2>3. QED
      BY <2>1, <2>2
  <1>5. ASSUME file' # None  PROVE req'[file'.maker.boot].kind = "bootstrap"
    <2>1. file' = file \/ \E r \in Req : Live(r) /\ file' = req[r].ctx
      BY <1>5, ChainEvolves DEF Calm
    <2>2. QED
      BY <1>1, <1>2, <1>3, <1>5, <2>1
  <1>6. QED
    BY <1>4, <1>5

\* What match requests have found, and left.
LEMMA SearchStays ==
  ASSUME TypeInv, MatchInv, [Next]_vars, NEW q \in Req
  PROVE  Found(q)' /\ Succeeded(q)'
  <1>0. /\ Evolves(q) /\ Stage(req[q]) /\ Stage(req'[q]) /\ req'[q] \in Request
        /\ batch.l1.log \subseteq batch'.l1.log /\ vault.settled \subseteq vault'.settled
    BY RequestsEvolve, LogsGrow, TypesStep DEF TypeInv, Requests, Stage
  <1>1. req'[q].pc \in {"lock", "settle", "done"} => req[q].pc # "free"
    BY <1>0 DEF Evolves, Starts
  <1>2. req'[q].pc \in {"lock", "settle"} => req'[q].kind = "match"
    BY <1>0 DEF Stage, Request, Ends, TradeKinds, LiveKinds
  <1>3. ASSUME req'[q].kind = "match", req'[q].pc \in {"lock", "settle", "done"}
        PROVE  req[q].kind = "match" /\ SameSearch(q) /\ req'[q].ctx = req[q].ctx
    BY <1>0, <1>1, <1>3 DEF Evolves, Goes, Trade
  <1>4. ASSUME req'[q].pc \in {"lock", "settle"}
        PROVE  /\ req'[q].seller = OwnId(q)
               /\ \E m \in batch'.l1.log : m.buyer = req'[q].ctx.note /\ m.seller = OwnId(q) /\ ~m.fee
    <2>1. SameSearch(q) /\ req'[q].ctx = req[q].ctx
      BY <1>2, <1>3, <1>4
    <2>2. CASE FindMatch(q)
      BY <1>0, <2>1, <2>2, FindMatchFact DEF TypeInv
    <2>3. CASE req[q].pc \in {"lock", "settle"} /\ req'[q].seller = req[q].seller
      <3>1. Found(q) /\ (At(q, "lock") \/ At(q, "settle"))
        BY <2>3 DEF MatchInv, At
      <3>2. /\ req[q].seller = OwnId(q)
            /\ \E m \in batch.l1.log : m.buyer = req[q].ctx.note /\ m.seller = OwnId(q) /\ ~m.fee
        BY <3>1 DEF Found
      <3>3. QED
        BY <1>0, <2>1, <2>3, <3>2
    <2>4. QED
      BY <1>4, <2>1, <2>2, <2>3 DEF SameSearch
  <1>5. ASSUME req'[q].kind = "match", req'[q].pc = "done"
        PROVE  \E s \in vault'.settled : s.buyer = req'[q].ctx.note
    <2>1. req[q].kind = "match" /\ SameSearch(q) /\ req'[q].ctx = req[q].ctx
      BY <1>3, <1>5
    <2>2. CASE req[q].pc = "done"
      BY <1>0, <2>1, <2>2 DEF MatchInv, Succeeded, At
    <2>3. CASE Settle(q)
      <3>1. \E s : s \in vault'.settled /\ s.buyer = req[q].ctx.note
        BY <2>3, SettleFact
      <3>2. QED
        BY <2>1, <3>1
    <2>4. QED
      BY <1>5, <2>1, <2>2, <2>3 DEF SameSearch
  <1>6. QED
    BY <1>4, <1>5 DEF Found, Succeeded, At, OwnId

\* A settlement is of a match that the request has found.
LEMMA SettlesAsMatched ==
  ASSUME TypeInv, MatchInv, [Next]_vars
  PROVE  SettledAsMatched'
  <1>0. batch.l1.log \subseteq batch'.l1.log /\ SettledAsMatched /\ batch.l1.log \subseteq batch.er.log
    BY LogsGrow DEF MatchInv, TypeInv, ChainTypes
  <1>1. CASE vault'.settled = vault.settled
    BY <1>0, <1>1 DEF SettledAsMatched
  <1>2. CASE \E r \in Req : Settle(r)
    <2>1. PICK r \in Req : Settle(r)
      BY <1>2
    <2>2. PICK s : /\ req[r].pc = "settle" /\ req[r].kind = "match" /\ batch' = batch
                   /\ vault'.settled = vault.settled \cup {s}
                   /\ s.buyer = req[r].ctx.note /\ s.seller = req[r].seller /\ s.sellOrder = <<Maker, r>>
                   /\ \A t \in vault.settled : {s.buyer, s.seller} \cap {t.buyer, t.seller} = {}
      BY <2>1, SettleFact
    <2>3. /\ req[r].seller = <<Maker, r>>
          /\ \E m \in batch.l1.log : m.buyer = req[r].ctx.note /\ m.seller = <<Maker, r>> /\ ~m.fee
      BY <2>2 DEF MatchInv, Found, At, OwnId
    <2>4. PICK m \in batch.l1.log : m.buyer = s.buyer /\ m.seller = <<Maker, r>> /\ ~m.fee
      BY <2>2, <2>3
    <2>5. m.sellOrder = s.sellOrder
      <3>1. Named(m.seller, m.sellOrder)
        BY <1>0, <2>4 DEF MatchInv
      <3>2. m.seller # None /\ m.seller[2] = r
        BY <2>4 DEF None
      <3>3. QED
        BY <2>2, <2>4, <3>1, <3>2 DEF Named
    <2>6. ASSUME NEW t \in vault'.settled
          PROVE  \E n \in batch'.l1.log : /\ n.buyer = t.buyer /\ n.seller = t.seller
                                          /\ n.sellOrder = t.sellOrder /\ ~n.fee
      <3>1. CASE t \in vault.settled
        BY <1>0, <3>1 DEF SettledAsMatched
      <3>2. CASE t = s
        BY <2>2, <2>3, <2>4, <2>5, <3>2
      <3>3. QED
        BY <2>2, <3>1, <3>2
    <2>7. ASSUME NEW t \in vault'.settled, NEW v \in vault'.settled,
                 {t.buyer, t.seller} \cap {v.buyer, v.seller} # {}
          PROVE  t = v
      <3>1. CASE t \in vault.settled /\ v \in vault.settled
        BY <1>0, <2>7, <3>1 DEF SettledAsMatched
      <3>2. CASE t = s \/ v = s
        BY <2>2, <2>7, <3>2
      <3>3. QED
        BY <2>2, <3>1, <3>2
    <2>8. QED
      BY <2>6, <2>7 DEF SettledAsMatched
  <1>3. QED
    BY <1>1, <1>2, LogsGrow

LEMMA MatchStep == TypeInv /\ MatchInv /\ [Next]_vars => MatchInv'
  <1> SUFFICES ASSUME TypeInv, MatchInv, [Next]_vars  PROVE MatchInv'
    OBVIOUS
  <1>1. \A i \in SlotIdx : Named(slot[Maker][i].note, slot[Maker][i].order)'
    BY SlotNames DEF Named
  <1>2. \A m \in batch'.er.log : Named(m.seller, m.sellOrder)'
    BY LogNames DEF Named
  <1>3. \A q \in Req : req'[q].kind \in LiveKinds => Booted(req[q].ctx)'
    BY BootsStay DEF Booted
  <1>4. Booted(file)'
    BY BootsStay DEF Booted
  <1>5. \A q \in Req : Found(q)' /\ Succeeded(q)'
    BY SearchStays
  <1>6. SettledAsMatched'
    BY SettlesAsMatched
  <1>7. QED
    BY <1>1, <1>2, <1>3, <1>4, <1>5, <1>6 DEF MatchInv

LEMMA MatchInit == Init => MatchInv
  <1> SUFFICES ASSUME Init  PROVE MatchInv
    OBVIOUS
  <1>1. \A i \in SlotIdx : slot[Maker][i].note = None
    BY NameFact DEF Init, ChainInit, EmptySlot
  <1>2. batch.er.log = {} /\ batch.l1.log = {} /\ vault.settled = {}
    BY DEF Init, ChainInit, NoResults
  <1>3. \A r \in Req : req[r].kind = "none" /\ req[r].pc = "free"
    BY DEF Init, ChainInit, Free
  <1>4. file = None
    BY DEF Init, LiveInit, NoState
  <1>5. QED
    BY <1>1, <1>2, <1>3, <1>4
       DEF MatchInv, Named, Booted, Found, Succeeded, SettledAsMatched, LiveKinds, At

LEMMA MatchCorrect == Spec => []MatchInv
  BY TypesCorrect, MatchInit, MatchStep, PTL DEF Spec

(***************************************************************************)
(* runTradeL1Settle settles nothing but what run_batch matched, and no     *)
(* note twice, however the requests of any number of traders and of the    *)
(* live flow interleave, fail or are repeated on the shared market.        *)
(***************************************************************************)
THEOREM SettledAsMatchedCorrect == Spec => []SettledAsMatched
  <1>1. MatchInv => SettledAsMatched
    BY DEF MatchInv
  <1>2. QED
    BY <1>1, MatchCorrect, PTL

-----------------------------------------------------------------------------
(***************************************************************************)
(* The third layer is inductive.                                           *)
(***************************************************************************)

\* A slot keeps its order or loses it; only a pending one stays pending.
OldOrder(i) ==
    \/ Order(i)' = Order(i) /\ (slot'[Maker][i].status = "Pending" => slot[Maker][i].status = "Pending")
    \/ Order(i)' = None /\ slot'[Maker][i].status # "Pending"
\* At most one slot gets a new order, of a request that has sent none before.
NewOrder(i, r) ==
    /\ req[r].pc \notin Sent /\ req'[r].pc \in Sent /\ Order(i)' = <<Maker, r>>
    /\ \A j \in SlotIdx : j # i => OldOrder(j)

LEMMA OrdersMove ==
  ASSUME TypeInv, [Next]_vars
  PROVE  (\A i \in SlotIdx : OldOrder(i)) \/ (\E i \in SlotIdx, r \in Req : NewOrder(i, r))
  <1>0. Maker \in Key /\ Maker \notin Trader /\ Maker # Taker
    BY NameFact, DemoAssumption
  <1>a. ASSUME NEW i \in SlotIdx, slot'[Maker][i] = slot[Maker][i]  PROVE OldOrder(i)
    BY <1>a DEF OldOrder, Order
  <1>1. CASE Calm
    BY <1>0, <1>1 DEF Calm, SameOrders, OldOrder, Order
  <1>2. CASE \E f \in flight : OrderExecutes(f)
    <2>1. PICK f \in flight : OrderExecutes(f)
      BY <1>2
    <2>2. \A i \in SlotIdx : slot'[Maker][i] = slot[Maker][i]
      BY <1>0, <2>1, ExecuteFact DEF TypeInv
    <2>3. QED
      BY <1>a, <2>2
  <1>3. CASE \E r \in Req : Orderly(r)
    <2>1. PICK r \in Req : Orderly(r)
      BY <1>3
    <2>2. CASE MakerSubmit(r)
      <3>1. req[r].pc \notin Sent /\ req'[r].pc \in Sent
        BY <2>2, MakerSubmitFact DEF Sent
      <3>2. PICK i \in SlotIdx : /\ slot'[Maker][i].order = <<Maker, r>>
                                 /\ \A j \in SlotIdx : j # i => slot'[Maker][j] = slot[Maker][j]
        BY <1>0, <2>2, MakerSubmitFact
      <3>3. NewOrder(i, r)
        BY <1>a, <3>1, <3>2 DEF NewOrder, Order
      <3>4. QED
        BY <3>3
    <2>3. CASE LiveSubmit(r)
      <3> DEFINE a == req[r].ctx[req[r].kind]
                 k == RoleKey(req[r].kind)
      <3>1. /\ k \in {Maker, Taker} /\ a.slot \in SlotIdx /\ req[r].pc \notin Sent /\ req'[r].pc \in Sent
            /\ slot'[k][a.slot].order = <<k, r>>
            /\ \A h \in Key, j \in SlotIdx : h # k \/ j # a.slot => slot'[h][j] = slot[h][j]
        BY <2>3, LiveSubmitFact DEF Sent, RoleKey
      <3> HIDE DEF a, k
      <3>2. CASE k = Taker
        BY <1>0, <1>a, <3>1, <3>2
      <3>3. CASE k = Maker
        <4>1. PICK i \in SlotIdx : /\ slot'[Maker][i].order = <<Maker, r>>
                                   /\ \A j \in SlotIdx : j # i => slot'[Maker][j] = slot[Maker][j]
          BY <1>0, <3>1, <3>3
        <4>2. NewOrder(i, r)
          BY <1>a, <3>1, <4>1 DEF NewOrder, Order
        <4>3. QED
          BY <4>2
      <3>4. QED
        BY <3>1, <3>2, <3>3
    <2>4. CASE RunBatch(r) \/ LiveRunBatch(r)
      <3>1. ASSUME NEW i \in SlotIdx  PROVE OldOrder(i)
        <4>1. slot'[Maker][i] = slot[Maker][i] \/ Marked(Maker, i) \/ Wiped(Maker, i)
          BY <1>0, <2>4, RunsFact
        <4>2. QED
          BY <4>1 DEF OldOrder, Order, Marked, Wiped
      <3>2. QED
        BY <3>1
    <2>5. CASE Settle(r)
      BY <1>a, <2>5, SettleFact
    <2>6. QED
      BY <2>1, <2>2, <2>3, <2>4, <2>5 DEF Orderly
  <1>4. QED
    BY <1>1, <1>2, <1>3, ChainEvolves

\* An order that was sent is no new one.
LEMMA SentStays ==
  ASSUME TypeInv, [Next]_vars, NEW o, MakerOrder(o)
  PROVE  /\ o # None /\ o \in {Maker} \X Req /\ req'[o[2]].pc \in Sent
         /\ \A i \in SlotIdx : Order(i)' = o => Order(i) = o
  <1>1. o \in {Maker} \X Req /\ o[2] \in Req /\ req[o[2]].pc \in Sent /\ o # None
    BY DEF MakerOrder, None
  <1>2. req'[o[2]].pc \in Sent
    <2>1. Evolves(o[2])
      BY <1>1, RequestsEvolve
    <2>2. req[o[2]].pc # "free"
      BY <1>1 DEF Sent
    <2>3. QED
      BY <1>1, <2>1, <2>2 DEF Evolves, Goes
  <1>3. ASSUME NEW i \in SlotIdx, Order(i)' = o  PROVE Order(i) = o
    <2>1. CASE OldOrder(i)
      BY <1>1, <1>3, <2>1 DEF OldOrder
    <2>2. CASE \E r \in Req : NewOrder(i, r)
      BY <1>1, <1>3, <2>2 DEF NewOrder
    <2>3. QED
      BY <2>1, <2>2, OrdersMove DEF NewOrder
  <1>4. QED
    BY <1>1, <1>2, <1>3

\* The maker's orders.
LEMMA OrdersStay ==
  ASSUME TypeInv, RaceInv, [Next]_vars
  PROVE  /\ \A i \in SlotIdx : /\ Order(i)' # None =>
                                    Order(i)' \in {Maker} \X Req /\ req'[Order(i)'[2]].pc \in Sent
                               /\ slot'[Maker][i].status = "Pending" => Order(i)' # None
         /\ \A i, j \in SlotIdx : Order(i)' = Order(j)' /\ Order(i)' # None => i = j
  <1>1. ASSUME NEW i \in SlotIdx, OldOrder(i)
        PROVE  /\ Order(i)' # None => /\ Order(i)' = Order(i) /\ MakerOrder(Order(i))
                                      /\ Order(i)' \in {Maker} \X Req /\ req'[Order(i)'[2]].pc \in Sent
               /\ slot'[Maker][i].status = "Pending" => Order(i)' # None
    <2>1. /\ Order(i) # None => MakerOrder(Order(i))
          /\ slot[Maker][i].status = "Pending" => Order(i) # None
      BY DEF RaceInv
    <2>2. MakerOrder(Order(i)) => Order(i) \in {Maker} \X Req /\ req'[Order(i)[2]].pc \in Sent
      BY SentStays
    <2>3. QED
      BY <1>1, <2>1, <2>2 DEF OldOrder
  <1>2. ASSUME NEW i \in SlotIdx, NEW j \in SlotIdx, Order(i) = Order(j), Order(i) # None  PROVE i = j
    BY <1>2 DEF RaceInv
  <1>3. CASE \A i \in SlotIdx : OldOrder(i)
    BY <1>1, <1>2, <1>3
  <1>4. CASE \E i \in SlotIdx, r \in Req : NewOrder(i, r)
    <2>1. PICK k \in SlotIdx, r \in Req : NewOrder(k, r)
      BY <1>4
    <2>2. /\ req[r].pc \notin Sent /\ req'[r].pc \in Sent /\ Order(k)' = <<Maker, r>>
          /\ \A j \in SlotIdx : j # k => OldOrder(j)
      BY <2>1 DEF NewOrder
    <2>3. <<Maker, r>> \in {Maker} \X Req /\ <<Maker, r>>[2] = r /\ <<Maker, r>> # None
      BY DEF None
    <2>4. ~MakerOrder(<<Maker, r>>)
      BY <2>2, <2>3 DEF MakerOrder
    <2>5. ASSUME NEW i \in SlotIdx
          PROVE  /\ Order(i)' # None => Order(i)' \in {Maker} \X Req /\ req'[Order(i)'[2]].pc \in Sent
                 /\ slot'[Maker][i].status = "Pending" => Order(i)' # None
      BY <1>1, <2>2, <2>3
    <2>6. ASSUME NEW i \in SlotIdx, NEW j \in SlotIdx, Order(i)' = Order(j)', Order(i)' # None
          PROVE  i = j
      <3>1. CASE i = k /\ j # k
        BY <1>1, <2>2, <2>4, <2>6, <3>1
      <3>2. CASE i # k /\ j = k
        BY <1>1, <2>2, <2>4, <2>6, <3>2
      <3>3. CASE i # k /\ j # k
        BY <1>1, <1>2, <2>2, <2>6, <3>3
      <3>4. QED
        BY <3>1, <3>2, <3>3
    <2>7. QED
      BY <2>5, <2>6
  <1>5. QED
    BY <1>3, <1>4, OrdersMove

\* The orders that a match request has seen.
LEMMA SeenStays ==
  ASSUME TypeInv, RaceInv, [Next]_vars, NEW q \in Req
  PROVE  SeenElsewhere(q)'
  <1>0. /\ Evolves(q) /\ SeenElsewhere(q) /\ Stage(req[q]) /\ Stage(req'[q]) /\ req[q] \in Request
    BY RequestsEvolve, TypesStep DEF TypeInv, Requests, Stage, RaceInv
  <1> SUFFICES ASSUME req'[q].kind = "match"
               PROVE  /\ req'[q].pc \in Early => req'[q].seen = {} /\ req'[q].reuse = MaxSlots
                      /\ req'[q].pc = "scan" => req'[q].reuse = MaxSlots \/ req'[q].reuse < req'[q].slot
                      /\ \A o \in req'[q].seen :
                            /\ o \in {Maker} \X Req /\ req'[o[2]].pc \in Sent
                            /\ \A i \in SlotIdx : Order(i)' = o =>
                                  /\ req'[q].pc = "scan" => i < req'[q].slot /\ i # req'[q].reuse
                                  /\ req'[q].pc \in Chosen => i # req'[q].slot
    BY DEF SeenElsewhere, MakerOrder, Early, Chosen, At
  <1>1. CASE req[q].pc = "free"
    <2>1. Starts(q)
      BY <1>0, <1>1 DEF Evolves, Stage
    <2>2. QED
      BY <2>1 DEF Starts, Chosen
  <1>2. CASE req[q].pc # "free"
    <2>1. Goes(q) /\ req[q].kind = "match"
      BY <1>0, <1>2 DEF Evolves, Goes
    <2>2. /\ req[q].pc \in Early => req[q].seen = {} /\ req[q].reuse = MaxSlots
          /\ req[q].pc = "scan" => req[q].reuse = MaxSlots \/ req[q].reuse < req[q].slot
          /\ \A o \in req[q].seen :
                /\ MakerOrder(o)
                /\ \A i \in SlotIdx : Order(i) = o =>
                      /\ req[q].pc = "scan" => i < req[q].slot /\ i # req[q].reuse
                      /\ req[q].pc \in Chosen => i # req[q].slot
      BY <1>0, <2>1 DEF SeenElsewhere, Early, Chosen, At
    <2>3. CASE SameScan(q)
      BY <2>2, <2>3, SentStays DEF SameScan, Early, Chosen
    <2>4. CASE ScanSlot(q)
      <3> DEFINE i == req[q].slot
      <3>1. /\ slot' = slot /\ req[q].pc = "scan" /\ SlotKey(q) = Maker
        BY <2>1, <2>4 DEF ScanSlot, chain, At, SlotKey
      <3>2. /\ i \in SlotIdx /\ req'[q].pc \in {"scan", "ensure", "failed"}
            /\ \/ req'[q].pc = "ensure" /\ req'[q].slot = i /\ req'[q].seen = req[q].seen
               \/ \E reuse \in Place :
                     /\ reuse = req[q].reuse \/ (reuse = i /\ slot[Maker][i].status # "Pending")
                     /\ req'[q].seen = req[q].seen
                           \cup IF slot[Maker][i].status = "Pending" THEN {slot[Maker][i].order} ELSE {}
                     /\ \/ req'[q].pc = "scan" /\ req'[q].slot = i + 1 /\ i + 1 \in SlotIdx /\ req'[q].reuse = reuse
                        \/ req'[q].pc \in {"ensure", "failed"} /\ req'[q].slot = reuse
        BY <2>4, <3>1, ScanSlotFact DEF TypeInv
      <3> HIDE DEF i
      <3>3. i = req[q].slot
        BY DEF i
      <3>4. /\ req[q].reuse = MaxSlots \/ req[q].reuse < i
            /\ \A o \in req[q].seen : /\ MakerOrder(o)
                                      /\ \A j \in SlotIdx : Order(j) = o => j < i /\ j # req[q].reuse
        BY <2>2, <3>1, <3>3
      <3>5. \A j \in SlotIdx : Order(j)' = Order(j)
        BY <3>1 DEF Order
      <3>6. CASE req'[q].pc = "ensure" /\ req'[q].slot = i /\ req'[q].seen = req[q].seen
        <4>1. ASSUME NEW o \in req'[q].seen
              PROVE  /\ o \in {Maker} \X Req /\ req'[o[2]].pc \in Sent
                     /\ \A j \in SlotIdx : Order(j)' = o => j # i
          <5>1. MakerOrder(o) /\ \A j \in SlotIdx : Order(j) = o => j < i
            BY <3>4, <3>6, <4>1
          <5>2. \A j \in SlotIdx : Order(j) = o => j # i
            BY <3>2, <5>1 DEF SlotIdx
          <5>3. QED
            BY <3>5, <5>1, <5>2, SentStays
        <4>2. QED
          BY <3>6, <4>1 DEF Early
      <3>7. ASSUME NEW reuse \in Place,
                   reuse = req[q].reuse \/ (reuse = i /\ slot[Maker][i].status # "Pending"),
                   req'[q].seen = req[q].seen
                           \cup IF slot[Maker][i].status = "Pending" THEN {slot[Maker][i].order} ELSE {},
                   \/ req'[q].pc = "scan" /\ req'[q].slot = i + 1 /\ i + 1 \in SlotIdx /\ req'[q].reuse = reuse
                   \/ req'[q].pc \in {"ensure", "failed"} /\ req'[q].slot = reuse
            PROVE  /\ req'[q].pc \in Early => req'[q].seen = {} /\ req'[q].reuse = MaxSlots
                   /\ req'[q].pc = "scan" => req'[q].reuse = MaxSlots \/ req'[q].reuse < req'[q].slot
                   /\ \A o \in req'[q].seen :
                            /\ o \in {Maker} \X Req /\ req'[o[2]].pc \in Sent
                            /\ \A j \in SlotIdx : Order(j)' = o =>
                                  /\ req'[q].pc = "scan" => j < req'[q].slot /\ j # req'[q].reuse
                                  /\ req'[q].pc \in Chosen => j # req'[q].slot
        <4>0. i \in Nat /\ reuse \in Nat /\ req[q].reuse \in Nat /\ i # MaxSlots /\ i < i + 1
              /\ \A j \in SlotIdx : j \in Nat /\ (j < i => j < i + 1)
          BY <1>0, <3>2, DemoAssumption DEF SlotIdx, Place, Request
        <4>1. reuse = MaxSlots \/ reuse < i + 1
          BY <3>4, <3>7, <4>0
        <4>2. ASSUME NEW o \in req'[q].seen
              PROVE  /\ MakerOrder(o)
                     /\ \A j \in SlotIdx : Order(j) = o => j < i + 1 /\ j # reuse
          <5>1. CASE o \in req[q].seen
            <6>1. MakerOrder(o) /\ \A j \in SlotIdx : Order(j) = o => j < i /\ j # req[q].reuse
              BY <3>4, <5>1
            <6>2. QED
              BY <3>7, <4>0, <6>1
          <5>2. CASE o \notin req[q].seen
            <6>1. slot[Maker][i].status = "Pending" /\ o = Order(i)
              BY <3>7, <4>2, <5>2 DEF Order
            <6>2. MakerOrder(o) /\ o # None
              BY <3>2, <6>1 DEF RaceInv
            <6>3. \A j \in SlotIdx : Order(j) = o => j = i
              BY <3>2, <6>1, <6>2 DEF RaceInv
            <6>4. i # reuse
              BY <3>4, <3>7, <4>0, <6>1
            <6>5. QED
              BY <4>0, <6>2, <6>3, <6>4
          <5>3. QED
            BY <5>1, <5>2
        <4>3. ASSUME NEW o \in req'[q].seen
              PROVE  /\ o \in {Maker} \X Req /\ req'[o[2]].pc \in Sent
                     /\ \A j \in SlotIdx : Order(j)' = o => j < i + 1 /\ j # reuse
          BY <3>5, <4>2, SentStays
        <4>4. QED
          BY <3>7, <4>1, <4>3 DEF Early, Chosen
      <3>8. QED
        BY <3>2, <3>6, <3>7
    <2>5. QED
      BY <2>1, <2>3, <2>4 DEF Goes
  <1>3. QED
    BY <1>1, <1>2

LEMMA RaceStep == TypeInv /\ RaceInv /\ [Next]_vars => RaceInv'
  <1> SUFFICES ASSUME TypeInv, RaceInv, [Next]_vars  PROVE RaceInv'
    OBVIOUS
  <1>1. ASSUME NEW i \in SlotIdx
        PROVE  /\ Order(i)' # None => Order(i)' \in {Maker} \X Req /\ req'[Order(i)'[2]].pc \in Sent
               /\ slot'[Maker][i].status = "Pending" => Order(i)' # None
    BY OrdersStay
  <1>2. ASSUME NEW i \in SlotIdx
        PROVE  /\ Order(i)' # None => MakerOrder(Order(i))'
               /\ slot'[Maker][i].status = "Pending" => Order(i)' # None
    BY <1>1 DEF MakerOrder
  <1>3. \A i, j \in SlotIdx : Order(i)' = Order(j)' /\ Order(i)' # None => i = j
    BY OrdersStay
  <1>4. \A r \in Req : SeenElsewhere(r)'
    BY SeenStays
  <1>5. QED
    BY <1>2, <1>3, <1>4 DEF RaceInv

LEMMA RaceInit == Init => RaceInv
  <1> SUFFICES ASSUME Init  PROVE RaceInv
    OBVIOUS
  <1>1. \A i \in SlotIdx : slot[Maker][i].order = None /\ slot[Maker][i].status = "Empty"
    BY NameFact DEF Init, ChainInit, EmptySlot
  <1>2. \A r \in Req : req[r].kind = "none"
    BY DEF Init, ChainInit, Free
  <1>3. QED
    BY <1>1, <1>2 DEF RaceInv, Order, SeenElsewhere

LEMMA RaceCorrect == Spec => []RaceInv
  BY TypesCorrect, RaceInit, RaceStep, PTL DEF Spec

(***************************************************************************)
(* chooseFreshSlot never sends the maker's order to a slot in which it has *)
(* seen an order: when submit_order is refused for an occupied slot, the   *)
(* order in it was placed after the scan, by another request.              *)
(***************************************************************************)
THEOREM SlotRaceCorrect == Spec => []SlotRace
  <1>1. TypeInv /\ RaceInv => SlotRace
    <2> SUFFICES ASSUME TypeInv, RaceInv, NEW r \in Req, At(r, "submit")
                 PROVE  slot[Maker][req[r].slot].order \notin req[r].seen
      BY DEF SlotRace
    <2>1. req[r] \in Request /\ Stage(req[r]) /\ req[r].pc = "submit"
      BY RequestTyped DEF TypeInv, At
    <2>2. req[r].kind = "match" /\ req[r].slot \in SlotIdx
      BY <2>1 DEF Stage, Request, Ends, TradeKinds, LiveKinds
    <2>3. SeenElsewhere(r)
      BY DEF RaceInv
    <2>4. QED
      BY <2>1, <2>2, <2>3 DEF SeenElsewhere, Order
  <1>2. QED
    BY <1>1, TypesCorrect, RaceCorrect, PTL

-----------------------------------------------------------------------------
(***************************************************************************)
(* The fourth layer is inductive.                                          *)
(***************************************************************************)

\* Slots are never taken back from the rollup.
LEMMA DelegatedStays ==
  ASSUME TypeInv, [Next]_vars
  PROVE  StillDelegated
  <1>1. CASE Calm
    BY <1>1 DEF Calm
  <1>2. CASE \E f \in flight : OrderExecutes(f)
    BY <1>2, ExecuteFact DEF TypeInv
  <1>3. ASSUME NEW r \in Req, Orderly(r)  PROVE StillDelegated
    <2>1. CASE Settle(r)
      <3>1. slot' = slot
        BY <2>1, SettleFact
      <3>2. QED
        BY <3>1 DEF StillDelegated
    <2>2. CASE ~Settle(r)
      BY <1>3, <2>2, MakerSubmitFact, LiveSubmitFact, RunsFact DEF Orderly
    <2>3. QED
      BY <2>1, <2>2
  <1>4. QED
    BY <1>1, <1>2, <1>3, ChainEvolves

\* A request that has run a batch for a trader keeps having done so.
LEMMA RanStays ==
  ASSUME TypeInv, [Next]_vars, NEW u, NEW r \in Req, req[r].kind = "match", req[r].who = u,
         req[r].pc \in Ran \/ req'[r].pc \in Ran
  PROVE  RanFor(u)'
  <1>1. Evolves(r) /\ Stage(req[r])
    BY RequestsEvolve DEF TypeInv, Requests
  <1>2. Goes(r)
    BY <1>1 DEF Evolves, Stage
  <1>3. req'[r].kind = "match" /\ req'[r].who = u /\ req'[r].pc \in Ran
    BY <1>2 DEF Goes, Trade, SameSearch
  <1>4. QED
    BY <1>3 DEF RanFor, Ran

\* What becomes of a trader's slot.
SlotFate(u, i) ==
    \/ slot'[u][i].status = slot[u][i].status /\ slot'[u][i].note = slot[u][i].note
    \/ slot'[u][i].status = "Expired"
    \/ /\ slot[u][i].status = "Pending" /\ slot'[u][i].status = "Matched"
       /\ \E m \in batch'.er.log : m.buyer = slot[u][i].note
       /\ RanFor(u)'
    \/ \E f \in flight : /\ OrderExecutes(f) /\ f.by = u
                         /\ slot'[u][i].status = "Pending" /\ slot'[u][i].note = f.note
LEMMA TraderSlots ==
  ASSUME TypeInv, [Next]_vars, NEW u \in Trader, NEW i \in SlotIdx
  PROVE  SlotFate(u, i)
  <1>0. u \in Key /\ u # Maker /\ u # Taker
    BY NameFact, DemoAssumption
  <1>a. ASSUME slot'[u][i] = slot[u][i]  PROVE SlotFate(u, i)
    BY <1>a DEF SlotFate
  <1>1. CASE Calm
    BY <1>0, <1>1 DEF Calm, SameOrders, SlotFate
  <1>2. CASE \E f \in flight : OrderExecutes(f)
    <2>1. PICK f \in flight : OrderExecutes(f)
      BY <1>2
    <2>2. \/ slot'[u][i] = slot[u][i]
          \/ f.by = u /\ slot'[u][i].status = "Pending" /\ slot'[u][i].note = f.note
      BY <1>0, <2>1, ExecuteFact DEF TypeInv
    <2>3. QED
      BY <1>a, <2>1, <2>2 DEF SlotFate
  <1>3. ASSUME NEW r \in Req, Orderly(r)  PROVE SlotFate(u, i)
    <2>1. CASE MakerSubmit(r)
      BY <1>0, <1>a, <2>1, MakerSubmitFact
    <2>2. CASE LiveSubmit(r)
      BY <1>0, <1>a, <2>2, LiveSubmitFact
    <2>3. CASE Settle(r)
      BY <1>a, <2>3, SettleFact
    <2>4. CASE RunBatch(r) \/ LiveRunBatch(r)
      <3>1. PICK v \in Trader \cup {Taker}, k \in SlotIdx, j \in SlotIdx :
               /\ Buys(r, v, k)
               /\ \/ slot'[u][i] = slot[u][i]
                  \/ Marked(u, i)
                  \/ /\ Wiped(u, i) /\ Crossed(v, k, Maker, j)
                     /\ <<u, i>> \in {<<v, k>>, <<Maker, j>>}
               /\ Crossed(v, k, Maker, j) => batch'.er.log = batch.er.log \cup {MatchOf(v, k, Maker, j)}
        BY <1>0, <2>4, RunsFact
      <3>2. CASE Marked(u, i)
        BY <3>2 DEF Marked, SlotFate
      <3>3. CASE Wiped(u, i) /\ Crossed(v, k, Maker, j) /\ <<u, i>> \in {<<v, k>>, <<Maker, j>>}
        <4>1. v = u /\ k = i
          BY <1>0, <3>3
        <4>2. MatchOf(u, i, Maker, j) \in batch'.er.log /\ MatchOf(u, i, Maker, j).buyer = slot[u][i].note
          BY <3>1, <3>3, <4>1 DEF MatchOf
        <4>3. req[r].who = u /\ req[r].kind = "match" /\ req'[r].pc = "undelegate"
          BY <1>0, <3>1, <4>1 DEF Buys
        <4>4. RanFor(u)'
          BY <4>3, RanStays DEF Ran
        <4>5. QED
          BY <3>3, <4>2, <4>4 DEF SlotFate, Wiped
      <3>4. QED
        BY <1>a, <3>1, <3>2, <3>3
    <2>5. QED
      BY <1>3, <2>1, <2>2, <2>3, <2>4 DEF Orderly
  <1>4. QED
    BY <1>1, <1>2, <1>3, ChainEvolves

\* A bid that is placed or matched stays so, as long as the page shows its slot
\* and its note; a late order of the page's own is placed in it.
LEMMA PlacedStays ==
  ASSUME TypeInv, [Next]_vars, NEW u \in Trader, PlacedOrMatched(u), panel[u].slot \in SlotIdx,
         panel'[u].slot = panel[u].slot, panel'[u].note = panel[u].note,
         \A f \in flight : f.by = u => f.note \in Own(u)
  PROVE  PlacedOrMatched(u)'
  <1> DEFINE i == panel[u].slot
  <1>0. SlotFate(u, i) /\ Own(u)' = Own(u)
    BY TraderSlots DEF Own
  <1>1. CASE (\E m \in batch.er.log : m.buyer \in Own(u)) /\ RanFor(u)
    <2>1. RanFor(u)'
      BY <1>1, RanStays DEF RanFor, Ran
    <2>2. \E m \in batch'.er.log : m.buyer \in Own(u)'
      BY <1>0, <1>1, LogsGrow
    <2>3. QED
      BY <2>1, <2>2 DEF PlacedOrMatched
  <1>2. CASE slot[u][i].status = "Expired" \/ (slot[u][i].status = "Pending" /\ slot[u][i].note \in Own(u))
    <2>1. CASE slot'[u][i].status = slot[u][i].status /\ slot'[u][i].note = slot[u][i].note
      BY <1>0, <1>2, <2>1 DEF PlacedOrMatched
    <2>2. CASE slot'[u][i].status = "Expired"
      BY <2>2 DEF PlacedOrMatched
    <2>3. CASE /\ slot[u][i].status = "Pending"
               /\ \E m \in batch'.er.log : m.buyer = slot[u][i].note
               /\ RanFor(u)'
      BY <1>0, <1>2, <2>3 DEF PlacedOrMatched
    <2>4. CASE \E f \in flight : f.by = u /\ slot'[u][i].status = "Pending" /\ slot'[u][i].note = f.note
      BY <1>0, <2>4 DEF PlacedOrMatched
    <2>5. QED
      BY <1>0, <2>1, <2>2, <2>3, <2>4 DEF SlotFate
  <1>3. QED
    BY <1>1, <1>2 DEF PlacedOrMatched

\* A step of a panel leaves the other panels and their orders alone.
LEMMA PanelFrame ==
  ASSUME TypeInv, NEW v \in Trader, PanelStep(v)
  PROVE  /\ \A u \in Trader : u # v => panel'[u] = panel[u]
         /\ panel[v].submits <= panel'[v].submits /\ panel[v].deposits <= panel'[v].deposits
         /\ \A f \in flight' : f \in flight \/ (RunSubmitOrderEr(v) /\ f = BuiltOrder(v, panel'[v].order))
         /\ \A f \in flight : f \in flight' \/ f.order[1] = v
  <1>0. Pages /\ Requests /\ panel[v] \in PanelRecord
    BY DEF TypeInv, Pages
  <1>a. panel[v].submits <= panel[v].submits /\ panel[v].deposits <= panel[v].deposits
    BY <1>0 DEF PanelRecord
  <1>w. \A w \in Req \cup {0} : w \in 0 .. AwaitsTx
    BY DemoAssumption DEF Req, AwaitsTx
  <1>1. CASE RunRegister(v) \/ SubmitConfirmed(v)
    <2>1. flight' = flight /\ (panel' = panel \/ \E step \in Steps : Advance(v, step))
      BY <1>1 DEF RunRegister, SubmitConfirmed, Steps
    <2>2. QED
      BY <1>0, <1>a, <2>1, AdvanceFact
  <1>2. CASE RunInitSlot(v) \/ RunCounterMatch(v)
    <2>1. flight' = flight /\ \E r \in Req : Await(v, r)
      BY <1>2 DEF RunInitSlot, RunCounterMatch, Call
    <2>2. QED
      BY <1>0, <1>a, <1>w, <2>1, AwaitFact
  <1>3. CASE RunDeposit(v)
    <2>1. flight' = flight
      BY <1>3 DEF RunDeposit
    <2>2. /\ \A u \in Trader : u # v => panel'[u] = panel[u]
          /\ panel'[v].submits = panel[v].submits /\ panel[v].deposits \in Nat
          /\ panel'[v].deposits = panel[v].deposits + 1
      BY <1>0, <1>3, DepositFact DEF RunDeposit
    <2>3. panel[v].deposits <= panel'[v].deposits
      BY <2>2
    <2>4. QED
      BY <1>a, <2>1, <2>2, <2>3
  <1>4. CASE RunSubmitOrderEr(v)
    <2>1. /\ \A u \in Trader : u # v => panel'[u] = panel[u]
          /\ panel'[v].deposits = panel[v].deposits
          /\ panel[v].submits \in Nat /\ panel'[v].submits = panel[v].submits + 1
          /\ flight' = flight \cup {BuiltOrder(v, panel'[v].order)} \/ flight' = flight
      BY <1>0, <1>4, SubmitFact
    <2>2. panel[v].submits <= panel'[v].submits
      BY <2>1
    <2>3. QED
      BY <1>4, <1>a, <2>1, <2>2
  <1>5. CASE SubmitLost(v)
    <2>1. Await(v, 0) /\ flight' \subseteq flight /\ \A f \in flight : f \in flight' \/ f.order = <<v, panel[v].order>>
      BY <1>5 DEF SubmitLost
    <2>2. QED
      BY <1>0, <1>a, <1>w, <2>1, AwaitFact
  <1>6. CASE ConnectionLost(v)
    <2>1. Await(v, 0) /\ flight' = flight
      BY <1>6 DEF ConnectionLost
    <2>2. QED
      BY <1>0, <1>a, <1>w, <2>1, AwaitFact
  <1>7. CASE PanelAnswered(v)
    <2> DEFINE i == req[panel[v].wait].slot
    <2>1. /\ panel[v].wait \in Req /\ flight' = flight
          /\ \/ Await(v, 0) \/ Advance(v, "matched")
             \/ panel' = [panel EXCEPT ![v].wait = 0, ![v].step = "slot_ready", ![v].slot = i]
      BY <1>7 DEF PanelAnswered
    <2>2. i \in Place
      BY <1>0, <2>1, RequestTyped DEF Request
    <2> HIDE DEF i
    <2>3. /\ \A u \in Trader : u # v => panel'[u] = panel[u]
          /\ panel'[v].submits = panel[v].submits /\ panel'[v].deposits = panel[v].deposits
      <3>1. CASE Await(v, 0)
        BY <1>0, <1>w, <3>1, AwaitFact
      <3>2. CASE Advance(v, "matched")
        BY <1>0, <1>w, <3>2, AdvanceFact DEF Steps
      <3>3. CASE panel' = [panel EXCEPT ![v].wait = 0, ![v].step = "slot_ready", ![v].slot = i]
        BY <1>0, <1>w, <2>2, <3>3, SlotAnswerFact
      <3>4. QED
        BY <2>1, <3>1, <3>2, <3>3
    <2>4. QED
      BY <1>a, <2>1, <2>3
  <1>8. CASE Reload(v)
    <2>1. flight' = flight
      BY <1>8 DEF Reload
    <2>2. QED
      BY <1>0, <1>8, <1>a, <2>1, ReloadFact
  <1>9. QED
    BY <1>1, <1>2, <1>3, <1>4, <1>5, <1>6, <1>7, <1>8 DEF PanelStep

\* Seen from one panel, a step is its own or leaves it alone.
Stands(u) ==
    /\ panel'[u] = panel[u]
    /\ \A f \in flight' : f.order[1] = u => f \in flight
    /\ \A f \in flight : f.order[1] = u /\ f \notin flight' => OrderExecutes(f)
LEMMA PagesMove ==
  ASSUME TypeInv, [Next]_vars, NEW u \in Trader
  PROVE  Stands(u) \/ PanelStep(u)
  <1>1. CASE UNCHANGED <<panel, flight>>
    BY <1>1 DEF Stands
  <1>2. CASE \E f \in flight : OrderExecutes(f)
    BY <1>2 DEF Stands, OrderExecutes
  <1>3. CASE \E v \in Trader : PanelStep(v)
    <2>1. PICK v \in Trader : PanelStep(v)
      BY <1>3
    <2>2. CASE v = u
      BY <2>1, <2>2
    <2>3. CASE v # u
      <3>1. BuiltOrder(v, panel'[v].order).order[1] = v
        BY DEF BuiltOrder
      <3>2. QED
        BY <2>1, <2>3, <3>1, PanelFrame DEF Stands
    <2>4. QED
      BY <2>2, <2>3
  <1>4. QED
    BY <1>1, <1>2, <1>3, ChainEvolves

\* The numbers of notes and orders are never used again.
LEMMA CountersGrow ==
  ASSUME TypeInv, [Next]_vars, NEW u \in Trader
  PROVE  /\ panel[u].submits \in Nat /\ panel'[u].submits \in Nat /\ panel[u].submits <= panel'[u].submits
         /\ panel[u].deposits \in Nat /\ panel'[u].deposits \in Nat /\ panel[u].deposits <= panel'[u].deposits
  <1>1. panel[u] \in PanelRecord /\ panel'[u] \in PanelRecord
    BY TypesStep DEF TypeInv, Pages
  <1>2. /\ panel[u].submits \in Nat /\ panel'[u].submits \in Nat
        /\ panel[u].deposits \in Nat /\ panel'[u].deposits \in Nat
    BY <1>1 DEF PanelRecord
  <1>3. CASE Stands(u)
    <2>1. panel'[u].submits = panel[u].submits /\ panel'[u].deposits = panel[u].deposits
      BY <1>3 DEF Stands
    <2>2. QED
      BY <1>2, <2>1
  <1>4. CASE PanelStep(u)
    BY <1>2, <1>4, PanelFrame
  <1>5. QED
    BY <1>3, <1>4, PagesMove

\* A slot that is with the rollup stays there.
LEMMA SlotsStay ==
  ASSUME TypeInv, [Next]_vars, NEW u \in Trader, NEW i, Delegated(u, i)
  PROVE  i \in SlotIdx /\ slot'[u][i].l1 = "delegated"
  BY DelegatedStays, NameFact DEF StillDelegated, Delegated

\* Every order in flight is of a page of its trader.
LEMMA FlightsOwn ==
  ASSUME TypeInv, PanelInv, [Next]_vars, NEW f \in flight'
  PROVE  OwnOrder(f)'
  <1>1. ASSUME f \in flight  PROVE OwnOrder(f)'
    <2>1. OwnOrder(f) /\ f.by \in Trader
      BY <1>1 DEF PanelInv, TypeInv, Pages, Flight
    <2>2. f.by \in Trader /\ Delegated(f.by, f.slot)
      BY <2>1 DEF OwnOrder
    <2>3. f.slot \in SlotIdx /\ slot'[f.by][f.slot].l1 = "delegated"
      BY <2>2, SlotsStay
    <2>4. \A n : /\ n \in 1 .. panel[f.by].submits => n \in 1 .. panel'[f.by].submits
                 /\ n \in 1 .. panel[f.by].deposits => n \in 1 .. panel'[f.by].deposits
      BY <2>1, CountersGrow
    <2>5. /\ f.order \in {f.by} \X (1 .. panel[f.by].submits) /\ f.note \in {f.by} \X (1 .. panel[f.by].deposits)
      BY <2>1 DEF OwnOrder
    <2>6. /\ f.order \in {f.by} \X (1 .. panel'[f.by].submits) /\ f.note \in {f.by} \X (1 .. panel'[f.by].deposits)
      BY <2>4, <2>5
    <2>7. QED
      BY <2>3, <2>6 DEF OwnOrder, Delegated
  <1>2. ASSUME f \notin flight  PROVE OwnOrder(f)'
    <2>1. PICK u \in Trader : RunSubmitOrderEr(u) /\ f = BuiltOrder(u, panel'[u].order)
      <3>1. ~(\E g \in flight : OrderExecutes(g)) /\ ~UNCHANGED flight
        BY <1>2 DEF OrderExecutes
      <3>2. PICK u \in Trader : PanelStep(u)
        BY <3>1, ChainEvolves
      <3>3. QED
        BY <1>2, <3>2, PanelFrame
    <2>2. /\ panel[u].submits \in Nat /\ panel'[u].submits = panel[u].submits + 1
          /\ panel'[u].order = panel'[u].submits /\ panel'[u].deposits = panel[u].deposits
      BY <2>1, SubmitFact DEF TypeInv
    <2>3. f.by = u /\ f.slot = panel[u].slot /\ f.order = <<u, panel'[u].order>> /\ f.note = <<u, panel[u].note>>
      BY <2>1 DEF BuiltOrder, Note
    <2>4. panel[u].step = "deposited" /\ Page(u)
      BY <2>1 DEF RunSubmitOrderEr, Shows, PanelInv
    <2>5. panel[u].note = panel[u].deposits /\ panel[u].note > 0 /\ Delegated(u, panel[u].slot)
      BY <2>4 DEF Page
    <2>6. panel[u].deposits \in Nat
      BY CountersGrow
    <2>7. panel'[u].order \in 1 .. panel'[u].submits /\ panel[u].note \in 1 .. panel'[u].deposits
      BY <2>2, <2>5, <2>6
    <2>8. /\ f.order \in {f.by} \X (1 .. panel'[f.by].submits) /\ f.note \in {f.by} \X (1 .. panel'[f.by].deposits)
      BY <2>3, <2>7
    <2>9. f.slot \in SlotIdx /\ slot'[f.by][f.slot].l1 = "delegated"
      BY <2>3, <2>5, SlotsStay
    <2>10. QED
      BY <2>8, <2>9 DEF OwnOrder, Delegated
  <1>3. QED
    BY <1>1, <1>2

\* The notes of a trader's panel, from its deposit on.
LEMMA OwnNotes ==
  ASSUME NEW u \in Trader, Page(u), panel[u].step \in {"deposited", "order_er", "matched"}
  PROVE  Own(u) = {u} \X (1 .. panel[u].deposits)
  BY DEF Page, Own

\* A trader's own order in flight.
LEMMA OwnFlight ==
  ASSUME TypeInv, PanelInv, NEW f \in flight
  PROVE  /\ f.by \in Trader /\ f.order[1] = f.by /\ f.note \in {f.by} \X (1 .. panel[f.by].deposits)
         /\ Delegated(f.by, f.slot)
  <1>1. OwnOrder(f) /\ f.by \in Trader
    BY DEF PanelInv, TypeInv, Pages, Flight
  <1>2. f.order \in {f.by} \X (1 .. panel[f.by].submits)
    BY <1>1 DEF OwnOrder
  <1>3. f.order[1] = f.by
    BY <1>2
  <1>4. QED
    BY <1>1, <1>3 DEF OwnOrder

\* An order that waits in a trader's slot is under one of the trader's notes.
LEMMA SlotsOwn ==
  ASSUME TypeInv, PanelInv, [Next]_vars, NEW u \in Trader, NEW i \in SlotIdx,
         slot'[u][i].status = "Pending"
  PROVE  slot'[u][i].note \in {u} \X (1 .. panel'[u].deposits)
  <1>1. \A n : n \in {u} \X (1 .. panel[u].deposits) => n \in {u} \X (1 .. panel'[u].deposits)
    <2>1. \A n : n \in 1 .. panel[u].deposits => n \in 1 .. panel'[u].deposits
      BY CountersGrow
    <2>2. QED
      BY <2>1
  <1>2. CASE slot'[u][i].status = slot[u][i].status /\ slot'[u][i].note = slot[u][i].note
    <2>1. Page(u)
      BY DEF PanelInv
    <2>2. slot[u][i].note \in {u} \X (1 .. panel[u].deposits)
      BY <1>2, <2>1 DEF Page
    <2>3. QED
      BY <1>1, <1>2, <2>2
  <1>3. CASE \E f \in flight : f.by = u /\ slot'[u][i].note = f.note
    BY <1>1, <1>3, OwnFlight
  <1>4. QED
    BY <1>2, <1>3, TraderSlots DEF SlotFate

\* The slot that init-slot answers is with the rollup.
LEMMA AnsweredSlot ==
  ASSUME TypeInv, PanelInv, [Next]_vars, NEW r \in Req, req'[r].kind = "init", req'[r].pc = "done"
  PROVE  req'[r].who \in Trader /\ Delegated(req[r].who, req[r].slot)'
  <1>1. Evolves(r) /\ Stage(req[r])
    BY RequestsEvolve, RequestTyped DEF TypeInv
  <1>2. Stage(req'[r])
    BY TypesStep DEF TypeInv, Requests
  <1>3. req'[r].who \in Trader /\ req'[r].slot \in SlotIdx
    BY <1>2 DEF Stage, TradeKinds
  <1>4. Goes(r) /\ req[r].kind = "init" /\ req'[r].who = req[r].who
    BY <1>1 DEF Evolves, Starts, Goes, Trade
  <1>5. CASE req[r].pc = "done"
    <2>1. req'[r].slot = req[r].slot /\ Delegated(req[r].who, req[r].slot)
      BY <1>4, <1>5 DEF Goes, Ends, PanelInv, At
    <2>2. slot'[req[r].who][req[r].slot].l1 = "delegated"
      BY <1>3, <1>4, <2>1, SlotsStay
    <2>3. QED
      BY <1>3, <1>4, <2>1, <2>2 DEF Delegated
  <1>6. CASE req[r].pc # "done"
    <2>1. slot'[req[r].who][req'[r].slot].l1 = "delegated"
      BY <1>4, <1>6 DEF Goes
    <2>2. QED
      BY <1>3, <1>4, <2>1 DEF Delegated
  <1>7. QED
    BY <1>5, <1>6

\* A panel's bid stays placed or matched.
LEMMA BidStays ==
  ASSUME TypeInv, PanelInv, [Next]_vars, NEW u \in Trader, PlacedOrMatched(u),
         panel[u].step \in {"deposited", "order_er", "matched"},
         panel'[u].slot = panel[u].slot, panel'[u].note = panel[u].note
  PROVE  PlacedOrMatched(u)'
  <1>0. Page(u)
    BY DEF PanelInv
  <1>1. Own(u) = {u} \X (1 .. panel[u].deposits) /\ panel[u].slot \in SlotIdx
    BY <1>0, OwnNotes DEF Page, Delegated
  <1>2. \A f \in flight : f.by = u => f.note \in Own(u)
    BY <1>1, OwnFlight
  <1>3. QED
    BY <1>1, <1>2, PlacedStays

\* A panel that a step leaves alone stays true.
LEMMA Standing ==
  ASSUME TypeInv, PanelInv, [Next]_vars, NEW u \in Trader, Stands(u)
  PROVE  Page(u)' /\ Truth(u)'
  <1>0. Page(u) /\ Truth(u) /\ panel'[u] = panel[u] /\ Note(u)' = Note(u)
    BY DEF PanelInv, Stands, Note
  <1>1. (panel[u].step \in {"slot_ready", "deposited", "order_er", "matched"} => Delegated(u, panel[u].slot))'
    <2>1. panel[u].step \in {"slot_ready", "deposited", "order_er", "matched"}
             => panel[u].slot \in SlotIdx /\ slot'[u][panel[u].slot].l1 = "delegated"
      BY <1>0, SlotsStay DEF Page
    <2>2. QED
      BY <1>0, <2>1 DEF Delegated
  <1>2. (panel[u].wait \in Req =>
          /\ req[panel[u].wait].who = u
          /\ \/ panel[u].step = "registered" /\ req[panel[u].wait].kind = "init"
             \/ /\ panel[u].step = "order_er" /\ req[panel[u].wait].kind = "match"
                /\ req[panel[u].wait].ctx.note = Note(u))'
    <2> SUFFICES ASSUME panel[u].wait \in Req
                 PROVE  /\ req'[panel[u].wait].who = u
                        /\ \/ panel[u].step = "registered" /\ req'[panel[u].wait].kind = "init"
                           \/ /\ panel[u].step = "order_er" /\ req'[panel[u].wait].kind = "match"
                              /\ req'[panel[u].wait].ctx.note = Note(u)
      BY <1>0
    <2> DEFINE r == panel[u].wait
    <2>1. r \in Req /\ Evolves(r) /\ Stage(req[r])
      BY RequestsEvolve, RequestTyped DEF TypeInv
    <2>2. /\ req[r].who = u
          /\ \/ panel[u].step = "registered" /\ req[r].kind = "init"
             \/ panel[u].step = "order_er" /\ req[r].kind = "match" /\ req[r].ctx.note = Note(u)
      BY <1>0, <2>1 DEF Page
    <2>3. Goes(r)
      BY <2>1, <2>2 DEF Evolves, Stage
    <2>4. req'[r].kind = req[r].kind /\ req'[r].who = req[r].who /\ req'[r].ctx = req[r].ctx
      BY <2>2, <2>3 DEF Goes, Trade
    <2>5. QED
      BY <2>2, <2>4
  <1>3. ASSUME panel[u].step \in {"deposited", "order_er", "matched"}, PlacedOrMatched(u)
        PROVE  PlacedOrMatched(u)'
    BY <1>0, <1>3, BidStays
  <1>4. ASSUME panel[u].wait = AwaitsTx
        PROVE  (/\ panel[u].step = "deposited"
                /\ \A f \in flight : f.order = <<u, panel[u].order>> => f.slot = panel[u].slot
                /\ (\E f \in flight : f.order = <<u, panel[u].order>>) \/ PlacedOrMatched(u))'
    <2>1. /\ panel[u].step = "deposited"
          /\ \A f \in flight : f.order = <<u, panel[u].order>> => f.slot = panel[u].slot
          /\ (\E f \in flight : f.order = <<u, panel[u].order>>) \/ PlacedOrMatched(u)
      BY <1>0, <1>4 DEF Page
    <2>2. ASSUME NEW f \in flight', f.order = <<u, panel'[u].order>>  PROVE f.slot = panel'[u].slot
      <3>1. f.order[1] = u /\ f.order = <<u, panel[u].order>>
        BY <1>0, <2>2
      <3>2. f \in flight
        BY <3>1 DEF Stands
      <3>3. QED
        BY <1>0, <2>1, <3>1, <3>2
    <2>3. ASSUME NEW f \in flight, f.order = <<u, panel[u].order>>, f \notin flight'
          PROVE  PlacedOrMatched(u)'
      <3>1. f.by = u /\ f.slot = panel[u].slot /\ Delegated(u, f.slot) /\ f.order[1] = u
        <4>1. f.order[1] = u
          BY <2>3
        <4>2. f.order[1] = f.by /\ Delegated(f.by, f.slot)
          BY OwnFlight
        <4>3. QED
          BY <2>1, <2>3, <4>1, <4>2
      <3>2. OrderExecutes(f)
        BY <2>3, <3>1 DEF Stands
      <3>3. ChainTypes /\ Pages
        BY DEF TypeInv
      <3>4. slot'[u][f.slot].status = "Pending"
        <4>1. CASE CanSubmit(f.by, f.slot)
          BY <3>1, <3>2, <3>3, <4>1, ExecuteFact
        <4>2. CASE ~CanSubmit(f.by, f.slot)
          <5>1. slot' = slot /\ f.slot \in SlotIdx /\ slot[u][f.slot].l1 = "delegated"
            BY <3>1, <3>2, <3>3, <4>2, ExecuteFact DEF Delegated
          <5>2. slot[u][f.slot].status \notin {"Empty", "Matched", "Expired"}
            BY <3>1, <4>2, <5>1 DEF CanSubmit
          <5>3. slot[u][f.slot] \in SlotRecord
            BY <3>3, <5>1, NameFact DEF ChainTypes, SlotTypes
          <5>4. QED
            BY <5>1, <5>2, <5>3 DEF SlotRecord
        <4>3. QED
          BY <4>1, <4>2
      <3>5. slot'[u][f.slot].note \in {u} \X (1 .. panel'[u].deposits) /\ f.slot \in SlotIdx
        BY <3>1, <3>4, SlotsOwn DEF Delegated
      <3>6. Own(u) = {u} \X (1 .. panel[u].deposits) /\ Own(u)' = Own(u)
        BY <1>0, <2>1, OwnNotes DEF Own
      <3>7. QED
        BY <1>0, <3>1, <3>4, <3>5, <3>6 DEF PlacedOrMatched
    <2>4. (\E f \in flight : f.order = <<u, panel[u].order>>)' \/ PlacedOrMatched(u)'
      BY <1>0, <1>3, <2>1, <2>3
    <2>5. QED
      BY <1>0, <2>1, <2>2, <2>4
  <1>5. ASSUME NEW i \in SlotIdx, slot'[u][i].status = "Pending"
        PROVE  slot'[u][i].note \in {u} \X (1 .. panel'[u].deposits)
    BY <1>5, SlotsOwn
  <1>6. (/\ panel[u].order <= panel[u].submits
         /\ panel[u].step \in {"deposited", "order_er", "matched"}
               => panel[u].note = panel[u].deposits /\ panel[u].note > 0)'
    BY <1>0 DEF Page
  <1>7. Page(u)'
    BY <1>0, <1>1, <1>2, <1>4, <1>5, <1>6 DEF Page
  <1>8. Truth(u)'
    <2>1. (panel[u].step = "order_er" => PlacedOrMatched(u))'
      BY <1>0, <1>3 DEF Truth
    <2>2. (Shows(u, "matched") => \E s \in vault.settled : s.buyer = Note(u))'
      BY <1>0, LogsGrow DEF Truth, Shows
    <2>3. QED
      BY <2>1, <2>2 DEF Truth
  <1>9. QED
    BY <1>7, <1>8

\* The parts of Page that do not depend on what the panel waits for.
Steady(u) ==
    /\ panel[u].order <= panel[u].submits
    /\ panel[u].step \in {"deposited", "order_er", "matched"}
          => panel[u].note = panel[u].deposits /\ panel[u].note > 0
    /\ panel[u].step \in {"slot_ready", "deposited", "order_er", "matched"} => Delegated(u, panel[u].slot)

\* A panel that keeps its slot and its note, and goes on by one step.
LEMMA Proceeds ==
  ASSUME TypeInv, PanelInv, [Next]_vars, NEW u \in Trader,
         panel'[u].slot = panel[u].slot, panel'[u].note = panel[u].note,
         panel'[u].deposits = panel[u].deposits, panel'[u].order = panel[u].order,
         panel'[u].submits = panel[u].submits,
         \/ panel'[u].step = panel[u].step
         \/ panel'[u].step = "registered"
         \/ panel[u].step \in {"deposited", "order_er"}
  PROVE  Steady(u)'
  <1>0. Page(u)
    BY DEF PanelInv
  <1>1. panel[u].step \in {"slot_ready", "deposited", "order_er", "matched"}
           => panel[u].slot \in SlotIdx /\ slot'[u][panel[u].slot].l1 = "delegated"
    BY <1>0, SlotsStay DEF Page
  <1>2. (panel[u].step \in {"slot_ready", "deposited", "order_er", "matched"} => Delegated(u, panel[u].slot))'
    BY <1>1 DEF Delegated
  <1>3. QED
    BY <1>0, <1>2 DEF Page, Steady

\* A panel that waits for nothing.
LEMMA Rests ==
  ASSUME TypeInv, PanelInv, [Next]_vars, NEW u \in Trader, Steady(u)', panel'[u].wait = 0
  PROVE  Page(u)'
  <1>1. panel'[u].wait \notin Req /\ panel'[u].wait # AwaitsTx
    BY DemoAssumption DEF Req, AwaitsTx
  <1>2. ASSUME NEW i \in SlotIdx, slot'[u][i].status = "Pending"
        PROVE  slot'[u][i].note \in {u} \X (1 .. panel'[u].deposits)
    BY <1>2, SlotsOwn
  <1>3. QED
    BY <1>1, <1>2 DEF Page, Steady

\* The panel's calls of the routes.
LEMMA CallMoves ==
  ASSUME TypeInv, PanelInv, [Next]_vars, NEW u \in Trader, RunInitSlot(u) \/ RunCounterMatch(u)
  PROVE  Page(u)' /\ Truth(u)'
  <1>0. Requests /\ Pages /\ Truth(u)
    BY DEF TypeInv, PanelInv
  <1>1. PICK step \in {"registered", "order_er"}, kind \in {"init", "match"} :
           /\ Call(u, step, kind) /\ (step = "registered" => kind = "init")
           /\ (step = "order_er" => kind = "match")
    BY DEF RunInitSlot, RunCounterMatch
  <1>2. PICK r \in Req : /\ Await(u, r) /\ req'[r].kind = kind /\ req'[r].who = u
                         /\ req'[r].ctx.note = Note(u)
    BY <1>0, <1>1, CallTypes
  <1>3. Shows(u, step) /\ r \in 0 .. AwaitsTx /\ r # 0 /\ r # AwaitsTx
    BY <1>0, <1>1, CallTypes, DemoAssumption DEF Req, AwaitsTx
  <1>4. /\ panel'[u].wait = r /\ panel'[u].step = step /\ panel'[u].slot = panel[u].slot
        /\ panel'[u].note = panel[u].note /\ panel'[u].order = panel[u].order
        /\ panel'[u].deposits = panel[u].deposits /\ panel'[u].submits = panel[u].submits
    BY <1>0, <1>2, <1>3, AwaitFact DEF Shows
  <1>5. Steady(u)' /\ Note(u)' = Note(u)
    BY <1>3, <1>4, Proceeds DEF Shows, Note
  <1>6. ASSUME NEW i \in SlotIdx, slot'[u][i].status = "Pending"
        PROVE  slot'[u][i].note \in {u} \X (1 .. panel'[u].deposits)
    BY <1>6, SlotsOwn
  <1>7. (/\ req[panel[u].wait].who = u
         /\ \/ panel[u].step = "registered" /\ req[panel[u].wait].kind = "init"
            \/ /\ panel[u].step = "order_er" /\ req[panel[u].wait].kind = "match"
               /\ req[panel[u].wait].ctx.note = Note(u))'
    BY <1>1, <1>2, <1>4, <1>5
  <1>8. Page(u)'
    BY <1>3, <1>4, <1>5, <1>6, <1>7 DEF Page, Steady
  <1>9. (panel[u].step = "order_er" => PlacedOrMatched(u))'
    BY <1>0, <1>3, <1>4, BidStays DEF Truth, Shows
  <1>10. QED
    BY <1>3, <1>4, <1>8, <1>9 DEF Truth, Shows

\* runDeposit.
LEMMA DepositMoves ==
  ASSUME TypeInv, PanelInv, [Next]_vars, NEW u \in Trader, RunDeposit(u)
  PROVE  Page(u)' /\ Truth(u)'
  <1>0. Pages /\ Page(u) /\ panel[u].step = "slot_ready" /\ panel[u].wait = 0 /\ panel[u] \in PanelRecord
    BY DEF TypeInv, PanelInv, RunDeposit, Shows, Pages
  <1>1. /\ panel'[u].wait = panel[u].wait /\ panel'[u].slot = panel[u].slot
        /\ panel'[u].order = panel[u].order /\ panel'[u].submits = panel[u].submits
        /\ panel[u].deposits \in Nat /\ panel'[u].deposits = panel[u].deposits + 1
        /\ \/ panel'[u].step = panel[u].step
           \/ panel'[u].step = "deposited" /\ panel'[u].note = panel'[u].deposits
    BY <1>0, DepositFact DEF RunDeposit
  <1>2. panel[u].slot \in SlotIdx /\ slot'[u][panel[u].slot].l1 = "delegated"
    BY <1>0, SlotsStay DEF Page
  <1>3. Delegated(u, panel[u].slot)'
    BY <1>1, <1>2 DEF Delegated
  <1>4. panel'[u].deposits > 0 /\ panel'[u].order <= panel'[u].submits
    BY <1>0, <1>1 DEF Page
  <1>5. Steady(u)'
    BY <1>0, <1>1, <1>3, <1>4 DEF Steady
  <1>6. Page(u)'
    BY <1>0, <1>1, <1>5, Rests
  <1>7. QED
    BY <1>0, <1>1, <1>6 DEF Truth, Shows

\* runSubmitOrderEr: the order that it sends has a new name.
LEMMA SubmitMoves ==
  ASSUME TypeInv, PanelInv, [Next]_vars, NEW u \in Trader, RunSubmitOrderEr(u)
  PROVE  Page(u)' /\ Truth(u)'
  <1>0. Pages /\ Page(u) /\ panel[u].step = "deposited"
    BY DEF TypeInv, PanelInv, RunSubmitOrderEr, Shows
  <1>1. /\ panel'[u].slot = panel[u].slot /\ panel'[u].step = panel[u].step
        /\ panel'[u].note = panel[u].note /\ panel'[u].deposits = panel[u].deposits
        /\ panel[u].submits \in Nat /\ panel'[u].submits = panel[u].submits + 1
        /\ panel'[u].order = panel'[u].submits
        /\ \/ panel'[u].wait = AwaitsTx /\ flight' = flight \cup {BuiltOrder(u, panel'[u].order)}
           \/ panel'[u].wait = 0
    BY <1>0, SubmitFact
  <1>2. panel[u].slot \in SlotIdx /\ slot'[u][panel[u].slot].l1 = "delegated"
    BY <1>0, SlotsStay DEF Page
  <1>3. Delegated(u, panel[u].slot)'
    BY <1>1, <1>2 DEF Delegated
  <1>4. panel'[u].order <= panel'[u].submits
    BY <1>1
  <1>5. Steady(u)'
    BY <1>0, <1>1, <1>3, <1>4 DEF Steady, Page
  <1>6. Truth(u)'
    BY <1>0, <1>1 DEF Truth, Shows
  <1>7. CASE panel'[u].wait = 0
    BY <1>5, <1>6, <1>7, Rests
  <1>8. CASE panel'[u].wait = AwaitsTx /\ flight' = flight \cup {BuiltOrder(u, panel'[u].order)}
    <2> DEFINE b == BuiltOrder(u, panel'[u].order)
    <2>1. b \in flight' /\ b.slot = panel[u].slot /\ b.order = <<u, panel'[u].order>>
      BY <1>8 DEF BuiltOrder
    <2>2. ASSUME NEW f \in flight'  PROVE f.order = <<u, panel'[u].order>> => f.slot = panel'[u].slot
      <3>1. ASSUME f \in flight  PROVE f.order # <<u, panel'[u].order>>
        <4>1. f.order \in {f.by} \X (1 .. panel[f.by].submits)
          BY <3>1 DEF PanelInv, OwnOrder
        <4>2. SUFFICES ASSUME f.order = <<u, panel'[u].order>>  PROVE FALSE
          OBVIOUS
        <4>3. panel'[u].order \in 1 .. panel[u].submits
          BY <4>1, <4>2
        <4>4. QED
          BY <1>1, <4>3
      <3>2. QED
        BY <1>1, <1>8, <2>1, <3>1
    <2>3. ASSUME NEW i \in SlotIdx, slot'[u][i].status = "Pending"
          PROVE  slot'[u][i].note \in {u} \X (1 .. panel'[u].deposits)
      BY <2>3, SlotsOwn
    <2>4. panel'[u].wait \notin Req
      BY <1>8, DemoAssumption DEF Req, AwaitsTx
    <2>5. (/\ panel[u].step = "deposited"
           /\ \A f \in flight : f.order = <<u, panel[u].order>> => f.slot = panel[u].slot
           /\ (\E f \in flight : f.order = <<u, panel[u].order>>) \/ PlacedOrMatched(u))'
      BY <1>0, <1>1, <2>1, <2>2
    <2>6. QED
      BY <1>5, <1>6, <2>3, <2>4, <2>5 DEF Page, Steady
  <1>9. QED
    BY <1>1, <1>7, <1>8

\* The panel's transaction is confirmed, or the panel stops waiting for it.
LEMMA ConfirmMoves ==
  ASSUME TypeInv, PanelInv, [Next]_vars, NEW u \in Trader, SubmitConfirmed(u) \/ SubmitLost(u)
  PROVE  Page(u)' /\ Truth(u)'
  <1>0. Pages /\ Page(u) /\ panel[u].wait = AwaitsTx /\ 0 \in 0 .. AwaitsTx
    BY DemoAssumption DEF TypeInv, PanelInv, SubmitConfirmed, SubmitLost, AwaitsTx
  <1>1. /\ panel[u].step = "deposited"
        /\ (\E f \in flight : f.order = <<u, panel[u].order>>) \/ PlacedOrMatched(u)
    BY <1>0 DEF Page
  <1>2. CASE SubmitConfirmed(u)
    <2>1. PlacedOrMatched(u)
      BY <1>1, <1>2 DEF SubmitConfirmed
    <2>2. /\ panel'[u].wait = 0 /\ panel'[u].step = "order_er" /\ panel'[u].slot = panel[u].slot
          /\ panel'[u].note = panel[u].note /\ panel'[u].order = panel[u].order
          /\ panel'[u].deposits = panel[u].deposits /\ panel'[u].submits = panel[u].submits
      BY <1>0, <1>2, AdvanceFact DEF SubmitConfirmed, Steps
    <2>3. Page(u)'
      BY <1>1, <2>2, Proceeds, Rests
    <2>4. PlacedOrMatched(u)'
      BY <1>1, <2>1, <2>2, BidStays
    <2>5. QED
      BY <2>2, <2>3, <2>4 DEF Truth, Shows
  <1>3. CASE SubmitLost(u)
    <2>1. /\ panel'[u].wait = 0 /\ panel'[u].step = panel[u].step /\ panel'[u].slot = panel[u].slot
          /\ panel'[u].note = panel[u].note /\ panel'[u].order = panel[u].order
          /\ panel'[u].deposits = panel[u].deposits /\ panel'[u].submits = panel[u].submits
      BY <1>0, <1>3, AwaitFact DEF SubmitLost
    <2>2. Page(u)'
      BY <2>1, Proceeds, Rests
    <2>3. QED
      BY <1>1, <2>1, <2>2 DEF Truth, Shows
  <1>4. QED
    BY <1>2, <1>3

\* The panel's request is answered, or the panel loses it.
LEMMA AnswerMoves ==
  ASSUME TypeInv, MatchInv, PanelInv, [Next]_vars, NEW u \in Trader, PanelAnswered(u) \/ ConnectionLost(u)
  PROVE  Page(u)' /\ Truth(u)'
  <1> DEFINE r == panel[u].wait
  <1>0. Pages /\ Page(u) /\ Truth(u) /\ r \in Req /\ 0 \in 0 .. AwaitsTx /\ UNCHANGED <<slot, vault, req>>
    BY DemoAssumption DEF TypeInv, PanelInv, PanelAnswered, ConnectionLost, AwaitsTx, chain
  <1>1. /\ req[r].who = u
        /\ \/ panel[u].step = "registered" /\ req[r].kind = "init"
           \/ panel[u].step = "order_er" /\ req[r].kind = "match" /\ req[r].ctx.note = Note(u)
    BY <1>0 DEF Page
  <1>2. CASE Await(u, 0)
    <2>1. /\ panel'[u].wait = 0 /\ panel'[u].step = panel[u].step /\ panel'[u].slot = panel[u].slot
          /\ panel'[u].note = panel[u].note /\ panel'[u].order = panel[u].order
          /\ panel'[u].deposits = panel[u].deposits /\ panel'[u].submits = panel[u].submits
      BY <1>0, <1>2, AwaitFact
    <2>2. Page(u)'
      BY <2>1, Proceeds, Rests
    <2>3. (panel[u].step = "order_er" => PlacedOrMatched(u))'
      BY <1>0, <2>1, BidStays DEF Truth
    <2>4. QED
      BY <1>1, <2>1, <2>2, <2>3 DEF Truth, Shows
  <1>3. CASE req[r].pc = "done" /\ req[r].kind = "match" /\ Advance(u, "matched")
    <2>1. /\ panel'[u].wait = 0 /\ panel'[u].step = "matched" /\ panel'[u].slot = panel[u].slot
          /\ panel'[u].note = panel[u].note /\ panel'[u].order = panel[u].order
          /\ panel'[u].deposits = panel[u].deposits /\ panel'[u].submits = panel[u].submits
      BY <1>0, <1>3, AdvanceFact DEF Steps
    <2>2. Page(u)'
      BY <1>1, <1>3, <2>1, Proceeds, Rests
    <2>3. \E s \in vault.settled : s.buyer = Note(u)
      BY <1>0, <1>1, <1>3 DEF MatchInv, Succeeded, At
    <2>4. Note(u)' = Note(u)
      BY <2>1 DEF Note
    <2>5. QED
      BY <1>0, <2>1, <2>2, <2>3, <2>4 DEF Truth
  <1>4. CASE /\ req[r].pc = "done" /\ req[r].kind = "init"
             /\ panel' = [panel EXCEPT ![u].wait = 0, ![u].step = "slot_ready", ![u].slot = req[r].slot]
    <2>1. Delegated(u, req[r].slot)
      BY <1>0, <1>1, <1>4 DEF PanelInv, At
    <2>2. req[r].slot \in SlotIdx /\ req[r].slot \in Place
      BY <2>1, NameFact DEF Delegated
    <2>3. /\ panel'[u].wait = 0 /\ panel'[u].step = "slot_ready" /\ panel'[u].slot = req[r].slot
          /\ panel'[u].order = panel[u].order /\ panel'[u].submits = panel[u].submits
      BY <1>0, <1>4, <2>2, SlotAnswerFact
    <2>4. Delegated(u, panel[u].slot)'
      BY <1>0, <2>1, <2>3 DEF Delegated
    <2>5. Steady(u)'
      BY <1>0, <2>3, <2>4 DEF Steady, Page
    <2>6. Page(u)'
      BY <2>3, <2>5, Rests
    <2>7. QED
      BY <2>3, <2>6 DEF Truth, Shows
  <1>5. QED
    BY <1>2, <1>3, <1>4 DEF PanelAnswered, ConnectionLost

\* A wallet is registered, or the page is loaded again.
LEMMA StartMoves ==
  ASSUME TypeInv, PanelInv, [Next]_vars, NEW u \in Trader, RunRegister(u) \/ Reload(u)
  PROVE  Page(u)' /\ Truth(u)'
  <1>0. Pages /\ Page(u)
    BY DEF TypeInv, PanelInv
  <1>1. CASE RunRegister(u)
    <2>1. panel[u].step = "idle" /\ panel[u].wait = 0 /\ (panel' = panel \/ Advance(u, "registered"))
      BY <1>1 DEF RunRegister, Shows
    <2>2. /\ panel'[u].wait = 0 /\ panel'[u].step \in {"idle", "registered"}
          /\ panel'[u].slot = panel[u].slot
          /\ panel'[u].note = panel[u].note /\ panel'[u].order = panel[u].order
          /\ panel'[u].deposits = panel[u].deposits /\ panel'[u].submits = panel[u].submits
      BY <1>0, <2>1, AdvanceFact DEF Steps
    <2>3. Page(u)'
      BY <2>1, <2>2, Proceeds, Rests
    <2>4. QED
      BY <2>2, <2>3 DEF Truth, Shows
  <1>2. CASE Reload(u)
    <2>1. /\ panel'[u].wait = 0 /\ panel'[u].step = "idle" /\ panel'[u].order = 0
          /\ panel'[u].submits \in Nat
      BY <1>0, <1>2, ReloadFact, CountersGrow
    <2>2. panel'[u].order <= panel'[u].submits
      BY <2>1
    <2>3. Page(u)'
      BY <2>1, <2>2, Rests DEF Steady
    <2>4. QED
      BY <2>1, <2>3 DEF Truth, Shows
  <1>3. QED
    BY <1>1, <1>2

LEMMA PanelInit == Init => PanelInv
  <1> SUFFICES ASSUME Init  PROVE PanelInv
    OBVIOUS
  <1>0. flight = {} /\ panel = [u \in Trader |-> NewPanel] /\ req = [r \in Req |-> Free]
        /\ slot = [k \in Key |-> [i \in SlotIdx |-> EmptySlot]]
    BY DEF Init, TradeInit, ChainInit
  <1>1. ASSUME NEW u \in Trader  PROVE Page(u) /\ Truth(u)
    <2>1. /\ panel[u].step = "idle" /\ panel[u].wait = 0 /\ panel[u].order = 0 /\ panel[u].submits = 0
          /\ 0 \notin Req /\ 0 # AwaitsTx
      BY <1>0, DemoAssumption DEF NewPanel, Req, AwaitsTx
    <2>2. u \in Key
      BY NameFact
    <2>3. ASSUME NEW i \in SlotIdx  PROVE slot[u][i].status # "Pending"
      BY <1>0, <2>2 DEF EmptySlot
    <2>4. QED
      BY <2>1, <2>3 DEF Page, Truth, Shows
  <1>2. ASSUME NEW r \in Req  PROVE ~At(r, "done")
    BY <1>0 DEF At, Free
  <1>3. QED
    BY <1>0, <1>1, <1>2 DEF PanelInv

LEMMA PanelInvStep == TypeInv /\ MatchInv /\ PanelInv /\ [Next]_vars => PanelInv'
  <1> SUFFICES ASSUME TypeInv, MatchInv, PanelInv, [Next]_vars  PROVE PanelInv'
    OBVIOUS
  <1>1. ASSUME NEW f \in flight'  PROVE OwnOrder(f)'
    BY FlightsOwn
  <1>2. ASSUME NEW u \in Trader  PROVE Page(u)' /\ Truth(u)'
    <2>1. CASE Stands(u)
      BY <2>1, Standing
    <2>2. CASE PanelStep(u)
      BY <2>2, CallMoves, DepositMoves, SubmitMoves, ConfirmMoves, AnswerMoves, StartMoves DEF PanelStep
    <2>3. QED
      BY <2>1, <2>2, PagesMove
  <1>3. ASSUME NEW r \in Req, req'[r].kind = "init", req'[r].pc = "done"
        PROVE  Delegated(req[r].who, req[r].slot)'
    BY <1>3, AnsweredSlot
  <1>4. QED
    BY <1>1, <1>2, <1>3 DEF PanelInv, At

LEMMA PanelCorrect == Spec => []PanelInv
  BY PanelInit, PanelInvStep, TypesCorrect, MatchCorrect, PTL DEF Spec

(***************************************************************************)
(* What a panel shows is so, whatever reloads, lost answers, expiries and  *)
(* late transactions come between: after runCounterMatch's success its     *)
(* note is settled, and after runSubmitOrderEr its bid is in the slot, has *)
(* expired, or was matched by a request of this trader.                    *)
(***************************************************************************)
THEOREM PanelTruthCorrect == Spec => []PanelTruth
  <1>1. PanelInv => PanelTruth
    BY DEF PanelInv, Truth, PanelTruth
  <1>2. QED
    BY <1>1, PanelCorrect, PTL

-----------------------------------------------------------------------------
(***************************************************************************)
(* The fifth layer: scenarios in which requests come one at a time.        *)
(***************************************************************************)

NoBid(k) == \A i \in SlotIdx : slot[k][i].status # "Pending"
Bid(u) == slot[u][panel[u].slot].status = "Pending" /\ slot[u][panel[u].slot].note = Note(u)
FlightsOf(u) == {f \in flight : f.by = u}
BeforeRun == {"market", "delegate", "fee", "deposit", "scan", "ensure", "init", "delegateSlot",
              "submit", "pre", "run"}
Resting == {"pre", "run"}

\* What a page knows of its request r.
QuietCall(u, r) ==
    /\ req[r].kind = "init" =>
          \/ panel[u].step = "registered" /\ panel[u].wait = r
          \/ panel[u].step \in {"slot_ready", "deposited", "order_er", "matched"} /\ Ended(r)
    /\ req[r].kind = "match" =>
          \/ panel[u].step = "order_er" /\ panel[u].wait = r /\ req[r].ctx.slot = panel[u].slot
          \/ panel[u].step = "matched" /\ Ended(r)
\* A page's order is nowhere before it is sent, then in flight or in its slot, and
\* in its slot until a request of the page has run the batch.
QuietPage(u) ==
    /\ panel[u].step \in {"idle", "registered", "slot_ready"} \/ Shows(u, "deposited")
          => NoBid(u) /\ FlightsOf(u) = {}
    /\ panel[u].wait = AwaitsTx => \/ FlightsOf(u) = {} /\ Bid(u)
                                   \/ FlightsOf(u) = {BuiltOrder(u, panel[u].order)} /\ NoBid(u)
    /\ panel[u].step = "order_er" =>
          /\ FlightsOf(u) = {}
          /\ Bid(u) \/ (panel[u].wait \in Req /\ req[panel[u].wait].pc \notin BeforeRun)
    /\ \A r \in Req : req[r].kind \in TradeKinds /\ req[r].who = u => QuietCall(u, r)

\* What each stage of a request has before it.
Mine(r) == slot[SlotKey(r)][req[r].slot]
OwnMatch(r) == \E m \in batch.er.log : m.buyer = req[r].ctx.note /\ m.seller = OwnId(r) /\ ~m.fee
QuietStage(r) ==
    /\ req[r].pc \in {"delegate", "find", "lock", "settle"} => market = "l1"
    /\ req[r].pc \in (BeforeRun \ {"market", "delegate"}) \cup {"undelegate"} => market = "er"
    /\ req[r].pc = "wait" => market = "l1" \/ (market = "returning" /\ req[r].pre = batch.l1.runs)
    /\ req[r].pc \in {"run", "undelegate"} => req[r].pre = batch.l1.runs
    /\ req[r].kind = "match" /\ req[r].pc \in BeforeRun \ {"market", "delegate", "fee"} => ~vault.fee
    /\ req[r].pc = "init" => Mine(r).l1 = "absent"
    /\ req[r].pc = "delegateSlot" => Mine(r).l1 = "owned"
    /\ req[r].pc \in {"submit", "pre", "run"} => Mine(r).l1 = "delegated"
    /\ req[r].pc \in Resting =>
          /\ Mine(r).status = "Pending" /\ Mine(r).note = OwnId(r)
          /\ \A i \in SlotIdx : i # req[r].slot => slot[Maker][i].status # "Pending"
    /\ req[r].pc \in {"undelegate", "wait", "find"} => OwnMatch(r)
    /\ req[r].pc = "settle" => vault.locks = {[note |-> req[r].ctx.note, order |-> req[r].ctx.order],
                                              [note |-> OwnId(r), order |-> OwnId(r)]}
\* What is true between requests, and disturbed only at a stage of one.
QuietChain(r) ==
    /\ market = "returning" => At(r, "wait")
    /\ At(r, "settle") \/ vault.locks = {}
    /\ NoBid(Maker) \/ req[r].pc \in Resting
Settlers ==
    \A s \in vault.settled :
       \E q \in Req : /\ req[q].kind = "match" /\ At(q, "done")
                      /\ s.buyer = req[q].ctx.note /\ s.seller = OwnId(q)
QuietWorld ==
    /\ budget.faults = 0 /\ budget.live = 0 /\ budget.inBand /\ late = {}
    /\ \A r \in Req : req[r].kind \notin LiveKinds /\ ~At(r, "failed")
    /\ \A q, r \in Req : ~Ended(q) /\ ~Ended(r) => q = r
    /\ market = "returning" => \E r \in Req : At(r, "wait")
    /\ (\E r \in Req : At(r, "settle")) \/ vault.locks = {}
    /\ NoBid(Maker) \/ \E r \in Req : req[r].pc \in Resting
    /\ Settlers
Quiet == QuietWorld /\ (\A u \in Trader : QuietPage(u)) /\ (\A r \in Req : QuietStage(r))
QuietInv == budget \in Budgets /\ (budget.quiet => Quiet)

-----------------------------------------------------------------------------
(***************************************************************************)
(* The fifth layer is inductive.  A request that runs is the only one, so  *)
(* each of its steps finds the chain as the step before has left it.       *)
(***************************************************************************)

\* What one request needs.
Fits(r) == QuietChain(r) /\ QuietStage(r) /\ ~At(r, "failed")

\* A request that is over needs nothing.
LEMMA EndedStage ==
  ASSUME NEW r \in Req, Ended(r)  PROVE QuietStage(r)
  BY DEF Ended, QuietStage, BeforeRun, Resting

\* The request that runs.
LEMMA Active ==
  ASSUME TypeInv, QuietWorld, NEW r \in Req, ~Ended(r)
  PROVE  /\ QuietChain(r) /\ Trade(r) /\ \A q \in Req : q # r => Ended(q)
         /\ req[r].kind \in TradeKinds /\ req[r].who \in Trader /\ req[r].slot \in SlotIdx
         /\ req[r].ctx.note[1] = req[r].who
  <1>1. req[r] \in Request /\ Stage(req[r])
    BY RequestTyped DEF TypeInv
  <1>2. req[r].kind \in TradeKinds
    BY <1>1 DEF Request, Stage, Ended, QuietWorld
  <1>3. \A q \in Req : q # r => Ended(q)
    BY DEF QuietWorld
  <1>4. QuietChain(r)
    BY <1>3 DEF QuietWorld, QuietChain, Ended, At, Resting
  <1>5. req[r].pc # "failed"
    BY DEF Ended
  <1>6. QED
    BY <1>1, <1>2, <1>3, <1>4, <1>5 DEF Trade, TradeKinds, Stage

\* The page of the request that runs.
LEMMA ItsPage ==
  ASSUME TypeInv, PanelInv, Quiet, NEW r \in Req, ~Ended(r)
  PROVE  LET u == req[r].who
         IN /\ panel[u].wait = r
            /\ req[r].kind = "init" => panel[u].step = "registered" /\ NoBid(u)
            /\ req[r].kind = "match" =>
                  /\ panel[u].step = "order_er" /\ req[r].ctx.note = Note(u)
                  /\ req[r].ctx.slot = panel[u].slot /\ Delegated(u, panel[u].slot)
                  /\ req[r].pc \in BeforeRun => Bid(u)
  <1> DEFINE u == req[r].who
  <1>1. QuietWorld
    BY DEF Quiet
  <1>2. u \in Trader /\ req[r].kind \in TradeKinds
    BY <1>1, Active
  <1> HIDE DEF u
  <1>3. QuietPage(u) /\ Page(u)
    BY <1>2 DEF Quiet, PanelInv
  <1>4. QuietCall(u, r)
    BY <1>2, <1>3 DEF QuietPage, u
  <1>5. panel[u].wait = r
    BY <1>2, <1>4 DEF QuietCall, TradeKinds
  <1>6. req[r].kind = "init" => panel[u].step = "registered" /\ NoBid(u)
    BY <1>3, <1>4 DEF QuietCall, QuietPage
  <1>7. ASSUME req[r].kind = "match"
        PROVE  /\ panel[u].step = "order_er" /\ req[r].ctx.note = Note(u)
               /\ req[r].ctx.slot = panel[u].slot /\ Delegated(u, panel[u].slot)
               /\ req[r].pc \in BeforeRun => Bid(u)
    <2>1. panel[u].step = "order_er" /\ req[r].ctx.slot = panel[u].slot
      BY <1>4, <1>7 DEF QuietCall
    <2>2. req[r].ctx.note = Note(u) /\ Delegated(u, panel[u].slot)
      BY <1>3, <1>5, <1>7, <2>1 DEF Page
    <2>3. req[r].pc \in BeforeRun => Bid(u)
      BY <1>3, <1>5, <2>1 DEF QuietPage
    <2>4. QED
      BY <2>1, <2>2, <2>3
  <1>8. QED
    BY <1>5, <1>6, <1>7 DEF u

LEMMA GotoKeeps ==
  ASSUME Requests, NEW r \in Req, NEW pc, Goto(r, pc)
  PROVE  req'[r].pre = req[r].pre
  <1> DEFINE x == [req[r] EXCEPT !.pc = pc]
  <1>1. req[r] \in Request
    BY RequestTyped
  <1>2. x.pre = req[r].pre
    BY <1>1 DEF Request
  <1>3. req'[r] = x
    BY DEF Goto, Requests
  <1>4. QED
    BY <1>2, <1>3

\* A request goes on.
Kept(r) ==
    /\ req'[r].kind = req[r].kind /\ req'[r].who = req[r].who /\ req'[r].ctx = req[r].ctx
    /\ req'[r].slot = req[r].slot /\ req'[r].seller = req[r].seller
LEMMA GotoMoves ==
  ASSUME TypeInv, NEW r \in Req, NEW pc, Goto(r, pc)
  PROVE  Kept(r) /\ req'[r].pc = pc /\ req'[r].pre = req[r].pre
  BY GotoFact, GotoKeeps DEF TypeInv, Kept

\* The reads of a request.
LEMMA QuietRead ==
  ASSUME TypeInv, NEW r \in Req, QuietChain(r), QuietStage(r), req[r].kind \in TradeKinds,
         ReadMarket(r) \/ EnsureSlot(r) \/ WaitL1(r)
  PROVE  Fits(r)'
  <1>1. UNCHANGED chain
    BY DEF ReadMarket, EnsureSlot, WaitL1
  <1>2. PICK pc : Goto(r, pc)
    BY DEF ReadMarket, EnsureSlot, WaitL1
  <1>3. /\ req'[r].kind = req[r].kind /\ req'[r].who = req[r].who /\ req'[r].ctx = req[r].ctx
        /\ req'[r].slot = req[r].slot /\ req'[r].pre = req[r].pre /\ req'[r].pc = pc
    BY <1>2, GotoMoves DEF Kept
  <1>4. Mine(r)' = Mine(r) /\ OwnMatch(r)' = OwnMatch(r)
    BY <1>1, <1>3 DEF Mine, SlotKey, OwnMatch, OwnId, chain
  <1>5. CASE ReadMarket(r)
    <2>1. req[r].pc = "market" /\ Goto(r, IF market = "l1" THEN "delegate" ELSE IF req[r].kind = "init" THEN "scan" ELSE "fee")
      BY <1>5 DEF ReadMarket, At
    <2>2. req'[r].pc = IF market = "l1" THEN "delegate" ELSE IF req[r].kind = "init" THEN "scan" ELSE "fee"
      BY <2>1, GotoMoves
    <2>3. market \in {"l1", "er"}
      BY <2>1 DEF QuietChain, At, TypeInv, ChainTypes
    <2>4. QED
      BY <1>1, <1>3, <1>4, <2>1, <2>2, <2>3
         DEF Fits, QuietChain, QuietStage, BeforeRun, Resting, At, NoBid, chain, TradeKinds
  <1>6. CASE EnsureSlot(r)
    <2> DEFINE to == IF Mine(r).l1 = "absent" THEN "init"
                     ELSE IF Mine(r).l1 = "owned" THEN "delegateSlot"
                     ELSE IF req[r].kind = "init" THEN "done" ELSE "submit"
    <2>1. req[r].pc = "ensure" /\ Goto(r, to)
      BY <1>6 DEF EnsureSlot, At, Mine
    <2>2. Mine(r).l1 \in {"absent", "owned", "delegated"}
      <3>1. req[r].slot \in SlotIdx /\ SlotKey(r) \in Key
        BY <2>1, RequestTyped, NameFact DEF TypeInv, Stage, TradeKinds, SlotKey
      <3>2. QED
        BY <3>1 DEF Mine, TypeInv, ChainTypes, SlotRecord
    <2>3. req'[r].pc = to
      BY <2>1, GotoMoves
    <2>4. QED
      BY <1>1, <1>3, <1>4, <2>1, <2>2, <2>3
         DEF Fits, QuietChain, QuietStage, BeforeRun, Resting, At, NoBid, chain, TradeKinds
  <1>7. CASE WaitL1(r)
    <2>1. req[r].pc = "wait" /\ Goto(r, "find") /\ batch.l1.runs # req[r].pre
      BY <1>7 DEF WaitL1, At, L1Changed
    <2>2. req'[r].pc = "find"
      BY <2>1, GotoMoves
    <2>3. market = "l1" /\ OwnMatch(r)
      BY <2>1 DEF QuietStage
    <2>4. QED
      BY <1>1, <1>3, <1>4, <2>1, <2>2, <2>3
         DEF Fits, QuietChain, QuietStage, BeforeRun, Resting, At, NoBid, chain, TradeKinds
  <1>8. QED
    BY <1>5, <1>6, <1>7

LEMMA QuietPre ==
  ASSUME TypeInv, NEW r \in Req, QuietChain(r), QuietStage(r), ReadPreBatch(r)
  PROVE  Fits(r)'
  <1> DEFINE x == [req[r] EXCEPT !.pre = batch.l1.runs, !.pc = "run"]
  <1>1. UNCHANGED chain /\ req[r].pc = "pre" /\ req' = [req EXCEPT ![r] = x]
    BY DEF ReadPreBatch, At
  <1>2. req[r] \in Request
    BY RequestTyped DEF TypeInv
  <1>3. /\ x.pc = "run" /\ x.pre = batch.l1.runs /\ x.kind = req[r].kind /\ x.who = req[r].who
        /\ x.ctx = req[r].ctx /\ x.slot = req[r].slot
    BY <1>2 DEF Request
  <1> HIDE DEF x
  <1>4. req'[r] = x
    BY <1>1 DEF TypeInv, Requests
  <1>5. Mine(r)' = Mine(r)
    BY <1>1, <1>3, <1>4 DEF Mine, SlotKey, chain
  <1>6. QED
    BY <1>1, <1>3, <1>4, <1>5
       DEF Fits, QuietChain, QuietStage, BeforeRun, Resting, At, NoBid, chain, OwnId

LEMMA QuietFind ==
  ASSUME TypeInv, NEW r \in Req, QuietChain(r), QuietStage(r), FindMatch(r)
  PROVE  Fits(r)'
  <1>1. UNCHANGED chain /\ req[r].pc = "find" /\ req'[r].pc = "lock"
    BY FindMatchFact DEF TypeInv
  <1>2. QED
    BY <1>1 DEF Fits, QuietChain, QuietStage, BeforeRun, Resting, At, NoBid, chain

\* chooseFreshSlot does not fail: without a bid every slot is reusable.
LEMMA QuietScan ==
  ASSUME TypeInv, PanelInv, Quiet, NEW r \in Req, ScanSlot(r)
  PROVE  Fits(r)'
  <1>0. Requests /\ ChainTypes /\ QuietWorld /\ QuietStage(r)
    BY DEF TypeInv, Quiet
  <1>1. req[r].pc = "scan" /\ ~Ended(r) /\ UNCHANGED chain
    BY DEF ScanSlot, At, Ended
  <1>2. QuietChain(r) /\ req[r].kind \in TradeKinds /\ req[r].slot \in SlotIdx /\ req[r].who \in Trader
    BY <1>0, <1>1, Active
  <1> DEFINE k == SlotKey(r)
             i == req[r].slot
             reuse == IF req[r].reuse = MaxSlots /\ Reusable(k, i) THEN i ELSE req[r].reuse
             pending == req[r].seen \cup IF slot[k][i].status = "Pending" THEN {slot[k][i].order} ELSE {}
  <1>3. NoBid(k) /\ k \in Key
    <2>1. CASE req[r].kind = "init"
      BY <1>1, <1>2, <2>1, ItsPage, NameFact DEF SlotKey
    <2>2. CASE req[r].kind = "match"
      BY <1>1, <1>2, <2>2, NameFact DEF SlotKey, QuietChain, Resting
    <2>3. QED
      BY <1>2, <2>1, <2>2 DEF TradeKinds
  <1>4. Reusable(k, i) /\ reuse # MaxSlots
    <2>1. slot[k][i].status \in {"Empty", "Pending", "Matched", "Expired"} /\ slot[k][i].status # "Pending"
      BY <1>0, <1>2, <1>3 DEF ChainTypes, SlotRecord, NoBid
    <2>2. Reusable(k, i)
      BY <2>1 DEF Reusable
    <2>3. i # MaxSlots
      BY <1>2, DemoAssumption DEF SlotIdx
    <2>4. QED
      BY <2>2, <2>3
  <1>5. req'[r].pc \in {"scan", "ensure"} /\ req'[r].kind = req[r].kind
    <2>1. req[r] \in Request
      BY <1>0, RequestTyped
    <2>2. \/ Goto(r, "ensure")
          \/ req' = [req EXCEPT ![r].slot = i + 1, ![r].reuse = reuse, ![r].seen = pending]
          \/ req' = [req EXCEPT ![r].slot = reuse, ![r].seen = pending,
                                ![r].pc = IF reuse = MaxSlots THEN "failed" ELSE "ensure"]
      BY DEF ScanSlot
    <2> HIDE DEF pending, reuse, i, k
    <2>3. CASE Goto(r, "ensure")
      BY <1>0, <2>3, GotoFact
    <2>4. CASE req' = [req EXCEPT ![r].slot = i + 1, ![r].reuse = reuse, ![r].seen = pending]
      <3> DEFINE x == [req[r] EXCEPT !.slot = i + 1, !.reuse = reuse, !.seen = pending]
      <3>1. x.pc = req[r].pc /\ x.kind = req[r].kind
        BY <2>1 DEF Request
      <3>2. req'[r] = x
        BY <1>0, <2>4 DEF Requests
      <3>3. QED
        BY <1>1, <3>1, <3>2
    <2>5. CASE req' = [req EXCEPT ![r].slot = reuse, ![r].seen = pending,
                                  ![r].pc = IF reuse = MaxSlots THEN "failed" ELSE "ensure"]
      <3> DEFINE x == [req[r] EXCEPT !.slot = reuse, !.seen = pending, !.pc = "ensure"]
      <3>1. x.pc = "ensure" /\ x.kind = req[r].kind
        BY <2>1 DEF Request
      <3>2. req'[r] = x
        BY <1>0, <1>4, <2>5 DEF Requests
      <3>3. QED
        BY <3>1, <3>2
    <2>6. QED
      BY <2>2, <2>3, <2>4, <2>5
  <1>6. QED
    BY <1>0, <1>1, <1>2, <1>5
       DEF Fits, QuietChain, QuietStage, BeforeRun, Resting, At, NoBid, chain

\* The market is delegated and given back.
LEMMA QuietMarket ==
  ASSUME TypeInv, NEW r \in Req, QuietChain(r), QuietStage(r), req[r].kind \in TradeKinds,
         DelegateMarket(r) \/ Undelegate(r)
  PROVE  Fits(r)'
  <1>1. CASE DelegateMarket(r)
    <2> DEFINE to == IF req[r].kind = "init" THEN "scan" ELSE "fee"
    <2>1. /\ req[r].pc = "delegate" /\ market' = "er" /\ UNCHANGED <<slot, vault>> /\ Goto(r, to)
      BY <1>1 DEF DelegateMarket, DelegateMarketTx, At
    <2>2. Kept(r) /\ req'[r].pc = to
      BY <2>1, GotoMoves
    <2>3. QED
      BY <2>1, <2>2
         DEF Fits, QuietChain, QuietStage, BeforeRun, Resting, At, NoBid, TradeKinds, Kept
  <1>2. CASE Undelegate(r)
    <2>1. /\ req[r].pc = "undelegate" /\ market' = "returning" /\ UNCHANGED <<slot, batch, vault>>
          /\ Goto(r, "wait")
      BY <1>2 DEF Undelegate, UndelegateTx, At
    <2>2. Kept(r) /\ req'[r].pc = "wait" /\ req'[r].pre = req[r].pre
      BY <2>1, GotoMoves
    <2>3. OwnMatch(r)'
      BY <2>1, <2>2 DEF QuietStage, OwnMatch, Kept, OwnId
    <2>4. QED
      BY <2>1, <2>2, <2>3
         DEF Fits, QuietChain, QuietStage, BeforeRun, Resting, At, NoBid
  <1>3. QED
    BY <1>1, <1>2

\* The vault's part.
LEMMA QuietVault ==
  ASSUME TypeInv, MatchInv, NEW r \in Req, QuietChain(r), QuietStage(r), req[r].kind \in TradeKinds,
         EnsureZeroProtocolFee(r) \/ MakerDeposit(r) \/ LockNotes(r) \/ Settle(r)
  PROVE  Fits(r)'
  <1>0. vault \in Vault /\ UNCHANGED <<slot, market, batch>>
    BY DEF TypeInv, ChainTypes, EnsureZeroProtocolFee, MakerDeposit, LockNotes, Settle
  <1>1. CASE EnsureZeroProtocolFee(r)
    <2>1. req[r].pc = "fee" /\ vault' = [vault EXCEPT !.fee = FALSE] /\ Goto(r, "deposit")
      BY <1>1 DEF EnsureZeroProtocolFee, At
    <2>2. Kept(r) /\ req'[r].pc = "deposit"
      BY <2>1, GotoMoves
    <2>3. vault'.fee = FALSE /\ vault'.locks = vault.locks
      BY <1>0, <2>1 DEF Vault
    <2>4. QED
      BY <1>0, <2>1, <2>2, <2>3 DEF Fits, QuietChain, QuietStage, BeforeRun, Resting, At, NoBid
  <1>2. CASE MakerDeposit(r)
    <2>1. req[r].pc = "deposit" /\ vault' = Deposited(OwnId(r)) /\ Goto(r, "scan")
      BY <1>2 DEF MakerDeposit, At
    <2>2. Kept(r) /\ req'[r].pc = "scan"
      BY <2>1, GotoMoves
    <2>3. vault'.fee = vault.fee /\ vault'.locks = vault.locks
      BY <1>0, <2>1 DEF Vault, Deposited
    <2>4. QED
      BY <1>0, <2>1, <2>2, <2>3 DEF Fits, QuietChain, QuietStage, BeforeRun, Resting, At, NoBid, Kept
  <1>3. CASE LockNotes(r)
    <2>1. /\ req[r].pc = "lock" /\ Goto(r, "settle")
          /\ vault' = NotesLocked(req[r].ctx.note, req[r].ctx.order, req[r].seller, OwnId(r))
      BY <1>3 DEF LockNotes, At
    <2>2. Kept(r) /\ req'[r].pc = "settle"
      BY <2>1, GotoMoves
    <2>3. req[r].seller = OwnId(r) /\ vault.locks = {}
      BY <2>1 DEF MatchInv, Found, At, QuietChain
    <2>4. vault'.locks = {[note |-> req[r].ctx.note, order |-> req[r].ctx.order],
                          [note |-> OwnId(r), order |-> OwnId(r)]}
      BY <1>0, <2>1, <2>3 DEF Vault, NotesLocked
    <2>5. OwnId(r)' = OwnId(r)
      BY DEF OwnId
    <2>6. QED
      BY <1>0, <2>1, <2>2, <2>4, <2>5
         DEF Fits, QuietChain, QuietStage, BeforeRun, Resting, At, NoBid, Kept
  <1>4. CASE Settle(r)
    <2>1. /\ req[r].pc = "settle" /\ Goto(r, "done")
          /\ vault' = NotesSettled(req[r].ctx.note, req[r].ctx.order, req[r].seller, OwnId(r))
      BY <1>4 DEF Settle, At
    <2>2. Kept(r) /\ req'[r].pc = "done"
      BY <2>1, GotoMoves
    <2>3. req[r].seller = OwnId(r)
      BY <2>1 DEF MatchInv, Found, At
    <2>4. \A l \in vault.locks : l.note \in {req[r].ctx.note, OwnId(r)}
      BY <2>1 DEF QuietStage
    <2>5. vault'.locks = {}
      BY <1>0, <2>1, <2>3, <2>4 DEF Vault, NotesSettled
    <2>6. QED
      BY <1>0, <2>1, <2>2, <2>5 DEF Fits, QuietChain, QuietStage, BeforeRun, Resting, At, NoBid
  <1>5. QED
    BY <1>1, <1>2, <1>3, <1>4

\* The maker's slot and order.
LEMMA QuietSlot ==
  ASSUME TypeInv, NEW r \in Req, QuietChain(r), QuietStage(r), req[r].kind \in TradeKinds,
         req[r].who \in Trader, InitSlot(r) \/ DelegateSlot(r) \/ MakerSubmit(r)
  PROVE  Fits(r)'
  <1>0. SlotTypes /\ SlotKey(r) \in Key /\ Maker \in Key /\ UNCHANGED <<market, batch, vault>>
    BY NameFact DEF TypeInv, ChainTypes, SlotTypes, SlotKey, InitSlot, DelegateSlot, MakerSubmit
  <1>1. CASE InitSlot(r)
    <2>1. /\ req[r].pc = "init" /\ req[r].slot \in SlotIdx /\ slot[SlotKey(r)][req[r].slot].l1 # "delegated"
          /\ slot' = SlotInitialized(SlotKey(r), req[r].slot) /\ Goto(r, "ensure")
      BY <1>1 DEF InitSlot, CanInitSlot, At
    <2>2. SameOrders
      BY <1>0, <2>1, SlotMoves
    <2>3. Kept(r) /\ req'[r].pc = "ensure"
      BY <2>1, GotoMoves
    <2>4. NoBid(Maker)'
      BY <1>0, <2>1, <2>2 DEF SameOrders, NoBid, QuietChain, Resting
    <2>5. QED
      BY <1>0, <2>1, <2>3, <2>4 DEF Fits, QuietChain, QuietStage, BeforeRun, Resting, At, Kept
  <1>2. CASE DelegateSlot(r)
    <2> DEFINE to == IF req[r].kind = "init" THEN "done" ELSE "submit"
    <2>1. /\ req[r].pc = "delegateSlot" /\ req[r].slot \in SlotIdx
          /\ slot' = SlotDelegated(SlotKey(r), req[r].slot) /\ Goto(r, to)
      BY <1>2 DEF DelegateSlot, CanDelegateSlot, At
    <2>2. SameOrders /\ slot'[SlotKey(r)][req[r].slot].l1 = "delegated"
      BY <1>0, <2>1, SlotMoves
    <2>3. Kept(r) /\ req'[r].pc = to
      BY <2>1, GotoMoves
    <2>4. NoBid(Maker)'
      BY <1>0, <2>1, <2>2 DEF SameOrders, NoBid, QuietChain, Resting
    <2>5. Mine(r)'.l1 = "delegated"
      BY <2>2, <2>3 DEF Mine, SlotKey, Kept
    <2>6. QED
      BY <1>0, <2>1, <2>3, <2>4, <2>5
         DEF Fits, QuietChain, QuietStage, BeforeRun, Resting, At, Kept, TradeKinds
  <1>3. CASE MakerSubmit(r)
    <2>1. /\ req[r].kind = "match" /\ req[r].pc = "submit" /\ req[r].slot \in SlotIdx /\ Goto(r, "pre")
          /\ StillDelegated
          /\ slot'[Maker][req[r].slot].status = "Pending" /\ slot'[Maker][req[r].slot].note = <<Maker, r>>
          /\ \A j \in SlotIdx : j # req[r].slot => slot'[Maker][j] = slot[Maker][j]
      BY <1>0, <1>3, MakerSubmitFact DEF MakerSubmit
    <2>2. Kept(r) /\ req'[r].pc = "pre"
      BY <2>1, GotoMoves
    <2>3. NoBid(Maker) /\ slot[Maker][req[r].slot].l1 = "delegated"
      BY <2>1 DEF QuietChain, QuietStage, Resting, Mine, SlotKey
    <2>4. Mine(r)' = slot'[Maker][req[r].slot] /\ OwnId(r)' = <<Maker, r>>
      BY <2>1, <2>2 DEF Mine, SlotKey, Kept, OwnId
    <2>5. slot'[Maker][req[r].slot].l1 = "delegated"
      BY <1>0, <2>1, <2>3 DEF StillDelegated
    <2>6. \A i \in SlotIdx : i # req'[r].slot => slot'[Maker][i].status # "Pending"
      BY <2>1, <2>2, <2>3 DEF NoBid, Kept
    <2>7. QED
      BY <1>0, <2>1, <2>2, <2>4, <2>5, <2>6
         DEF Fits, QuietChain, QuietStage, BeforeRun, Resting, At, Kept
  <1>4. QED
    BY <1>1, <1>2, <1>3

\* run_batch wipes the orders it matches.
LEMMA Wipes ==
  ASSUME ChainTypes, NEW u \in Key, NEW m \in Key, NEW i, NEW j, RunBatchTx(u, i, m, j),
         Crossed(u, i, m, j), late = {}
  PROVE  slot'[m][j].status = "Matched" /\ j \in SlotIdx
  <1>1. j \in SlotIdx
    BY DEF RunBatchTx, CanRunBatch
  <1>2. <<m, j>> \in Book(u, i, m, j)
    BY DEF Crossed
  <1>3. slot[m][j].status = "Pending"
    BY <1>2 DEF Book
  <1> DEFINE wiped == [EmptySlot EXCEPT !.l1 = slot[m][j].l1, !.status = "Matched"]
  <1>4. slot'[m][j] = wiped
    BY <1>1, <1>3 DEF RunBatchTx
  <1>5. wiped.status = "Matched"
    BY DEF EmptySlot
  <1>6. QED
    BY <1>1, <1>4, <1>5

\* The bid and the maker's order cross.
LEMMA QuietCross ==
  ASSUME TypeInv, PanelInv, Quiet, NEW r \in Req, At(r, "run")
  PROVE  LET u == req[r].who
         IN /\ req[r].kind = "match" /\ u \in Trader /\ u \in Key /\ req[r].slot \in SlotIdx
            /\ Crossed(u, req[r].ctx.slot, Maker, req[r].slot)
            /\ CanRunBatch(u, req[r].ctx.slot, Maker, req[r].slot)
            /\ slot[u][req[r].ctx.slot].note = req[r].ctx.note
            /\ slot[Maker][req[r].slot].note = OwnId(r) /\ ~vault.fee
            /\ QuietStage(r) /\ QuietChain(r)
  <1> DEFINE u == req[r].who
             i == req[r].ctx.slot
             j == req[r].slot
  <1>0. QuietWorld /\ ~Ended(r) /\ QuietStage(r) /\ req[r].pc = "run" /\ late = {} /\ budget.inBand
    BY DEF Quiet, QuietWorld, At, Ended
  <1>1. req[r].kind = "match" /\ u \in Trader /\ u \in Key /\ j \in SlotIdx /\ QuietChain(r)
    BY <1>0, Active, RequestTyped, NameFact DEF TypeInv, Stage, Ends, TradeKinds
  <1>2. Bid(u) /\ i = panel[u].slot /\ Delegated(u, i) /\ req[r].ctx.note = Note(u)
    BY <1>0, <1>1, ItsPage DEF BeforeRun
  <1>3. /\ slot[u][i].status = "Pending" /\ slot[u][i].note = req[r].ctx.note
        /\ i \in SlotIdx /\ slot[u][i].l1 = "delegated"
    BY <1>2 DEF Bid, Delegated
  <1>4. /\ slot[Maker][j].status = "Pending" /\ slot[Maker][j].note = OwnId(r)
        /\ slot[Maker][j].l1 = "delegated" /\ ~vault.fee /\ market = "er"
    BY <1>0, <1>1 DEF QuietStage, Mine, SlotKey, Resting, BeforeRun
  <1>5. Crossed(u, i, Maker, j)
    BY <1>0, <1>3, <1>4 DEF Crossed, Book
  <1>6. CanRunBatch(u, i, Maker, j)
    BY <1>1, <1>3, <1>4 DEF CanRunBatch
  <1>7. QED
    BY <1>0, <1>1, <1>3, <1>4, <1>5, <1>6

LEMMA QuietRun ==
  ASSUME TypeInv, PanelInv, Quiet, NEW r \in Req, RunBatch(r)
  PROVE  Fits(r)'
  <1> DEFINE u == req[r].who
             i == req[r].ctx.slot
             j == req[r].slot
             match == MatchOf(u, i, Maker, j)
  <1>0. /\ At(r, "run") /\ RunBatchTx(u, i, Maker, j) /\ Goto(r, "undelegate")
        /\ UNCHANGED <<market, vault, late>>
    BY DEF RunBatch
  <1>1. /\ req[r].kind = "match" /\ u \in Trader /\ u \in Key /\ j \in SlotIdx
        /\ Crossed(u, i, Maker, j) /\ slot[u][i].note = req[r].ctx.note
        /\ slot[Maker][j].note = OwnId(r) /\ ~vault.fee /\ QuietStage(r) /\ QuietChain(r)
    BY <1>0, QuietCross
  <1>2. ChainTypes /\ late = {} /\ Maker \in Key /\ u # Maker
    BY <1>1, NameFact, DemoAssumption DEF TypeInv, Quiet, QuietWorld
  <1>3. Kept(r) /\ req'[r].pc = "undelegate" /\ req'[r].pre = req[r].pre
    BY <1>0, GotoMoves
  <1>4. match.buyer = req[r].ctx.note /\ match.seller = OwnId(r) /\ ~match.fee
    BY <1>1 DEF MatchOf
  <1> HIDE DEF match, u, i, j
  <1>5. /\ batch'.l1 = batch.l1 /\ batch'.er.log = batch.er.log \cup {match}
        /\ \A n \in SlotIdx :
               \/ slot'[Maker][n] = slot[Maker][n]
               \/ <<Maker, n>> \in {<<u, i>>, <<Maker, j>>} /\ Marked(Maker, n)
               \/ <<Maker, n>> \in {<<u, i>>, <<Maker, j>>} /\ Wiped(Maker, n)
    BY <1>0, <1>1, <1>2, RunBatchFact DEF match
  <1>6. NoBid(Maker)'
    <2>1. slot'[Maker][j].status = "Matched"
      BY <1>0, <1>1, <1>2, Wipes
    <2>2. \A n \in SlotIdx : n # j => slot[Maker][n].status # "Pending"
      BY <1>0, <1>1 DEF QuietStage, At, Resting, j
    <2>3. \A n \in SlotIdx : n # j => slot'[Maker][n].status # "Pending"
      BY <1>5, <2>2 DEF Marked, Wiped
    <2>4. QED
      BY <2>1, <2>3 DEF NoBid
  <1>7. OwnMatch(r)'
    BY <1>3, <1>4, <1>5 DEF OwnMatch, Kept, OwnId
  <1>8. QED
    BY <1>0, <1>1, <1>3, <1>5, <1>6, <1>7
       DEF Fits, QuietChain, QuietStage, BeforeRun, Resting, At, Kept

\* Nothing that a request has locked was consumed before.
LEMMA QuietUnspent ==
  ASSUME TypeInv, PanelInv, Quiet, NEW r \in Req, At(r, "settle")
  PROVE  ~Consumed(req[r].ctx.note) /\ ~Consumed(OwnId(r))
  <1>0. QuietWorld /\ ~Ended(r) /\ req[r].pc = "settle"
    BY DEF Quiet, At, Ended
  <1>1. req[r].kind = "match" /\ req[r].who \in Trader /\ req[r].ctx.note[1] = req[r].who
    BY <1>0, Active, RequestTyped DEF TypeInv, Stage, Ends, TradeKinds
  <1>2. panel[req[r].who].wait = r /\ panel[req[r].who].step = "order_er"
    BY <1>0, <1>1, ItsPage
  <1>3. ASSUME NEW s \in vault.settled
        PROVE  s.buyer # req[r].ctx.note /\ s.seller # req[r].ctx.note
               /\ s.buyer # OwnId(r) /\ s.seller # OwnId(r)
    <2>1. PICK q \in Req : /\ req[q].kind = "match" /\ req[q].pc = "done"
                           /\ s.buyer = req[q].ctx.note /\ s.seller = OwnId(q)
      BY <1>0, <1>3 DEF QuietWorld, Settlers, At
    <2>2. q # r
      BY <1>0, <2>1
    <2>3. req[q].who \in Trader /\ req[q].ctx.note[1] = req[q].who
      BY <2>1, RequestTyped DEF TypeInv, Stage, TradeKinds
    <2>4. req[q].who # req[r].who
      <3>1. ASSUME req[q].who = req[r].who  PROVE FALSE
        <4>1. QuietCall(req[r].who, q)
          BY <1>1, <2>1, <3>1 DEF Quiet, QuietPage, TradeKinds
        <4>2. QED
          BY <1>2, <2>1, <2>2, <4>1 DEF QuietCall
      <3>2. QED
        BY <3>1
    <2>5. OwnId(r)[1] = Maker /\ OwnId(q)[1] = Maker /\ OwnId(r)[2] = r /\ OwnId(q)[2] = q
      BY DEF OwnId
    <2>6. Maker \notin Trader
      BY DemoAssumption
    <2>7. QED
      BY <1>1, <2>1, <2>2, <2>3, <2>4, <2>5, <2>6
  <1>4. QED
    BY <1>3 DEF Consumed

\* Nothing refuses a step of the request that runs.
LEMMA QuietNotRefused ==
  ASSUME TypeInv, MatchInv, PanelInv, Quiet, NEW r \in Req
  PROVE  ~Refused(r)
  <1> SUFFICES ASSUME Refused(r)  PROVE FALSE
    OBVIOUS
  <1>0. QuietWorld /\ QuietStage(r) /\ ~Ended(r)
    BY DEF Quiet, Refused, At, Ended
  <1>1. QuietChain(r) /\ req[r].kind \in TradeKinds /\ req[r].slot \in SlotIdx
    BY <1>0, Active
  <1>2. ~(At(r, "delegate") /\ market # "l1") /\ ~(At(r, "undelegate") /\ market # "er")
    BY <1>0 DEF At, QuietStage
  <1>3. ~(At(r, "init") /\ ~CanInitSlot(SlotKey(r), req[r].slot))
    BY <1>0, <1>1 DEF At, QuietStage, CanInitSlot, Mine
  <1>4. ~(At(r, "delegateSlot") /\ ~CanDelegateSlot(SlotKey(r), req[r].slot))
    BY <1>0, <1>1 DEF At, QuietStage, CanDelegateSlot, Mine
  <1>5. ~(At(r, "submit") /\ ~CanSubmit(Maker, req[r].slot))
    <2>1. SUFFICES ASSUME At(r, "submit")  PROVE CanSubmit(Maker, req[r].slot)
      OBVIOUS
    <2>2. req[r].kind = "match"
      BY <1>1, <2>1, RequestTyped DEF TypeInv, Stage, At, Ends, TradeKinds
    <2>3. slot[Maker][req[r].slot].l1 = "delegated" /\ slot[Maker][req[r].slot].status # "Pending"
      BY <1>0, <1>1, <2>1, <2>2 DEF QuietStage, QuietChain, NoBid, Mine, SlotKey, At, Resting
    <2>4. slot[Maker][req[r].slot].status \in {"Empty", "Pending", "Matched", "Expired"}
      <3>1. slot \in [Key -> [SlotIdx -> SlotRecord]] /\ Maker \in Key
        BY NameFact DEF TypeInv, ChainTypes
      <3>2. slot[Maker][req[r].slot] \in SlotRecord
        BY ONLY <1>1, <3>1
      <3>3. QED
        BY ONLY <3>2 DEF SlotRecord
    <2>5. QED
      BY <1>1, <2>3, <2>4 DEF CanSubmit
  <1>6. ~(At(r, "run") /\ ~CanRunBatch(req[r].who, req[r].ctx.slot, Maker, req[r].slot))
    BY QuietCross
  <1>7. ~(At(r, "find") /\ \A m \in ThisRunsMatch(r) : m.fee)
    <2>1. SUFFICES ASSUME At(r, "find")  PROVE \E m \in ThisRunsMatch(r) : ~m.fee
      OBVIOUS
    <2>2. market = "l1" /\ OwnMatch(r)
      BY <1>0, <2>1 DEF QuietStage, At
    <2>3. batch.er = batch.l1
      BY <2>2 DEF TypeInv, ChainTypes
    <2>4. QED
      BY <2>2, <2>3 DEF OwnMatch, ThisRunsMatch
  <1>8. ~(At(r, "lock") /\ ~CanLock(req[r].ctx.note, req[r].ctx.order, req[r].seller, OwnId(r)))
    BY <1>0, <1>1 DEF At, QuietChain, QuietWorld, CanLock, Locked
  <1>9. ~(At(r, "settle") /\ ~CanSettle(req[r].ctx.note, req[r].ctx.order, req[r].seller, OwnId(r)))
    <2>1. SUFFICES ASSUME At(r, "settle")
                   PROVE  CanSettle(req[r].ctx.note, req[r].ctx.order, req[r].seller, OwnId(r))
      OBVIOUS
    <2>2. req[r].seller = OwnId(r)
      BY <2>1 DEF MatchInv, Found
    <2>3. HoldsLock(req[r].ctx.note, req[r].ctx.order) /\ HoldsLock(OwnId(r), OwnId(r))
      BY <1>0, <2>1 DEF QuietStage, At, HoldsLock
    <2>4. QED
      BY <2>1, <2>2, <2>3, QuietUnspent DEF CanSettle
  <1>10. QED
    BY <1>2, <1>3, <1>4, <1>5, <1>6, <1>7, <1>8, <1>9 DEF Refused

\* What a step of a request leaves alone.
LEMMA TradeFrame ==
  ASSUME TypeInv, NEW r \in Req, TradeStep(r)
  PROVE  /\ ~Ended(r) /\ UNCHANGED <<late, budget>> /\ \A q \in Req : q # r => req'[q] = req[q]
         /\ req'[r].kind = req[r].kind /\ req'[r].who = req[r].who /\ req'[r].ctx = req[r].ctx
  <1>0. Requests /\ ChainTypes
    BY DEF TypeInv
  <1>1. CASE ScanSlot(r) \/ FindMatch(r)
    <2>1. ~Ended(r) /\ UNCHANGED <<late, budget>>
      BY <1>1 DEF ScanSlot, FindMatch, Ended, At, chain
    <2>2. QED
      BY <1>0, <1>1, <2>1, ScanSlotFact, FindMatchFact
  <1>2. CASE ReadPreBatch(r)
    <2> DEFINE x == [req[r] EXCEPT !.pre = batch.l1.runs, !.pc = "run"]
    <2>1. ~Ended(r) /\ UNCHANGED <<late, budget>> /\ req' = [req EXCEPT ![r] = x]
      BY <1>2 DEF ReadPreBatch, Ended, At, chain
    <2>2. x.kind = req[r].kind /\ x.who = req[r].who /\ x.ctx = req[r].ctx
      BY <1>0, RequestTyped DEF Request
    <2> HIDE DEF x
    <2>3. req'[r] = x /\ \A q \in Req : q # r => req'[q] = req[q]
      BY <1>0, <2>1 DEF Requests
    <2>4. QED
      BY <2>1, <2>2, <2>3
  <1>3. CASE ~(ScanSlot(r) \/ FindMatch(r) \/ ReadPreBatch(r))
    <2>1. ~Ended(r) /\ UNCHANGED <<late, budget>> /\ \E pc : Goto(r, pc)
      BY <1>3 DEF TradeStep, ReadMarket, DelegateMarket, EnsureZeroProtocolFee, MakerDeposit, EnsureSlot,
                  InitSlot, DelegateSlot, MakerSubmit, RunBatch, Undelegate, WaitL1, LockNotes, Settle,
                  Refused, Fails, chain, Ended, At
    <2>2. QED
      BY <1>0, <2>1, GotoFact
  <1>4. QED
    BY <1>1, <1>2, <1>3

LEMMA TradeFits ==
  ASSUME TypeInv, MatchInv, PanelInv, Quiet, NEW r \in Req, TradeStep(r)
  PROVE  Fits(r)'
  <1>0. QuietWorld /\ QuietStage(r) /\ ~Ended(r)
    BY TradeFrame DEF Quiet
  <1>1. QuietChain(r) /\ req[r].kind \in TradeKinds /\ req[r].who \in Trader
    BY <1>0, Active
  <1>2. CASE ReadMarket(r) \/ EnsureSlot(r) \/ WaitL1(r)
    BY <1>0, <1>1, <1>2, QuietRead
  <1>3. CASE DelegateMarket(r) \/ Undelegate(r)
    BY <1>0, <1>1, <1>3, QuietMarket
  <1>4. CASE EnsureZeroProtocolFee(r) \/ MakerDeposit(r) \/ LockNotes(r) \/ Settle(r)
    BY <1>0, <1>1, <1>4, QuietVault
  <1>5. CASE InitSlot(r) \/ DelegateSlot(r) \/ MakerSubmit(r)
    BY <1>0, <1>1, <1>5, QuietSlot
  <1>6. CASE ScanSlot(r) \/ ReadPreBatch(r) \/ RunBatch(r) \/ FindMatch(r)
    BY <1>0, <1>1, <1>6, QuietScan, QuietPre, QuietRun, QuietFind
  <1>7. QED
    BY <1>2, <1>3, <1>4, <1>5, <1>6, QuietNotRefused DEF TradeStep

\* What is settled is what match requests have done.
LEMMA SettlersStep ==
  ASSUME TypeInv, MatchInv, Quiet, NEW r \in Req, TradeStep(r), UNCHANGED file
  PROVE  Settlers'
  <1>0. Settlers /\ ~Ended(r) /\ \A q \in Req : q # r => req'[q] = req[q]
    BY TradeFrame DEF Quiet, QuietWorld
  <1>1. ASSUME NEW s \in vault.settled
        PROVE  \E q \in Req : /\ req'[q].kind = "match" /\ req'[q].pc = "done"
                              /\ s.buyer = req'[q].ctx.note /\ s.seller = OwnId(q)
    BY <1>0 DEF Settlers, Ended, At
  <1>2. CASE Settle(r)
    <2> DEFINE s == [buyer |-> req[r].ctx.note, buyOrder |-> req[r].ctx.order,
                     seller |-> req[r].seller, sellOrder |-> <<Maker, r>>]
    <2>1. /\ req[r].pc = "settle" /\ req[r].kind = "match" /\ req'[r].pc = "done"
          /\ vault'.settled = vault.settled \cup {s}
      BY <1>2, SettleFact
    <2>2. s.buyer = req[r].ctx.note /\ s.seller = req[r].seller
      OBVIOUS
    <2> HIDE DEF s
    <2>3. req[r].seller = OwnId(r)
      BY <2>1 DEF MatchInv, Found, At
    <2>4. req'[r].kind = "match" /\ req'[r].ctx = req[r].ctx
      BY <2>1, TradeFrame
    <2>5. \A t \in vault'.settled :
             \E q \in Req : /\ req'[q].kind = "match" /\ req'[q].pc = "done"
                            /\ t.buyer = req'[q].ctx.note /\ t.seller = OwnId(q)
      BY <1>1, <2>1, <2>2, <2>3, <2>4
    <2>6. QED
      BY <2>5 DEF Settlers, At, OwnId
  <1>3. CASE ~Settle(r)
    <2>1. vault'.settled = vault.settled
      <3>1. CASE Calm
        BY <3>1 DEF Calm
      <3>2. CASE MakerSubmit(r) \/ RunBatch(r)
        BY <3>2 DEF MakerSubmit, RunBatch
      <3>3. ~LiveSubmit(r) /\ ~LiveRunBatch(r)
        <4>1. req[r].kind \in TradeKinds
          BY <1>0, Active DEF Quiet
        <4>2. QED
          BY <4>1, LiveStages DEF LiveSubmit, LiveRunBatch, Live, TradeKinds, TypeInv
      <3>4. QED
        BY <1>3, <3>1, <3>2, <3>3, TradeCalm DEF Orderly
    <2>2. QED
      BY <1>1, <2>1 DEF Settlers, At, OwnId
  <1>4. QED
    BY <1>2, <1>3

\* The page of a trader, when neither it nor its orders change.
Unbid(u) ==
    /\ \A i \in SlotIdx : slot'[u][i].status = slot[u][i].status /\ slot'[u][i].note = slot[u][i].note
    /\ FlightsOf(u)' = FlightsOf(u)
Uncalled(u) == \A r \in Req : req'[r] = req[r] \/ (req'[r].who # u /\ panel[u].wait # r)
LEMMA PageRests ==
  ASSUME TypeInv, PanelInv, NEW u \in Trader, QuietPage(u), panel'[u] = panel[u], Unbid(u), Uncalled(u)
  PROVE  QuietPage(u)'
  <1>1. NoBid(u)' <=> NoBid(u)
    BY DEF NoBid, Unbid
  <1>2. ASSUME panel[u].step \in {"deposited", "order_er"}  PROVE Bid(u)' <=> Bid(u)
    <2>1. panel[u].slot \in SlotIdx
      BY <1>2 DEF PanelInv, Page, Delegated
    <2>2. QED
      BY <2>1 DEF Bid, Unbid, Note
  <1>3. panel[u].wait = AwaitsTx => panel[u].step = "deposited"
    BY DEF PanelInv, Page
  <1>4. BuiltOrder(u, panel[u].order)' = BuiltOrder(u, panel[u].order)
    BY DEF BuiltOrder, Note
  <1>5. ASSUME NEW r \in Req, req'[r].kind \in TradeKinds, req'[r].who = u  PROVE QuietCall(u, r)'
    <2>1. req'[r] = req[r]
      BY <1>5 DEF Uncalled
    <2>2. QuietCall(u, r)
      BY <1>5, <2>1 DEF QuietPage
    <2>3. QED
      BY <2>1, <2>2 DEF QuietCall, Ended
  <1>6. panel[u].wait \in Req => req'[panel[u].wait] = req[panel[u].wait]
    BY DEF Uncalled
  <1>7. /\ panel[u].step \in {"idle", "registered", "slot_ready"} \/ Shows(u, "deposited")
              => NoBid(u) /\ FlightsOf(u) = {}
        /\ panel[u].wait = AwaitsTx => \/ FlightsOf(u) = {} /\ Bid(u)
                                       \/ FlightsOf(u) = {BuiltOrder(u, panel[u].order)} /\ NoBid(u)
        /\ panel[u].step = "order_er" =>
              /\ FlightsOf(u) = {}
              /\ Bid(u) \/ (panel[u].wait \in Req /\ req[panel[u].wait].pc \notin BeforeRun)
    BY DEF QuietPage
  <1>8. FlightsOf(u)' = FlightsOf(u)
    BY DEF Unbid
  <1>9. Shows(u, "deposited")' = Shows(u, "deposited")
    BY DEF Shows
  <1>10. QED
    BY <1>1, <1>2, <1>3, <1>4, <1>5, <1>6, <1>7, <1>8, <1>9 DEF QuietPage

\* The pages, when a request moves on.
LEMMA TradePages ==
  ASSUME TypeInv, PanelInv, Quiet, NEW r \in Req, TradeStep(r), UNCHANGED <<panel, flight, file>>,
         NEW u \in Trader
  PROVE  QuietPage(u)'
  <1>0. /\ QuietWorld /\ QuietPage(u) /\ Page(u) /\ ~Ended(r)
        /\ \A q \in Req : q # r => req'[q] = req[q]
        /\ req'[r].kind = req[r].kind /\ req'[r].who = req[r].who /\ req'[r].ctx = req[r].ctx
    BY TradeFrame DEF Quiet, PanelInv
  <1>1. req[r].kind \in TradeKinds /\ req[r].who \in Trader
    BY <1>0, Active
  <1>2. FlightsOf(u)' = FlightsOf(u) /\ u \in Key /\ u # Maker
    BY NameFact, DemoAssumption DEF FlightsOf
  <1>3. ASSUME ~(RunBatch(r) /\ u = req[r].who)  PROVE Unbid(u)
    <2>1. CASE Calm
      BY <1>2, <2>1 DEF Calm, SameOrders, Unbid
    <2>2. CASE MakerSubmit(r)
      <3>1. \A h \in Key, j \in SlotIdx : h # Maker \/ j # req[r].slot => slot'[h][j] = slot[h][j]
        BY <2>2, MakerSubmitFact
      <3>2. QED
        BY <1>2, <3>1 DEF Unbid
    <2>3. CASE RunBatch(r)
      <3>1. RunBatchTx(req[r].who, req[r].ctx.slot, Maker, req[r].slot) /\ req[r].who \in Key /\ Maker \in Key
        BY <1>1, <2>3, NameFact DEF RunBatch
      <3>2. \A n \in SlotIdx :
               slot'[u][n] = slot[u][n] \/ <<u, n>> \in {<<req[r].who, req[r].ctx.slot>>, <<Maker, req[r].slot>>}
        BY <1>2, <3>1, RunBatchFact DEF TypeInv
      <3>3. \A n \in SlotIdx : slot'[u][n] = slot[u][n]
        BY <1>2, <1>3, <2>3, <3>2
      <3>4. QED
        BY <1>2, <3>3 DEF Unbid
    <2>4. CASE Settle(r)
      BY <1>2, <2>4 DEF Settle, Unbid
    <2>5. ~LiveSubmit(r) /\ ~LiveRunBatch(r)
      BY <1>1, LiveStages DEF LiveSubmit, LiveRunBatch, Live, TradeKinds, TypeInv
    <2>6. QED
      BY <2>1, <2>2, <2>3, <2>4, <2>5, TradeCalm DEF Orderly
  <1>4. CASE u # req[r].who
    <2>1. panel[u].wait # r
      BY <1>0, <1>4 DEF Page
    <2>2. Uncalled(u)
      BY <1>0, <1>4, <2>1 DEF Uncalled
    <2>3. QED
      BY <1>0, <1>3, <1>4, <2>2, PageRests
  <1>5. CASE u = req[r].who
    <2>1. /\ panel[u].wait = r
          /\ req[r].kind = "init" => panel[u].step = "registered" /\ NoBid(u)
          /\ req[r].kind = "match" => /\ panel[u].step = "order_er" /\ req[r].ctx.slot = panel[u].slot
                                      /\ Delegated(u, panel[u].slot)
                                      /\ req[r].pc \in BeforeRun => Bid(u)
      BY <1>0, <1>5, ItsPage
    <2>2. panel[u].wait # AwaitsTx /\ panel[u].wait # 0
      BY <2>1, DemoAssumption DEF AwaitsTx, Req
    <2>3. ASSUME NEW q \in Req, req'[q].kind \in TradeKinds, req'[q].who = u  PROVE QuietCall(u, q)'
      <3>1. CASE q = r
        BY <1>0, <2>1, <3>1 DEF QuietCall
      <3>2. CASE q # r
        <4>1. req'[q] = req[q]
          BY <1>0, <3>2
        <4>2. QuietCall(u, q)
          BY <1>0, <2>3, <4>1 DEF QuietPage
        <4>3. QED
          BY <4>1, <4>2 DEF QuietCall, Ended
      <3>3. QED
        BY <3>1, <3>2
    <2>4. CASE req[r].kind = "init"
      <3>1. req[r].pc # "run"
        BY <2>4, RequestTyped DEF TypeInv, Stage, Ends
      <3>2. ~RunBatch(r)
        BY <3>1 DEF RunBatch, At
      <3>3. NoBid(u)' /\ FlightsOf(u)' = {}
        BY <1>0, <1>3, <2>1, <2>4, <3>2 DEF Unbid, NoBid, QuietPage
      <3>4. QED
        BY <2>1, <2>2, <2>3, <2>4, <3>3 DEF QuietPage
    <2>5. CASE req[r].kind = "match"
      <3>1. FlightsOf(u)' = {} /\ panel[u].step = "order_er"
        BY <1>0, <1>2, <2>1, <2>5 DEF QuietPage
      <3>2. Bid(u)' \/ req'[r].pc \notin BeforeRun
        <4>1. CASE RunBatch(r)
          <5>1. req'[r].pc = "undelegate"
            BY <4>1, GotoMoves DEF RunBatch
          <5>2. QED
            BY <5>1 DEF BeforeRun
        <4>2. CASE ~RunBatch(r) /\ req[r].pc \in BeforeRun
          <5>1. Bid(u) /\ panel[u].slot \in SlotIdx
            BY <2>1, <2>5, <4>2 DEF Delegated
          <5>2. QED
            BY <1>3, <4>2, <5>1 DEF Bid, Unbid, Note
        <4>3. CASE req[r].pc \notin BeforeRun
          <5>1. Stage(req[r]) /\ Evolves(r)
            BY RequestTyped, TradeEvolves DEF TypeInv
          <5>2. req[r].pc \in Ran /\ req[r].pc # "free"
            BY <1>0, <2>5, <4>3, <5>1 DEF Stage, Ran, BeforeRun, Ends, Ended
          <5>3. req'[r].pc \in Ran
            BY <2>5, <5>1, <5>2 DEF Evolves, Goes, SameSearch
          <5>4. QED
            BY <5>3 DEF Ran, BeforeRun
        <4>4. QED
          BY <4>1, <4>2, <4>3
      <3>3. QED
        BY <2>1, <2>2, <2>3, <3>1, <3>2 DEF QuietPage, Shows
    <2>6. QED
      BY <1>1, <2>4, <2>5 DEF TradeKinds
  <1>6. QED
    BY <1>4, <1>5

LEMMA TradeQuiet ==
  ASSUME TypeInv, MatchInv, PanelInv, Quiet, NEW r \in Req, TradeStep(r),
         UNCHANGED <<panel, flight, file>>
  PROVE  Quiet'
  <1>0. /\ QuietWorld /\ ~Ended(r) /\ UNCHANGED <<late, budget>>
        /\ \A q \in Req : q # r => req'[q] = req[q]
        /\ req'[r].kind = req[r].kind
    BY TradeFrame DEF Quiet
  <1>1. Fits(r)' /\ Settlers'
    BY TradeFits, SettlersStep
  <1>2. \A q \in Req : q # r => Ended(q) /\ Ended(q)'
    <2>1. \A q \in Req : q # r => Ended(q)
      BY <1>0, Active
    <2>2. QED
      BY <1>0, <2>1 DEF Ended
  <1>3. \A q \in Req : QuietStage(q)'
    <2>1. ASSUME NEW q \in Req, Ended(q)'  PROVE QuietStage(q)'
      BY <2>1 DEF Ended, QuietStage, BeforeRun, Resting
    <2>2. QED
      BY <1>1, <1>2, <2>1 DEF Fits
  <1>4. QuietWorld'
    <2>1. \A q \in Req : req'[q].kind \notin LiveKinds /\ req'[q].pc # "failed"
      BY <1>0, <1>1 DEF QuietWorld, Fits, At
    <2>2. \A q, s \in Req : ~Ended(q)' /\ ~Ended(s)' => q = s
      BY <1>2
    <2>3. QED
      BY <1>0, <1>1, <2>1, <2>2 DEF QuietWorld, Fits, QuietChain, At
  <1>5. \A u \in Trader : QuietPage(u)'
    BY TradePages
  <1>6. QED
    BY <1>3, <1>4, <1>5 DEF Quiet

-----------------------------------------------------------------------------
\* The steps of the panels, the rollup and the commit.

\* Nothing changes that a request depends on.
Undisturbed ==
    /\ UNCHANGED <<slot, market, batch, late, req>> /\ budget'.faults = budget.faults
    /\ budget'.live = budget.live /\ budget'.inBand = budget.inBand
    /\ vault'.fee = vault.fee /\ vault'.locks = vault.locks /\ vault'.settled = vault.settled
LEMMA WorldRests ==
  ASSUME Quiet, Undisturbed
  PROVE  QuietWorld' /\ \A r \in Req : QuietStage(r)'
  <1>1. QuietWorld /\ \A r \in Req : QuietStage(r)
    BY DEF Quiet
  <1>2. QuietWorld'
    BY <1>1 DEF QuietWorld, Undisturbed, At, Ended, NoBid, Settlers, OwnId
  <1>3. ASSUME NEW r \in Req  PROVE QuietStage(r)'
    <2>1. Mine(r)' = Mine(r) /\ OwnMatch(r)' = OwnMatch(r) /\ OwnId(r)' = OwnId(r)
      BY DEF Mine, SlotKey, OwnMatch, OwnId, Undisturbed
    <2>2. QED
      BY <1>1, <2>1 DEF QuietStage, Undisturbed
  <1>4. QED
    BY <1>2, <1>3

\* The pages of the others.
LEMMA OtherPages ==
  ASSUME TypeInv, PanelInv, Quiet, NEW u \in Trader, NEW v \in Trader, v # u,
         UNCHANGED <<slot, req>>, panel'[v] = panel[v], FlightsOf(v)' = FlightsOf(v)
  PROVE  QuietPage(v)'
  <1>1. Unbid(v) /\ Uncalled(v)
    BY DEF Unbid, Uncalled
  <1>2. QED
    BY <1>1, PageRests DEF Quiet

\* Without faults a transaction of the wallet lands and is confirmed.
LEMMA NoFault ==
  ASSUME Quiet  PROVE ~Fault /\ \A o \in Outcome : Sends(o) => o.landed /\ o.returns /\ UNCHANGED budget
  <1>1. ~Fault
    BY DEF Quiet, QuietWorld, Fault
  <1>2. QED
    BY <1>1 DEF Sends

\* What a page's step needs besides the page itself.
LEMMA PanelRests ==
  ASSUME TypeInv, PanelInv, Quiet, NEW u \in Trader, PanelStep(u), QuietPage(u)',
         UNCHANGED <<slot, market, batch, late, req, budget>>, vault'.fee = vault.fee,
         vault'.locks = vault.locks, vault'.settled = vault.settled
  PROVE  Quiet'
  <1>1. QuietWorld' /\ \A r \in Req : QuietStage(r)'
    BY WorldRests DEF Undisturbed
  <1>2. ASSUME NEW v \in Trader, v # u  PROVE QuietPage(v)'
    <2>1. panel'[v] = panel[v]
      BY <1>2, PanelFrame
    <2>2. FlightsOf(v)' = FlightsOf(v)
      <3>1. ASSUME NEW f \in flight', f.by = v  PROVE f \in flight
        <4>1. BuiltOrder(u, panel'[u].order).by = u
          BY DEF BuiltOrder
        <4>2. QED
          BY <1>2, <3>1, <4>1, PanelFrame
      <3>2. ASSUME NEW f \in flight, f.by = v  PROVE f \in flight'
        <4>1. f.order[1] = v
          BY <3>2 DEF PanelInv, OwnOrder
        <4>2. QED
          BY <1>2, <4>1, PanelFrame
      <3>3. QED
        BY <3>1, <3>2 DEF FlightsOf
    <2>3. QED
      BY <1>2, <2>1, <2>2, OtherPages
  <1>3. QED
    BY <1>1, <1>2 DEF Quiet

\* runRegister and runDeposit.
LEMMA QuietWallet ==
  ASSUME TypeInv, PanelInv, Quiet, NEW u \in Trader, PanelStep(u), RunRegister(u) \/ RunDeposit(u)
  PROVE  Quiet' /\ UNCHANGED budget
  <1>0. vault \in Vault /\ Pages /\ QuietPage(u) /\ UNCHANGED <<slot, market, batch, late, req, flight>>
    BY DEF TypeInv, ChainTypes, Quiet, RunRegister, RunDeposit
  <1>a. NoBid(u)' = NoBid(u) /\ FlightsOf(u)' = FlightsOf(u)
    BY <1>0 DEF NoBid, FlightsOf
  <1>b. 0 \notin Req /\ 0 # AwaitsTx
    BY DemoAssumption DEF Req, AwaitsTx
  <1>1. CASE RunRegister(u)
    <2>1. panel[u].step = "idle" /\ panel[u].wait = 0
      BY <1>1 DEF RunRegister, Shows
    <2>2. Advance(u, "registered") /\ UNCHANGED budget /\ vault' \in {vault, WalletCreated(u)}
      BY <1>1, NoFault DEF RunRegister
    <2>3. panel'[u].step = "registered" /\ panel'[u].wait = 0
      BY <1>0, <2>2, AdvanceFact DEF Steps
    <2>4. vault'.fee = vault.fee /\ vault'.locks = vault.locks /\ vault'.settled = vault.settled
      BY <1>0, <2>2 DEF Vault, WalletCreated
    <2>5. NoBid(u) /\ FlightsOf(u) = {}
      BY <1>0, <2>1 DEF QuietPage
    <2>6. ASSUME NEW r \in Req, req'[r].kind \in TradeKinds, req'[r].who = u  PROVE FALSE
      <3>1. QuietCall(u, r)
        BY <1>0, <2>6 DEF QuietPage
      <3>2. QED
        BY <1>0, <2>1, <2>6, <3>1 DEF QuietCall, TradeKinds
    <2>7. QuietPage(u)'
      BY <1>a, <1>b, <2>3, <2>5, <2>6 DEF QuietPage
    <2>8. QED
      BY <1>0, <2>2, <2>4, <2>7, PanelRests
  <1>2. CASE RunDeposit(u)
    <2>1. panel[u].step = "slot_ready" /\ panel[u].wait = 0
      BY <1>2 DEF RunDeposit, Shows
    <2>2. PICK o \in Outcome :
             /\ Sends(o) /\ vault' = IF o.landed THEN Deposited(PreparedNote(u)) ELSE vault
             /\ panel' = [panel EXCEPT ![u].deposits = @ + 1,
                                       ![u].note = IF o.returns THEN panel[u].deposits + 1 ELSE @,
                                       ![u].step = IF o.returns THEN "deposited" ELSE @]
      BY <1>2 DEF RunDeposit
    <2>3. panel'[u].step \in {"slot_ready", "deposited"} /\ panel'[u].wait = 0
      BY <1>0, <2>1, <2>2, DepositFact
    <2>4. vault'.fee = vault.fee /\ vault'.locks = vault.locks /\ vault'.settled = vault.settled
      BY <1>0, <2>2 DEF Vault, Deposited
    <2>5. NoBid(u) /\ FlightsOf(u) = {}
      BY <1>0, <2>1 DEF QuietPage
    <2>6. ASSUME NEW r \in Req, req'[r].kind \in TradeKinds, req'[r].who = u  PROVE QuietCall(u, r)'
      <3>1. QuietCall(u, r)
        BY <1>0, <2>6 DEF QuietPage
      <3>2. req[r].kind = "init" /\ Ended(r)
        BY <1>0, <2>1, <2>6, <3>1 DEF QuietCall, TradeKinds
      <3>3. QED
        BY <1>0, <2>3, <3>2 DEF QuietCall, Ended
    <2>7. QuietPage(u)'
      BY <1>a, <1>b, <2>3, <2>5, <2>6 DEF QuietPage
    <2>8. QED
      BY <1>0, <2>2, <2>4, <2>7, NoFault, PanelRests
  <1>3. QED
    BY <1>1, <1>2

\* runSubmitOrderEr and its confirmation.
LEMMA QuietSubmit ==
  ASSUME TypeInv, PanelInv, Quiet, NEW u \in Trader, PanelStep(u),
         RunSubmitOrderEr(u) \/ SubmitConfirmed(u)
  PROVE  Quiet' /\ UNCHANGED budget
  <1>0. Pages /\ Page(u) /\ QuietPage(u) /\ UNCHANGED <<chain, req, budget>>
    BY DEF TypeInv, PanelInv, Quiet, RunSubmitOrderEr, SubmitConfirmed
  <1>a. NoBid(u)' = NoBid(u)
    BY <1>0 DEF NoBid, chain
  <1>b. 0 \notin Req /\ 0 # AwaitsTx /\ AwaitsTx \notin Req
    BY DemoAssumption DEF Req, AwaitsTx
  <1>c. panel[u].step = "deposited"
    BY <1>0 DEF RunSubmitOrderEr, SubmitConfirmed, Shows, Page
  <1>d. ASSUME NEW r \in Req, req'[r].kind \in TradeKinds, req'[r].who = u  PROVE req[r].kind = "init" /\ Ended(r)
    <2>1. QuietCall(u, r)
      BY <1>0, <1>d DEF QuietPage
    <2>2. QED
      BY <1>0, <1>c, <1>d, <2>1 DEF QuietCall, TradeKinds
  <1>e. ASSUME panel'[u].step \in {"deposited", "order_er"}, NEW r \in Req, req'[r].kind \in TradeKinds, req'[r].who = u
        PROVE  QuietCall(u, r)'
    <2>1. req[r].kind = "init" /\ Ended(r)
      BY <1>d, <1>e
    <2>2. QED
      BY <1>0, <1>e, <2>1 DEF QuietCall, Ended
  <1>1. CASE RunSubmitOrderEr(u)
    <2>1. NoBid(u) /\ FlightsOf(u) = {}
      BY <1>0, <1>1 DEF QuietPage, RunSubmitOrderEr
    <2> DEFINE f == BuiltOrder(u, panel'[u].order)
    <2>2. /\ panel'[u].step = "deposited" /\ panel'[u].slot = panel[u].slot /\ panel'[u].note = panel[u].note
          /\ \/ panel'[u].wait = AwaitsTx /\ flight' = flight \cup {f}
             \/ panel'[u].wait = 0 /\ flight' = flight
      BY <1>0, <1>1, <1>c, SubmitFact
    <2>3. f.by = u /\ BuiltOrder(u, panel[u].order)' = f
      BY <2>2 DEF BuiltOrder, Note
    <2> HIDE DEF f
    <2>4. CASE panel'[u].wait = AwaitsTx /\ flight' = flight \cup {f}
      <3>1. FlightsOf(u)' = {f}
        BY <2>1, <2>3, <2>4 DEF FlightsOf
      <3>2. QuietPage(u)'
        BY <1>a, <1>b, <1>e, <2>1, <2>2, <2>3, <2>4, <3>1 DEF QuietPage, Shows
      <3>3. QED
        BY <1>0, <3>2, PanelRests DEF chain
    <2>5. CASE panel'[u].wait = 0 /\ flight' = flight
      <3>1. FlightsOf(u)' = {}
        BY <2>1, <2>5 DEF FlightsOf
      <3>2. QuietPage(u)'
        BY <1>a, <1>b, <1>e, <2>1, <2>2, <2>5, <3>1 DEF QuietPage, Shows
      <3>3. QED
        BY <1>0, <3>2, PanelRests DEF chain
    <2>6. QED
      BY <2>2, <2>4, <2>5
  <1>2. CASE SubmitConfirmed(u)
    <2>1. /\ panel[u].wait = AwaitsTx /\ Advance(u, "order_er") /\ flight' = flight
          /\ \A f \in flight : f.order # <<u, panel[u].order>>
      BY <1>2 DEF SubmitConfirmed
    <2>2. /\ panel'[u].step = "order_er" /\ panel'[u].wait = 0 /\ panel'[u].slot = panel[u].slot
          /\ panel'[u].note = panel[u].note
      BY <1>0, <2>1, AdvanceFact DEF Steps
    <2>3. FlightsOf(u) = {} /\ Bid(u)
      <3>1. BuiltOrder(u, panel[u].order).order = <<u, panel[u].order>>
        BY DEF BuiltOrder
      <3>2. BuiltOrder(u, panel[u].order) \notin flight
        BY <2>1, <3>1
      <3>3. QED
        BY <1>0, <2>1, <3>2 DEF QuietPage, FlightsOf
    <2>4. FlightsOf(u)' = {} /\ Bid(u)'
      BY <1>0, <2>1, <2>2, <2>3 DEF FlightsOf, Bid, Note, chain
    <2>5. QuietPage(u)'
      BY <1>b, <1>e, <2>2, <2>4 DEF QuietPage, Shows
    <2>6. QED
      BY <1>0, <2>5, PanelRests DEF chain
  <1>3. QED
    BY <1>1, <1>2

\* The answer to a call.
LEMMA QuietAnswer ==
  ASSUME TypeInv, PanelInv, Quiet, NEW u \in Trader, PanelStep(u), PanelAnswered(u)
  PROVE  Quiet' /\ UNCHANGED budget
  <1> DEFINE w == panel[u].wait
  <1>0. Pages /\ Page(u) /\ QuietPage(u) /\ UNCHANGED <<chain, req, budget, flight>> /\ w \in Req /\ Ended(w)
    BY DEF TypeInv, PanelInv, Quiet, PanelAnswered
  <1>a. NoBid(u)' = NoBid(u) /\ FlightsOf(u)' = FlightsOf(u)
    BY <1>0 DEF NoBid, FlightsOf, chain
  <1>b. 0 \notin Req /\ 0 # AwaitsTx
    BY DemoAssumption DEF Req, AwaitsTx
  <1>1. req[w].pc = "done" /\ \/ req[w].kind = "match" /\ Advance(u, "matched")
                              \/ /\ req[w].kind = "init"
                                 /\ panel' = [panel EXCEPT ![u].wait = 0, ![u].step = "slot_ready", ![u].slot = req[w].slot]
    BY <1>0 DEF PanelAnswered, Quiet, QuietWorld, At
  <1>2. req[w].slot \in Place
    BY <1>0, RequestTyped DEF TypeInv, Request
  <1>3. \/ panel[u].step = "registered" /\ req[w].kind = "init"
        \/ panel[u].step = "order_er" /\ req[w].kind = "match"
    BY <1>0 DEF Page
  <1> HIDE DEF w
  <1>4. /\ panel'[u].wait = 0
        /\ \/ panel[u].step = "registered" /\ panel'[u].step = "slot_ready"
           \/ panel[u].step = "order_er" /\ panel'[u].step = "matched"
    <2>1. CASE req[w].kind = "match"
      <3>1. Advance(u, "matched") /\ panel[u].step = "order_er" /\ "matched" \in Steps
        BY <1>1, <1>3, <2>1 DEF Steps
      <3>2. QED
        BY <1>0, <3>1, AdvanceFact
    <2>2. CASE req[w].kind = "init"
      <3>1. /\ panel' = [panel EXCEPT ![u].wait = 0, ![u].step = "slot_ready", ![u].slot = req[w].slot]
            /\ panel[u].step = "registered"
        BY <1>1, <1>3, <2>2
      <3>2. QED
        BY <1>0, <1>2, <3>1, SlotAnswerFact
    <2>3. QED
      BY <1>3, <2>1, <2>2
  <1>5. ASSUME NEW r \in Req, req'[r].kind \in TradeKinds, req'[r].who = u  PROVE QuietCall(u, r)'
    <2>1. QuietCall(u, r)
      BY <1>0, <1>5 DEF QuietPage
    <2>2. Ended(r)
      BY <1>0, <1>4, <1>5, <2>1 DEF QuietCall, TradeKinds, w
    <2>3. panel[u].step = "registered" => req[r].kind = "init"
      BY <1>0, <1>5, <2>1 DEF QuietCall, TradeKinds
    <2>4. QED
      BY <1>0, <1>4, <2>2, <2>3 DEF QuietCall, Ended
  <1>6. panel'[u].step = "slot_ready" => NoBid(u) /\ FlightsOf(u) = {}
    BY <1>0, <1>4 DEF QuietPage
  <1>7. QuietPage(u)'
    BY <1>a, <1>b, <1>4, <1>5, <1>6 DEF QuietPage, Shows
  <1>8. QED
    BY <1>0, <1>7, PanelRests DEF chain

\* A call, when no other request runs.
LEMMA QuietCalls ==
  ASSUME TypeInv, PanelInv, Quiet, budget.quiet, NEW u \in Trader, PanelStep(u),
         RunInitSlot(u) \/ RunCounterMatch(u)
  PROVE  Quiet' /\ UNCHANGED budget
  <1>0. QuietWorld /\ Pages /\ Requests /\ Page(u) /\ QuietPage(u)
    BY DEF TypeInv, PanelInv, Quiet
  <1>1. PICK step \in Steps, kind \in TradeKinds :
           /\ Call(u, step, kind)
           /\ (step = "registered" /\ kind = "init") \/ (step = "order_er" /\ kind = "match")
    <2>1. "registered" \in Steps /\ "order_er" \in Steps /\ "init" \in TradeKinds /\ "match" \in TradeKinds
      BY DEF Steps, TradeKinds
    <2>2. Call(u, "registered", "init") \/ Call(u, "order_er", "match")
      BY DEF RunInitSlot, RunCounterMatch
    <2>3. QED
      BY ONLY <2>1, <2>2
  <1> DEFINE ctx == [slot |-> panel[u].slot, note |-> Note(u), order |-> <<u, panel[u].order>>]
  <1>2. /\ panel[u].step = step /\ panel[u].wait = 0 /\ \A q \in Req : Ended(q)
        /\ UNCHANGED <<chain, budget, flight>>
    BY <1>1 DEF Call, Shows, MayCall
  <1>3. PICK r \in Req : CanStart(r) /\ Started(r, kind, u, "market", ctx) /\ Await(u, r)
    BY <1>1 DEF Call
  <1>4. ctx \in TradeCtx /\ ctx.note[1] = u /\ ctx.order[1] = u /\ ctx.slot = panel[u].slot
    BY <1>0 DEF Pages, PanelRecord, TradeCtx, Note
  <1> HIDE DEF ctx
  <1>5. /\ \A q \in Req : q # r => req'[q] = req[q]
        /\ req'[r].kind = kind /\ req'[r].who = u /\ req'[r].pc = "market" /\ req'[r].ctx = ctx
    BY <1>0, <1>1, <1>3, <1>4, StartedTypes DEF TradeKinds
  <1>6. req[r].pc = "free" /\ req[r].kind = "none"
    BY <1>0, <1>3, RequestTyped DEF CanStart, At, Stage
  <1>7. /\ panel'[u].step = step /\ panel'[u].wait = r /\ panel'[u].slot = panel[u].slot
        /\ panel'[u].note = panel[u].note /\ \A v \in Trader : v # u => panel'[v] = panel[v]
    <2>1. r \in 0 .. AwaitsTx
      BY DemoAssumption DEF Req, AwaitsTx
    <2>2. QED
      BY <1>0, <1>2, <1>3, <2>1, AwaitFact
  <1>8. QuietWorld'
    <2>1. market # "returning" /\ vault.locks = {} /\ NoBid(Maker)
      BY <1>0, <1>2 DEF QuietWorld, Ended, At, Resting
    <2>2. NoBid(Maker)' /\ UNCHANGED <<market, vault, late, budget>>
      BY <1>2, <2>1 DEF NoBid, chain
    <2>3. \A q \in Req : req'[q].kind \notin LiveKinds /\ req'[q].pc # "failed"
      BY <1>0, <1>1, <1>5 DEF QuietWorld, At, TradeKinds, LiveKinds
    <2>4. \A q, s \in Req : ~Ended(q)' /\ ~Ended(s)' => q = s
      BY <1>2, <1>5 DEF Ended
    <2>5. Settlers'
      <3>1. ASSUME NEW s \in vault.settled
            PROVE  \E q \in Req : /\ req'[q].kind = "match" /\ req'[q].pc = "done"
                                  /\ s.buyer = req'[q].ctx.note /\ s.seller = OwnId(q)
        BY <1>0, <1>5, <1>6 DEF QuietWorld, Settlers, At
      <3>2. QED
        BY <2>2, <3>1 DEF Settlers, At, OwnId
    <2>6. QED
      BY <1>0, <2>1, <2>2, <2>3, <2>4, <2>5 DEF QuietWorld, At
  <1>9. ASSUME NEW q \in Req  PROVE QuietStage(q)'
    <2>1. req'[q].pc \in {"free", "done", "failed", "market"}
      BY <1>2, <1>5 DEF Ended
    <2>2. QED
      BY <2>1 DEF QuietStage, BeforeRun, Resting
  <1>10. ASSUME NEW v \in Trader, v # u  PROVE QuietPage(v)'
    <2>1. panel[v].wait # r
      BY <1>6 DEF PanelInv, Page
    <2>2. Uncalled(v)
      BY <1>5, <1>10, <2>1 DEF Uncalled
    <2>3. Unbid(v)
      BY <1>2 DEF Unbid, FlightsOf, chain
    <2>4. QED
      BY <1>7, <1>10, <2>2, <2>3, PageRests DEF Quiet
  <1>11. QuietPage(u)'
    <2>0. r # 0 /\ r # AwaitsTx /\ 0 \notin Req
      BY DemoAssumption DEF Req, AwaitsTx
    <2>1. ASSUME NEW q \in Req, req'[q].kind \in TradeKinds, req'[q].who = u  PROVE QuietCall(u, q)'
      <3>1. CASE q = r
        BY <1>1, <1>4, <1>5, <1>7, <3>1 DEF QuietCall
      <3>2. CASE q # r
        <4>1. req'[q] = req[q]
          BY <1>5, <3>2
        <4>2. QuietCall(u, q)
          BY <1>0, <2>1, <4>1 DEF QuietPage
        <4>3. panel[u].step = "order_er" /\ req[q].kind = "init" /\ Ended(q)
          BY <1>1, <1>2, <2>0, <2>1, <4>1, <4>2 DEF QuietCall, TradeKinds
        <4>4. QED
          BY <1>2, <1>7, <4>1, <4>3 DEF QuietCall, Ended
      <3>3. QED
        BY <3>1, <3>2
    <2>2. FlightsOf(u)' = FlightsOf(u) /\ NoBid(u)' = NoBid(u) /\ Bid(u)' = Bid(u)
      BY <1>2, <1>7 DEF FlightsOf, NoBid, Bid, Note, chain
    <2>3. /\ panel[u].step = "registered" => NoBid(u) /\ FlightsOf(u) = {}
          /\ panel[u].step = "order_er" => FlightsOf(u) = {} /\ Bid(u)
      BY <1>0, <1>2, <2>0 DEF QuietPage
    <2>4. QED
      BY <1>1, <1>2, <1>7, <2>0, <2>1, <2>2, <2>3 DEF QuietPage, Shows
  <1>12. QED
    BY <1>2, <1>8, <1>9, <1>10, <1>11 DEF Quiet

LEMMA PanelQuiet ==
  ASSUME TypeInv, PanelInv, Quiet, budget.quiet, NEW u \in Trader, PanelStep(u)
  PROVE  Quiet' /\ UNCHANGED budget
  <1>1. ~SubmitLost(u) /\ ~ConnectionLost(u) /\ ~Reload(u)
    BY NoFault DEF SubmitLost, ConnectionLost, Reload
  <1>2. QED
    BY <1>1, QuietWallet, QuietSubmit, QuietAnswer, QuietCalls DEF PanelStep

\* The rollup executes an order: the bid is placed.
LEMMA ExecuteQuiet ==
  ASSUME TypeInv, PanelInv, Quiet, NEW f \in flight, OrderExecutes(f)
  PROVE  Quiet'
  <1> DEFINE u == f.by
  <1>0. QuietWorld /\ ChainTypes /\ Pages
    BY DEF TypeInv, Quiet
  <1>1. /\ u \in Trader /\ u \in Key /\ flight' = flight \ {f} /\ StillDelegated
        /\ UNCHANGED <<market, batch, vault, late, req, budget, panel>>
        /\ \/ slot' = slot /\ ~CanSubmit(u, f.slot)
           \/ /\ CanSubmit(u, f.slot) /\ f.slot \in SlotIdx
              /\ slot'[u][f.slot].status = "Pending" /\ slot'[u][f.slot].note = f.note
              /\ \A h \in Key, j \in SlotIdx : h # u \/ j # f.slot => slot'[h][j] = slot[h][j]
    BY <1>0, ExecuteFact
  <1>2. Maker \in Key /\ Maker # u
    BY <1>1, NameFact, DemoAssumption
  <1> HIDE DEF u
  <1>3. \A h \in Key, j \in SlotIdx : h # u => slot'[h][j] = slot[h][j]
    BY <1>1
  <1>4. \A h \in Key, j \in SlotIdx : slot'[h][j].l1 = slot[h][j].l1
    BY <1>1 DEF StillDelegated, CanSubmit
  <1>5. QuietWorld'
    <2>1. NoBid(Maker)' = NoBid(Maker)
      BY <1>2, <1>3 DEF NoBid
    <2>2. QED
      BY <1>0, <1>1, <2>1 DEF QuietWorld, At, Ended, Settlers, OwnId
  <1>6. ASSUME NEW r \in Req  PROVE QuietStage(r)'
    <2>1. CASE Ended(r)
      BY <1>1, <2>1 DEF Ended, QuietStage, BeforeRun, Resting
    <2>2. CASE ~Ended(r)
      <3>1. req[r].kind \in TradeKinds /\ req[r].slot \in SlotIdx /\ req[r].who \in Trader /\ QuietStage(r)
        BY <1>0, <2>2, Active DEF Quiet
      <3>2. SlotKey(r) \in Key
        BY <1>2, <3>1, NameFact DEF SlotKey
      <3>3. Mine(r)'.l1 = Mine(r).l1
        BY <1>1, <1>4, <3>1, <3>2 DEF Mine, SlotKey
      <3>4. req[r].pc \in Resting => Mine(r)' = Mine(r)
        <4>1. req[r].pc \in Resting => req[r].kind = "match"
          BY <3>1, RequestTyped DEF TypeInv, Stage, Resting, Ends, TradeKinds
        <4>2. QED
          BY <1>1, <1>2, <1>3, <3>1, <4>1 DEF Mine, SlotKey
      <3>5. \A i \in SlotIdx : slot'[Maker][i] = slot[Maker][i]
        BY <1>2, <1>3
      <3>6. OwnMatch(r)' = OwnMatch(r) /\ OwnId(r)' = OwnId(r)
        BY <1>1 DEF OwnMatch, OwnId
      <3>7. QED
        BY <1>1, <3>1, <3>3, <3>4, <3>5, <3>6 DEF QuietStage
    <2>3. QED
      BY <2>1, <2>2
  <1>7. ASSUME NEW v \in Trader  PROVE QuietPage(v)'
    <2>0. QuietPage(v) /\ Page(v) /\ v \in Key
      BY NameFact DEF Quiet, PanelInv
    <2>1. CASE v # u
      <3>1. Unbid(v) /\ Uncalled(v)
        BY <1>1, <1>3, <2>0, <2>1 DEF Unbid, Uncalled, FlightsOf, u
      <3>2. QED
        BY <1>1, <2>0, <3>1, PageRests
    <2>2. CASE v = u
      <3>1. f \in FlightsOf(v)
        BY <2>2 DEF FlightsOf, u
      <3>2. \A r \in Req : req[r].kind \in TradeKinds /\ req[r].who = v => QuietCall(v, r)'
        BY <1>1, <2>0 DEF QuietPage, QuietCall, Ended
      <3>3. CASE panel[v].wait = AwaitsTx
        <4>1. /\ panel[v].step = "deposited" /\ FlightsOf(v) = {BuiltOrder(v, panel[v].order)} /\ NoBid(v)
              /\ Delegated(v, panel[v].slot)
          BY <2>0, <3>1, <3>3 DEF Page, QuietPage
        <4>2. f = BuiltOrder(v, panel[v].order)
          BY <3>1, <4>1
        <4>3. f.slot = panel[v].slot /\ f.note = Note(v)
          BY <4>2 DEF BuiltOrder
        <4>4. slot[v][f.slot].status \in {"Empty", "Matched", "Expired"}
          <5>1. slot[v][f.slot].status \in {"Empty", "Pending", "Matched", "Expired"}
            BY <1>0, <2>0, <4>1, <4>3 DEF ChainTypes, SlotRecord, Delegated
          <5>2. QED
            BY <4>1, <4>3, <5>1 DEF NoBid, Delegated
        <4>5. CanSubmit(v, f.slot)
          BY <4>1, <4>3, <4>4 DEF CanSubmit, Delegated
        <4>6. Bid(v)'
          BY <1>1, <2>2, <4>3, <4>5 DEF Bid, Note
        <4>7. FlightsOf(v)' = {}
          BY <1>1, <4>1, <4>2 DEF FlightsOf
        <4>8. QED
          BY <1>1, <3>2, <3>3, <4>1, <4>6, <4>7, DemoAssumption DEF QuietPage, Shows, AwaitsTx
      <3>4. CASE panel[v].wait # AwaitsTx
        <4>1. panel[v].step \notin {"idle", "registered", "slot_ready", "order_er"} /\ ~Shows(v, "deposited")
          BY <2>0, <3>1 DEF QuietPage
        <4>2. QED
          BY <1>1, <3>2, <3>4, <4>1 DEF QuietPage, Shows
      <3>5. QED
        BY <3>3, <3>4
    <2>3. QED
      BY <2>1, <2>2
  <1>8. QED
    BY <1>5, <1>6, <1>7 DEF Quiet

\* The commit lands while a request waits for it.
LEMMA CommitQuiet ==
  ASSUME TypeInv, PanelInv, Quiet, CommitLands, UNCHANGED <<panel, flight>>
  PROVE  Quiet'
  <1>0. QuietWorld /\ batch \in [er : Results, l1 : Results]
    BY DEF TypeInv, Quiet, ChainTypes
  <1>1. /\ market = "returning" /\ market' = "l1" /\ UNCHANGED <<slot, vault, late, req, budget>>
        /\ batch' = [batch EXCEPT !.l1 = batch.er]
    BY DEF CommitLands
  <1>2. batch'.er = batch.er
    BY <1>0, <1>1
  <1>3. QuietWorld'
    BY <1>0, <1>1 DEF QuietWorld, At, Ended, NoBid, Settlers, OwnId
  <1>4. ASSUME NEW r \in Req  PROVE QuietStage(r)'
    <2>1. CASE Ended(r)
      BY <1>1, <2>1 DEF Ended, QuietStage, BeforeRun, Resting
    <2>2. CASE ~Ended(r)
      <3>1. req[r].pc = "wait"
        BY <1>0, <1>1, <2>2, Active DEF QuietChain, At
      <3>2. OwnMatch(r)'
        BY <1>1, <1>2, <3>1 DEF Quiet, QuietStage, OwnMatch, OwnId
      <3>3. QED
        BY <1>1, <3>1, <3>2 DEF QuietStage, BeforeRun, Resting
    <2>3. QED
      BY <2>1, <2>2
  <1>5. ASSUME NEW u \in Trader  PROVE QuietPage(u)'
    <2>1. Unbid(u) /\ Uncalled(u)
      BY <1>1 DEF Unbid, Uncalled, FlightsOf
    <2>2. QED
      BY <2>1, PageRests DEF Quiet
  <1>6. QED
    BY <1>3, <1>4, <1>5 DEF Quiet

-----------------------------------------------------------------------------
\* The budget, and the fifth layer as a whole.

\* A scenario stays what it is: a step uses up at most one of its bounds.
SameScenario == budget' \in Budgets /\ budget'.quiet = budget.quiet
LEMMA Spends ==
  ASSUME budget \in Budgets,
         \/ UNCHANGED budget
         \/ Fault
         \/ budget.live > 0 /\ budget' = [budget EXCEPT !.live = @ - 1]
         \/ budget.reads > 0 /\ budget' = [budget EXCEPT !.reads = @ - 1]
  PROVE  SameScenario
  <1>1. ASSUME NEW n \in Nat, n > 0  PROVE n - 1 \in Nat
    BY <1>1
  <1>2. budget.live \in Nat /\ budget.faults \in Nat /\ budget.reads \in Nat
    BY DEF Budgets
  <1>3. CASE Fault
    BY <1>1, <1>2, <1>3 DEF Fault, Budgets, SameScenario
  <1>4. CASE budget.live > 0 /\ budget' = [budget EXCEPT !.live = @ - 1]
    BY <1>1, <1>2, <1>4 DEF Budgets, SameScenario
  <1>5. CASE budget.reads > 0 /\ budget' = [budget EXCEPT !.reads = @ - 1]
    BY <1>1, <1>2, <1>5 DEF Budgets, SameScenario
  <1>6. QED
    BY <1>3, <1>4, <1>5 DEF SameScenario

LEMMA BudgetStep ==
  ASSUME TypeInv, budget \in Budgets, [Next]_vars
  PROVE  SameScenario
  <1>1. ASSUME NEW u \in Trader, PanelStep(u)  PROVE UNCHANGED budget \/ Fault
    BY <1>1 DEF PanelStep, RunRegister, Sends, RunInitSlot, RunDeposit, RunSubmitOrderEr, SubmitConfirmed,
       SubmitLost, RunCounterMatch, Call, PanelAnswered, ConnectionLost, Reload
  <1>2. ASSUME TradeNext  PROVE UNCHANGED budget \/ Fault
    BY <1>1, <1>2, TradeFrame DEF TradeNext, OrderExecutes
  <1>3. ASSUME NEW r \in Req, LiveStep(r)  PROVE UNCHANGED budget
    BY <1>3 DEF LiveStep, ReadState, WriteState, StateWritten, LiveDeposit, LiveChoose, LiveEnsureSlot,
       LiveInitSlot, LiveDelegateSlot, LiveReadMarket, LiveDelegateMarket, LiveSubmit, RereadState,
       LiveReadPre, LiveRunBatch, LiveUndelegate, LiveWaitL1, LiveRefused
  <1>4. ASSUME LiveNext
        PROVE  UNCHANGED budget \/ (budget.live > 0 /\ budget' = [budget EXCEPT !.live = @ - 1])
    BY <1>3, <1>4 DEF LiveNext, LiveClick
  <1>5. ASSUME ChainNext  PROVE UNCHANGED budget \/ Fault
    BY <1>5 DEF ChainNext, CommitLands, FeeSet, OrderExpires, LockReleased, RequestDies
  <1>6. ASSUME ReadConsumed \/ ReadLock
        PROVE  UNCHANGED budget \/ (budget.reads > 0 /\ budget' = [budget EXCEPT !.reads = @ - 1])
    BY <1>6 DEF ReadConsumed, ReadLock
  <1>7. UNCHANGED vars => UNCHANGED budget
    BY DEF vars
  <1>8. QED
    BY <1>2, <1>4, <1>5, <1>6, <1>7, Spends DEF Next

\* The live panel has no clicks, so that it has no requests.
LEMMA NoLive ==
  ASSUME TypeInv, Quiet
  PROVE  (\A kind : ~LiveClick(kind)) /\ \A r \in Req : ~LiveStep(r)
  <1>0. QuietWorld /\ Requests
    BY DEF TypeInv, Quiet
  <1>1. \A kind : ~LiveClick(kind)
    BY <1>0 DEF QuietWorld, LiveClick
  <1>2. ASSUME NEW r \in Req  PROVE ~LiveStep(r)
    <2>1. ~Live(r)
      BY <1>0 DEF QuietWorld, Live, LiveKinds
    <2>2. /\ ~At(r, "read") /\ ~At(r, "send") /\ ~At(r, "reread")
          /\ ~At(r, "write") /\ ~At(r, "writing") /\ ~At(r, "choose")
      BY <1>0, <2>1, LiveStages DEF Live
    <2>3. QED
      BY <2>1, <2>2 DEF LiveStep, ReadState, WriteState, StateWritten, LiveDeposit, LiveChoose,
         LiveEnsureSlot, LiveInitSlot, LiveDelegateSlot, LiveReadMarket, LiveDelegateMarket, LiveSubmit,
         RereadState, LiveReadPre, LiveRunBatch, LiveUndelegate, LiveWaitL1, LiveRefused
  <1>3. QED
    BY <1>1, <1>2

\* A read of a note's status changes nothing of this.
LEMMA ReadQuiet ==
  ASSUME TypeInv, PanelInv, Quiet, budget \in Budgets,
         ReadConsumed \/ ReadLock \/ UNCHANGED vars
  PROVE  Quiet'
  <1>1. UNCHANGED <<slot, market, batch, vault, late, req, panel, flight>>
    BY DEF ReadConsumed, ReadLock, vars, chain
  <1>2. budget'.faults = budget.faults /\ budget'.live = budget.live /\ budget'.inBand = budget.inBand
    BY DEF ReadConsumed, ReadLock, vars, Budgets
  <1>3. QuietWorld' /\ \A r \in Req : QuietStage(r)'
    BY <1>1, <1>2, WorldRests DEF Undisturbed
  <1>4. ASSUME NEW u \in Trader  PROVE QuietPage(u)'
    <2>1. Unbid(u) /\ Uncalled(u)
      BY <1>1 DEF Unbid, Uncalled, FlightsOf
    <2>2. QED
      BY <1>1, <2>1, PageRests DEF Quiet
  <1>5. QED
    BY <1>3, <1>4 DEF Quiet

LEMMA QuietStep == TypeInv /\ MatchInv /\ PanelInv /\ QuietInv /\ [Next]_vars => QuietInv'
  <1> SUFFICES ASSUME TypeInv, MatchInv, PanelInv, QuietInv, [Next]_vars  PROVE QuietInv'
    OBVIOUS
  <1>1. budget \in Budgets /\ SameScenario
    BY BudgetStep DEF QuietInv
  <1>2. ASSUME budget.quiet  PROVE Quiet'
    <2>0. Quiet
      BY <1>2 DEF QuietInv
    <2>1. CASE TradeNext /\ UNCHANGED <<file, reader>>
      BY <1>2, <2>0, <2>1, PanelQuiet, TradeQuiet, ExecuteQuiet DEF TradeNext
    <2>2. CASE LiveNext
      BY <2>0, <2>2, NoLive DEF LiveNext
    <2>3. CASE ChainNext /\ UNCHANGED <<panel, flight, file, reader>>
      <3>1. ~FeeSet /\ ~OrderExpires /\ \A r \in Req : ~RequestDies(r)
        BY <2>0, NoFault DEF FeeSet, OrderExpires, RequestDies
      <3>2. ~LockReleased
        BY <2>0 DEF Quiet, QuietWorld, LockReleased
      <3>3. QED
        BY <2>0, <2>3, <3>1, <3>2, CommitQuiet DEF ChainNext
    <2>4. CASE ReadConsumed \/ ReadLock \/ UNCHANGED vars
      BY <1>1, <2>0, <2>4, ReadQuiet
    <2>5. QED
      BY <2>1, <2>2, <2>3, <2>4 DEF Next
  <1>3. QED
    BY <1>1, <1>2 DEF QuietInv, SameScenario

LEMMA QuietInit == Init => QuietInv
  <1> SUFFICES ASSUME Init  PROVE QuietInv
    OBVIOUS
  <1>1. budget \in Budgets /\ (budget.quiet => budget.live = 0 /\ budget.faults = 0 /\ budget.inBand)
    BY ScenarioAssumption DEF Init, ChainInit
  <1>2. ASSUME NEW r \in Req  PROVE req[r].pc = "free" /\ req[r].kind = "none"
    BY DEF Init, ChainInit, Free
  <1>3. ASSUME NEW u \in Trader  PROVE panel[u].step = "idle" /\ panel[u].wait = 0
    BY DEF Init, TradeInit, NewPanel
  <1>4. ASSUME NEW k \in Key  PROVE NoBid(k)
    BY DEF Init, ChainInit, EmptySlot, NoBid
  <1>5. flight = {} /\ market = "l1" /\ late = {} /\ vault.locks = {} /\ vault.settled = {}
    BY DEF Init, ChainInit, TradeInit
  <1>6. ASSUME NEW r \in Req  PROVE QuietStage(r)
    BY <1>2, EndedStage DEF Ended
  <1>7. ASSUME NEW u \in Trader  PROVE QuietPage(u)
    <2>1. FlightsOf(u) = {} /\ NoBid(u)
      BY <1>4, <1>5, NameFact DEF FlightsOf
    <2>2. AwaitsTx # 0
      BY DemoAssumption DEF AwaitsTx
    <2>3. \A r \in Req : req[r].kind \notin TradeKinds
      BY <1>2 DEF TradeKinds
    <2>4. QED
      BY <1>3, <2>1, <2>2, <2>3 DEF QuietPage
  <1>8. budget.quiet => QuietWorld
    <2>1. NoBid(Maker)
      BY <1>4, NameFact
    <2>2. QED
      BY <1>1, <1>2, <1>5, <2>1 DEF QuietWorld, At, Ended, LiveKinds, Settlers
  <1>9. QED
    BY <1>1, <1>6, <1>7, <1>8 DEF QuietInv, Quiet

LEMMA QuietCorrect == Spec => []QuietInv
  <1>1. Init => QuietInv
    BY QuietInit
  <1>2. TypeInv /\ MatchInv /\ PanelInv /\ QuietInv /\ [Next]_vars => QuietInv'
    BY QuietStep
  <1>3. QED
    BY <1>1, <1>2, TypesCorrect, MatchCorrect, PanelCorrect, PTL DEF Spec

(***************************************************************************)
(* Requests that are served one at a time, without faults, all succeed:    *)
(* the market is where ensureMarketDelegatedOnL1 leaves it, the slot that  *)
(* chooseFreshSlot picks accepts the maker's order, run_batch crosses it   *)
(* with the trader's, the match it records is the one that is settled, and *)
(* no lock is in the way.                                                  *)
(***************************************************************************)
THEOREM QuietSucceedsCorrect == Spec => []QuietSucceeds
  <1>1. QuietInv => QuietSucceeds
    BY DEF QuietInv, Quiet, QuietWorld, QuietSucceeds
  <1>2. QED
    BY <1>1, QuietCorrect, PTL
=============================================================================
