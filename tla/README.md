# Nyx Darkpool: TLA+ models, checks and proofs

Nyx is a dark pool on Solana. Users deposit SPL tokens into a *vault* program and
hold them as shielded *notes* (a commitment in an append-only Merkle tree). Orders
are submitted to and matched by a *matching engine* program inside a MagicBlock
ephemeral rollup run by a TEE; matches come back to L1, where the TEE forces their
settlement in the vault. Notes are withdrawn with a zero-knowledge proof.

This directory models the two programs and the clients around them in TLA+, checks
the models with TLC on small instances (the demo application's server and browser
code included), and proves with TLAPS, for every value of the constants, every safety
property that the passing runs check: of the vault, of the matching engine, of the tree
algorithms and the clients that use them, of the inclusion proofs, of the client's
session, of the demo's market and of its wallet panels.

## Inventory

| Component | State | Operations | Interacts with |
|---|---|---|---|
| Vault, note tree (`programs/vault/src/state.rs`, `merkle.rs`) | leaf count, current root, ring of 32 earlier roots, right path | `append_leaf`, `push_root`, `contains_root` | deposit, settlement, withdrawal |
| Vault, custody (`deposit`, `lock_note`, `release_lock`, `withdraw`, `set_protocol_config`, `reset_merkle_tree`) | token accounts, nullifier, consumed and lock PDAs, fee configuration | the instructions | users (deposit, withdraw, release), TEE (lock), admin |
| Vault, settlement (`tee_forced_settle`) | as above | consumes two locked notes, appends two to five notes, relocks change notes | the TEE; consumes what the engine matched |
| Vault, wallets and root key (`create_wallet`, `rotate_root_key`) | wallet entries, root key | write-once entry; rotation | permission group of the engine |
| Matching engine, order slots (`init_pending_order_slot`, `submit_order`, `cancel_order`) | up to four `PendingOrder` accounts per trader and market | the instructions | traders through the PER RPC |
| Matching engine, batch auction (`run_batch`) | order slots, `BatchResults`: ring of 16 matches, match id counter, fee accumulators, summary | expiry, uniform clearing price, circuit breaker, matching loop, slot update, fee flush | TEE calls it; reads the vault's fee configuration and the oracle |
| Matching engine, setup and delegation | configuration, ownership of accounts between L1 and rollup | `init_market`, `configure_access`, `delegate_*`, `commit_market_state`, `undelegate_market` | L1 and rollup |
| Client SDK (`packages/sdk`) | session token, notes, witnesses | deposit, withdraw, note status, submit and cancel with one 401 retry, settlement watcher, inclusion proofs, instruction builders | PER RPC, L1 RPC |
| Demo, trade flow (`dapp-trade-flow-panel.tsx`, `api/dapp/*`) | the panel's step, slot, note and order in React state; a request's locals | register, slot, deposit, order; counter order, match, wait for the commit, lock, settle | all of the above; shares the maker key and the market with the live flow |
| Demo, live flow (`api/live-er-flow`) | `demo-live-state.json` | bootstrap, two submits, batch | as above |
| Demo, wallet panels and browser prover (`wallet-identity-panel.tsx`, `private-deposit-withdraw-panel.tsx`, `prover-smoke-test-panel.tsx`, `web-prover-suite.ts`) | session in `sessionStorage`, panel states, pending proof requests, workers | derive an identity, deposit, withdraw, prove | wallet extension, Web Worker, routes |

What is hard here:

* *two spenders of one note*: the owner's withdrawal and the TEE's settlement race;
  locks, expiry, release, consumed markers and nullifiers together must let exactly
  one of them win;
* *chains*: a partial fill consumes a note, issues its change, relocks it for the
  rest of the order, and a later settlement consumes that; amounts must be conserved
  along the chain, on both sides, with fees;
* *stale reads*: roots that proofs were made for, collateral notes an order still
  names, leaf indices read before a transaction lands, tokens that expired;
* *the auction loop*: two pointers, six ways to continue, kills, skips, partial fills;
* *overlapping requests*: the demo's routes are long chains of awaits on one market
  account, one maker key and one state file, and no lock; a tab's tasks outlive the
  panel that started them;
* *failure*: one failing match aborts a whole batch; the process that settles can
  die between the lock and the settle transaction; the TEE can disappear.

Correctness, per component: the vault is solvent, spends each note once, keeps
locks until expiry and lets owners out; the engine books quantities truthfully,
clears the volume its price promises in price-time priority, terminates, and does not
by itself publish two matches over the same note; the tree computes the root of its leaves
and every client that gets a witness gets one the vault accepts; a session executes
an order at most once; the demo settles exactly what was matched, and what its panels
show is so; a proof belongs to the call that asked for it; an inclusion proof of an
order verifies for the orders of its batch only.

## Modules

| Module | What it is |
|---|---|
| `NoteTree` | tree header: leaves, current root, ring of earlier roots (operators on a record) |
| `NoteLedger` | abstract specification of the vault: live, spent and held notes, funds |
| `Vault` | the vault program, one action per instruction; its properties; the refinement mapping to `NoteLedger` |
| `MCVault` | constants for TLC |
| `VaultProofs` | lemmas about the tree header; theorems about the vault |
| `MatchingEngine` | one market: order slots and `run_batch`; its properties |
| `MCEngine` | constants for TLC |
| `EngineProofs` | theorems about quantities, the results ring, volume and priority; about money and notes |
| `MathProofs` | lemmas the proofs share: induction, powers of two, sums over finite sets |
| `IncrementalMerkle` | the tree algorithms: `append_leaf`, Merkle shadow, witnesses, reference root (operators) |
| `NoteClients` | clients that deposit and withdraw against a moving tree; their properties; relates `IncrementalMerkle` to `NoteTree` |
| `MCClients` | constants for TLC |
| `ClientsProofs` | lemmas about the tree algorithms; theorems about the clients |
| `PerSession` | concurrent calls on one session manager; its properties |
| `MCSession` | constants for TLC |
| `SessionProofs` | theorems about the session |
| `DemoChain` | the chain as the demo uses it: slots and market on L1 and rollup, results, vault; the server's requests |
| `TradeFlow` | trade panels and the routes they call, down to the settlement |
| `LiveErFlow` | the live panel's route and its state file |
| `DemoMarket` | both flows and a note-status call on one chain; the properties |
| `MCDemo` | scenarios and constants for TLC |
| `DemoProofs` | theorems about `DemoMarket` |
| `WalletPanels` | the other panels of the page in one tab, with session and prover; its properties |
| `MCPanels` | scenarios and constants for TLC |
| `PanelsProofs` | theorems about the wallet panels |
| `BatchInclusion` | inclusion roots and paths of batches; its property |
| `MCInclusion` | the instance for TLC |
| `InclusionProofs` | theorem about the inclusion proofs |

### `NoteTree` and `Vault`

A Solana transaction is atomic, so each instruction is one step. The accounts are
modelled by what their existence and fields mean: `nullifiers` is the set of notes
with a `NullifierEntry`, `consumed` maps notes to the match id of their
`ConsumedNoteEntry`, `locks` maps notes to the fields of their `NoteLock`,
`vaultToken` is the balance of the vault's token account per mint, `tree` the tree
header of `VaultConfig`. `issued`, `feesHeld` and `stranded` are history variables:
every note ever appended, the fees settlements have retained without a fee note so
far, and the value appended under a commitment that already existed.

Abstractions and assumptions:

* Poseidon is collision free: a commitment is identified with its note, a root with
  the sequence of leaves it commits to. A nullifier is `H(spending key, commitment)`,
  so it is identified with the note too. `VALID_SPEND` is modelled by what its
  circuit constrains: the note is a leaf under the public root, amount, mint and
  nullifier are the note's. The `note_commitment` argument of `withdraw` is no public
  input of the proof, and only seeds the lock and consumed accounts that the
  instruction looks at; in `Withdraw` it is an argument of its own (`named`). In the
  runs it is the note's own commitment or one without accounts, which stands for every
  other that passes the two guards; the proofs hold for both.
* Signers: `lock_note` and `tee_forced_settle` are steps of the TEE,
  `set_protocol_config` and `reset_merkle_tree` of the admin, the others anyone's.
* The TEE is trusted for what the vault cannot see (`OrderBacked`, `TeeSigned`): it
  locks notes that exist, for their true amount; it exchanges notes of two mints;
  a match id belongs to one match; a fee note is only issued over fees retained, in
  one of the two mints. These are assumptions about code outside the repository.
  Everything the vault does verify is in `SettleGuard`.

What a lock means follows from this. It is a promise to the counterpart only: no
instruction shortens or replaces it, and a settlement takes it with that of the other
side or not at all (`LockKept`). The owner's withdrawal is not kept out
(see *Findings*), so `NoteLedger` lets a held note be redeemed; what keeps the
vault whole is the nullifier, which makes the settlement fail afterwards.

`reset_merkle_tree` is a devnet instruction; `DevnetResets` switches it on.

### `MatchingEngine`

`slots` are the `PendingOrder` accounts (`"absent"` before
`init_pending_order_slot`), `results`, `nextMatchId`, `fees`, `summary` the fields of
`BatchResults`. `write_cursor` and `next_match_id` both start at 0 and are
incremented together, so one variable stands for both.

`run_batch` is one transaction but its loop is where the difficulty is, so the loop
is modelled turn by turn: `BeginBatch` (checks, first pass, sorting, clearing price,
circuit breaker), then one action per branch of the loop body (`SkipLimits`,
`KillBid`, `KillAsk`, `SkipMinFill`, `Match`, `Abort`, `EndLoop`), then `Publish`
(`apply_slot_updates`, results, fee flush, summary). In between, only local variables
change and no other action is enabled, so the accounts change in one step;
`Abort` is the failing `checked_sub`, which undoes the transaction. Account order is
arbitrary and the sort is stable, so orders with equal price and arrival may come in
any order (`SortedBids`, `SortedAsks`).

`submit_order` compares neither the order id nor the note commitment with anything, so
both are free arguments of `SubmitOrder`. A client names a new deposit, a note that some
order named before, a change note of an earlier match, or one of `OtherNote`, which
holds commitments that do not exist (yet). The engine cannot keep two orders of one note
apart; what it owes its clients is that it adds no conflict of its own. `intake.renamed`
collects the notes that clients named twice and the change notes they named, and
`NoteOnce` says that a note in two matches, or behind two resting orders, is one of them.
So a client that names its own note once is safe, whatever the others name.

Abstractions and assumptions: `user_commitment` is the slot's trader; integers are
unbounded (the saturating and checked 64-bit operations do not saturate below a token
supply of 2^64); the TEE passes each account once (a set of accounts).

`executed`, `log`, `gained`, `turns` and `intake` are history variables: what was matched
for a slot's current order, all published matches, what a slot matched in the running
batch, its turns, and what submissions have named.

### `IncrementalMerkle` and `NoteClients`

`poseidon2` builds a pair, which is what a collision-free hash is: two words are
equal exactly when they were computed from the same leaves in the same places.
`append_leaf`, `MerkleShadow.computeRoot`, `MerkleShadow.witness` and
`witnessFromPriorRightPath` are translated level by level and compared with
`ReferenceRoot`, the full tree over the leaves.

`tree` is the tree header with the words the program stores, `txs` the transactions
`getSignaturesForAddress` would list (the leaves each appended), `client` what each
client has read and where it is. A client reads an account in one step and its
transaction lands in another, so that anything can land in between. Three ways in and
out are modelled: the demo's private deposit with the witness from the earlier right
path (`PrivateDeposit`, `WithdrawPrepare`), the bought note of a settlement with the
witness from the replayed history (`LeafBeforeSettle`, `SettleLands`,
`TradePrepareRead`, `TradePrepareReplay`, `TradePrepareChoose`), and the SDK
(`MerklePositionFetch`, `MerkleProofFetch`), whose proof provider is external and
taken to answer for the tree as it is. `ideal` is a history variable: the same tree
as `NoteTree` abstracts it for the vault's model.

Abstractions and assumptions: leaves are distinct (nonces are fresh); a request that
answers with an error changes nothing and is not a step; transactions that fail, and
the vault's instructions that append nothing, other than withdrawals and resets, are
not in `txs`. The nullifier and lock checks of a withdrawal are in `Vault`; here a
withdrawal is accepted when its root is known and its witness verifies.

### `PerSession`

Each `await` of `getToken`, `fetchNewToken`, `sendInstruction` and of the submit and
cancel functions is a point where other calls run, including the one between the
exception of a 401 and the retry's `getToken`. The PER is external: it issues tokens,
may expire any of them at any time, refuses a request exactly when its token is not
valid, and may execute a request whose answer is lost. The parameter checks before
the first stage and the byte layout of instructions are left out. `applied` counts
executions and is a history variable of the PER.

### `DemoChain`, `TradeFlow`, `LiveErFlow`, `DemoMarket`

`DemoChain` holds what the demo's transactions read and write, one operator for the
acceptance condition and one for the effect of each builder of the SDK: a slot has an
L1 side (absent, the engine's, the delegation program's) and the state the rollup
sees; `market` is on L1, on the rollup, or on its way back until the commit lands;
`batch` has the results on the rollup and as L1 shows them; `vault` has wallets,
notes, locks, settlements and the fee rate. Amounts, roots and proofs are in `Vault`
and `MatchingEngine`; what matters here is who does what to which account, and when.

A request is a record with a program counter: every `await` of a route is a step, so
anything can happen in between. `Refused` and `LiveRefused` are the transactions and
checks that the state refuses; `RequestDies` is an RPC error or a confirmation that
times out, with its transaction landed or not. In the browser, `ConnectionLost`,
`SubmitLost` and `Reload` are what separates a panel from what it has started. The
forwarder's result is `Outcome`: a transaction lands or not, the call returns or
throws, in every combination, because `sendAndConfirm` does not read the error of the
confirmation. A transaction of the wallet for registering or depositing lands at once
or never; an order stays in flight until the rollup executes or drops it.

`writeFile` truncates and writes, so a state file under way reads as no state, and two
writes at a time may leave a mixture. A live request keeps the state it read.

Faults, requests and reads are counted down from the scenario's `budget`. In a
*quiet* scenario requests come one at a time, of the trade flow only and without faults
(`ScenarioAssumption`); *exact* says that notes are sized to the
notional, as the panel's defaults make them; *inBand* says that the limit price, which
the route copies from the trader's order to the maker's, is within the circuit
breaker's band of the oracle's price. When it is not, `run_batch` publishes no match, both
orders stay pending and the request fails. `QuietSucceeds` is about prices in the band.
The maker's order has the size of the trader's, so a match fills both.

A panel belongs to one trader: that the trade panel keeps its state when the wallet
switches account (see *Findings*) is not modelled.

### `WalletPanels`

A click starts a *task*, the awaits of one handler with the values its closure holds.
Tasks outlive a reset, another account and the page; `Shown` says whether their
`setState` calls still reach a panel. The suite numbers its requests and forgets all
of them when a worker has an error event; the old worker is not terminated, and may
answer later (`mail`). A proof is identified with the inputs it was made of. Each
await may fail (`Fails`), except that a proof is awaited until an answer, a rejection
or the disposal of the suite. The transaction of a deposit or a withdrawal succeeds or
fails on the chain, and the panel does not see which. `notes.forgotten` is a history
variable: notes whose opening the tab has lost. `Leave` is leaving the page; a wallet
that disconnects also unmounts the panels and drops the note they track, with the suite
left running (`app/dapp/page.tsx:121`), which is not a step of the model.

### `BatchInclusion`

`sha256` builds a pair. The program's root and the client's root, path and
verification are translated separately; orders come and go, batches go on while a
client computes and verifies, and `Claimed` verifies any word of the tree, an inner node
included, any commitment or the zero word, at any index and with any number of siblings
among these words. The commitment of an order is a hash of slot, note and trading key, so
two orders may have the same one (`Repeated`).

`verifyInclusionPath` knows neither the depth of the tree nor the kind of word it is
given: an inner node verifies with the siblings above it, and index bits beyond the path
are ignored. What a verdict says is therefore relative to the number of siblings
(`Proves`): the word is the one at the claimed place of the level they lead up from. For
an order's commitment, the case the function is made for, this can only be the lowest
level, and the order took part.

## Runs

| Run | Shows | Bounds |
|---|---|---|
| `vault_core` | `TypeOK`, `Solvent`, `RootWindow`, `Provenance`, `LockKept`, `LedgerSpec` | 2 mints, a buyer and a seller with one deposit each, re-deposits of the same commitment, exact and partial fills with and without fees, one match id, ring of 2, 5 leaves, resets, clock 0..1 |
| `vault_chain` | `LedgerSpec`, `LockTemporary`, `CanExit` along two settlements | two match ids, every order filled in halves, 8 leaves, no resets |
| `engine_types` | `TypeOK`, `VolumeCleared`, `Priority`, `BookTruth`, `BatchBooks`, `LoopBounded` | 3 slots (symmetric), 3 orders out of 7 shapes: LIMIT, IOC, FOK, two prices, sizes 1 to 3, minimum fills, tight collateral; clock 0..1 for arrival order; a fee of 100 % so that small amounts pay one; orders expire, and the two shapes at price 2 trip the circuit breaker |
| `engine_notes` | `Covered`, `Funded`, `NoteOnce`, `RingLatest` | no fees; 4 orders: bids of 3 and asks of 2 that fill each other in parts below the bid's limit, and an under-funded bid; one note may be named twice, or be a change note, also before it exists; a ring of 2, which the third match wraps |
| `clients` | `TypeOK`, `TreeAbstraction`, `ShadowAgrees`, `PreparedAccepted` | one client of the private deposit, one of the trade flow; a tree of 8 leaves, a ring of 2, two transactions of others with 1 or 2 leaves each, one reset, 4 transactions of history |
| `clients_live` | `PreparedAccepted`, `ClientExits` | one client of the trade flow, one of the SDK; 8 leaves, a ring of 2, three transactions of others, all of the history |
| `session` | `TypeOK`, `AtMostOnce`, `RetriedWithAnother`, `CallEnds` | 2 calls, 4 tokens: every call may fetch twice |
| `demo` | `TypeOK`, `SettledAsMatched`, `PanelTruth`, `SlotRace`, `QuietSucceeds`, `SameBootstrap` | two traders, 2 slots per key, 2 deposits and submits per panel; seven scenarios: two traders one at a time, two at a time, one with two faults, one with one fault and larger notes, one whose price trips the circuit breaker, the live flow alone in two tabs, a trader beside it; up to 6 requests |
| `panels` | `TypeOK`, `ProofsMatch`, `NoteAccounted`, `ClicksEnd` | two accounts, two visits of the page, up to 4 clicks; five scenarios with switches, error events of workers and departures |
| `inclusion` | `InclusionSound` | 5 orders, the last of which may repeat a commitment, trees of depth up to 3, two batches |
| `doc_ioc_note`, `doc_note_status` | violations, see *Findings* | an IOC order and two counterparties; the scenarios of `demo` |

A ring of 2 wraps with a handful of appends or matches, which is where an index error
shows; the theorems lift the result to every size. Three orders are what it takes
for an order to meet two counterparties, in one batch or in two, and for a third to
be passed over. `CHECK_DEADLOCK FALSE` is set because all bounds are reached in
terminal states: deposits, ids and slots run out, clients have their notes, calls end.
The scenarios of `demo` and `panels` bound how much happens, never in which order.
Two slots per key let both rules of `chooseFreshSlot` and its error happen; two faults
let a retry meet what the first try left behind; two traders, or a trader beside the
live flow, are two requests for the same maker key and market. Five orders fill a
tree of depth 3 with three repeated leaves.

A tree of 8 leaves has levels at which a path turns left and right in every
combination, and padding to depths below the tree's; a ring of 2 forgets roots within
one settlement.

*Fairness.* `vault_chain` assumes weak fairness of the clock, of the owner's
`release_lock` (anyone may send it once the lock has expired) and of the owner's
withdrawal against the current root. Nothing is assumed of the TEE or the admin, so
the properties say what an owner achieves alone. The engine needs none: `LoopBounded`
bounds the number of turns of its loop. `clients_live` assumes that a client
goes on trying to withdraw and that a request it has started ends; nothing is assumed
of those who move the tree, whose transactions are bounded in number, so that a client
is overtaken often but not for ever. `session` assumes that pending continuations
run, as the event loop guarantees, and that every request to the PER is answered or
fails, as `fetch` guarantees. `panels` assumes that every await of a task ends (a
request, a prompt of the wallet and a wait for confirmation return or fail) and that
the current worker answers what is pending: `prover.worker.ts` posts an answer in both
branches. Nothing is assumed of a worker the suite has let go of, and a worker that
hangs without an error event is not modelled. `demo` has no liveness property: whether
requests end depends on RPC nodes alone.

## Findings

Two runs expect a violation; `PROJECT.json` quotes the text.

* `doc_ioc_note`: an IOC order that meets two counterparties in one batch yields two
  matches that consume the same note, although it was named once; only one can settle.
* `doc_note_status`: `getNoteStatus` answers "active" when a settlement lands between
  its two reads, although the note had a lock at the first and is consumed at the
  second.

More places where the code does less than its text says, met while modelling and not
made runs:

* `withdraw.rs:115` rejects "any initialized lock", and `change-note-flow.test.ts:1545`
  says that the owner of a locked note cannot withdraw it. The lock that is looked up is
  the one of the `note_commitment` argument, which the proof does not tie to the note; a
  later settlement of the note then fails on its nullifier. The behaviours of
  `vault_core` include such withdrawals.
* `run_batch.rs:693` leaves an order without a fill untouched, so an IOC order without
  a counterparty stays in the book (`run_batch.rs:18`: "IOC unmatched → status =
  Cancelled.").
* `run_batch.rs:535`: a partially filled LIMIT order whose change is eaten up by the
  fee keeps the consumed note as collateral (`run_batch.rs:14`).
* `submit_order.rs:125` does not reserve the fee, so that with fees an accepted order
  can fail `run_batch` for everyone (`submit_order.rs:123`).
* `deposit.ts:94`: the `leafIndex` of a receipt is the leaf count before the
  transaction, and another note's when something lands in between (`withdraw.ts:35`).
* A FOK order is compared with its *first* counterparty only (`KillBid`, `KillAsk`;
  `order_record.rs` speaks of the size "matchable this batch").
* The replay of `vault-leaf-history.ts` starts before a `reset_merkle_tree` and yields
  leaves of the old tree. `PreparedAccepted` shows that the checks behind it never let
  a wrong witness out: the request fails instead.
* `web-prover-suite.ts:10` says requests are serialised in a queue; they are posted at
  once and may be answered in any order. `ProofsMatch` does not need the queue.
* `private-deposit-withdraw-panel.tsx:440` shows a confirmed withdrawal also when the
  transaction failed on chain; after a withdrawal that failed earlier the panel stays in
  "proving", and only Reset, which drops the note, leads on.
* `live-er-flow/route.ts:268` looks for absent slots beyond the program's cap: once
  all slots of a key exist, every bootstrap fails.
* After run_batch has matched, a failure of the same request leaves the match without
  a settlement: the retry makes another maker note (`counter-and-match/route.ts`).
* The trade panel keeps its step, slot and note when the wallet connects another
  account (`dapp-trade-flow-panel.tsx:61`); and a deposit that is repeated before the
  first one lands reads the same leaf count and makes the same commitment again, the
  second amount of which cannot be withdrawn (`Solvent` counts it as stranded).

Without fees and IOC orders (the demo insists on a zero fee rate) the engine's
properties hold: `Covered`, `Funded` and `NoteOnce` in `engine_notes`.

## Proofs

`VaultProofs` proves for all constants (`RingAssumption`, `CapacityAssumption`,
`VaultAssumption`):

* `TypeCorrect`, `ProvenanceCorrect`, `RootWindowCorrect`: `Spec => []TypeOK`,
  `[]Provenance`, `[]RootWindow`;
* `VaultImplementsLedger`: `Spec => LedgerSpec`, step by step, with the live notes
  as issued minus nullified ones, whichever note a withdrawal names;
* `LockCorrect`: the action property `LockKept`;
* `SolventCorrect`: the vault's balance of every mint is what its spendable notes,
  the fees it retains and the stranded value add up to (`Solvent`), after any number
  of deposits, settlements and withdrawals.

The inductive invariant is `IndInv == TypeOK /\ Provenance /\ RootWindow`. The
ledger alone is not inductive: that a withdrawal pays a *live* note needs that
whatever a root in the ring opens was issued (`TreeIssued`), and this needs the ring
to contain only roots of earlier trees; that a settlement issues *new* notes needs
that an output note exists only if its match id is used up (`MatchIdsUsed`), and that
a match id is never signed twice. `AppendLeafRing` carries the ring argument through
the wrap-around of the head for every ring size. `Solvent` rests on `IndInv`, which
says that what an instruction spends was issued and unspent and that what it appends
is new, and on `SolventInv`, which adds that the set of issued notes is finite.

`MathProofs` holds what the other modules' arguments need of numbers and sums. The
library's induction theorems cannot be used (their predicate is an operator parameter,
which the provers do not instantiate), so the predicate is a set here: `Induction` and
`SmallestSubset` say that a set of counterexamples, among the numbers up to a bound or
among the subsets of a finite set, would have a smallest member. A sum over a finite set
exists whatever order its elements are taken in, and it is known how it changes with one
element or one summand.

`EngineProofs` (`EngineAssumption`) proves `TypeCorrect`, `BookTruthCorrect` and
`BatchBooksCorrect` from `IndInv == TypeOK /\ BookTruth /\ BatchBooks`. `BookTruth`
alone is not inductive: `Publish` writes the snapshots of the loop back into the
slots, so the invariant must say, for every turn of the loop, how a snapshot relates
to its slot and to what the loop has matched (`BatchBooks`), and this has to survive
kills, which the code marks in the snapshot itself. `LoopBoundedCorrect` adds that the
loop takes at most as many turns as the batch has orders.

The same module proves the rest of what the engine's runs check:

* `RingLatestCorrect`, from `RingInv`: within a batch the matches are numbered on from
  `next_match_id` (`Numbered`), and ids less than the capacity apart have different
  places in the ring (`RingApart`), so that `Publish` overwrites only what is older;
* `PriorityCorrect` and `VolumeClearedCorrect`, from `AuctionInv`, which speaks about
  every turn of the loop although both properties speak about its end: the vectors are
  sorted (`InOrder`), whoever is behind an index is filled or does not accept the price
  and nobody beyond it has traded (`InTurn`), both sides have traded the same
  (`Balanced`), and the loop ends when a side is used up (`Exhausted`). Then the side
  that is used up has traded all that accepts the price, the other has traded as much,
  and no side can trade more than that (`SideVolume`): the volume is the minimum
  `compute_clearing_price` has computed.

Its last part proves, for a market without fees (`NoFees`), `CoveredCorrect`
(the note of an open order pays for all that is left of it) and from it
`FundedCorrect` (the `checked_sub` never fails). `NoteOnceCorrect` also needs that
there are no IOC orders (`NoIoc`): then a fill that leaves something open leaves
change too, so the order rotates to the change note (`RestRotates`), and a change
note is new because its nonce contains a match id never used before, unless a client
named it in advance, which `intake.renamed` then shows (`ChangeExcused`). Both assumptions
are needed: see *Findings*. Nothing is assumed of the ids and notes clients send.

`SessionProofs` (`SessionAssumption`) proves `TypeCorrect`, `AtMostOnceCorrect` and
`RetriedWithAnotherCorrect` for any number of calls and tokens. The inductive
invariant ties a call's stage to what the PER has done for it (`Executions`), says
that a token still on its way from the PER is no other call's and was never refused
(`Exclusive`, so that storing it late cannot bring a refused token back), that a
refused token is expired for good and not in the cache its call retries from
(`Stages`), and that tokens are numbered in the order of issue (`Numbered`).

`PanelsProofs` (`PanelsAssumption`) proves `TypeCorrect`, `ProofsMatchCorrect` and
`NoteAccountedCorrect` for any number of accounts, clicks, visits and worker errors.
A proof can be attributed to the wrong call only through an id that two requests
share, so the invariant says that the pending requests of a suite belong to tasks of
its visit that wait for a proof, one each, under ids given out before (`PendingOf`),
and that a request at any worker, a discarded one too, carries the inputs of the task
that is pending under its id, if one still is (`MailOf`). `NoteAccounted` needs to know
what the panel tracks while a deposit runs (`Panel`: of this visit, nothing else; of an
earlier one, its note has been forgotten), that at most one private task of a visit
runs, and that a note being withdrawn has landed (`Stages`).

`DemoProofs` (`DemoAssumption`, `ScenarioAssumption`) proves `TypeCorrect`,
`SameBootstrapCorrect`, `SettledAsMatchedCorrect`, `SlotRaceCorrect`,
`PanelTruthCorrect` and `QuietSucceedsCorrect` for any number of traders, slots,
requests and faults. The invariant has five layers, each proved from some of those
before it:

* `TypeInv`: types, and what the stage of a request says of its fields; the state file
  holds two actors of one bootstrap, which is `SameBootstrap`;
* `MatchInv`: a note or an order of the maker is named after the one request that made
  it, in slots, results, contexts and file. Without it a request could take another
  request's match for its own and settle it (`SettledAsMatched`);
* `RaceInv`: the maker's orders are each in one slot, and what `chooseFreshSlot` has seen
  is in none of the slots it may still choose (`SlotRace`);
* `PanelInv`: a panel's order is in flight, in its slot, or matched, and an "init"
  request that succeeded leaves its slot delegated (`PanelTruth`);
* `QuietInv`: in a scenario without faults whose requests come one at a time, what each
  stage of a request needs is there (`QuietStage`), because the only request that runs
  has put it there or found it: the market on the right side, a slot that takes the
  maker's order, the trader's own order still pending in its slot until the batch
  (`QuietPage`), the match, no locks but its own, and no settlement of its notes by an
  earlier request (`Settlers`). So no check refuses it (`QuietSucceeds`).

More than thirty actions are brought down to a few step summaries (`RequestsEvolve`:
one request moves on, or a free one starts; `ChainEvolves`: the log of results and the
vault only grow, a slot changes in one of its few ways), which the later layers use.
The fifth has a summary of its own (`TradeFrame`): a step of a request touches no other.

`ClientsProofs` (`DepthAssumption`, `ClientsAssumption`) proves `ClientsTypeCorrect`,
`TreeAbstractionCorrect`, `ShadowAgreesCorrect` and `PreparedAcceptedCorrect` for every
depth of the tree, size of the ring and number of clients and transactions. It has two
parts.

* *The algorithms.* `Ref(leaves, d, i)` is node `i` of level `d` of the full tree.
  `append_leaf` keeps one hash per level: where the path of the next leaf is a right
  child, the full subtree to its left (`PathOf`). A new leaf changes exactly the nodes on
  its own path, the sibling of a right node there is what the header remembers and the sibling of a left node is a zero
  subtree, so that the loop computes the nodes above the new leaf one level after the
  other, up to the root. The same walk gives the witness from the earlier right path.
  The Merkle shadow computes the smallest tree over its leaves and pads it upwards.
  Because `poseidon2` is injective, equal roots of the same depth have equal nodes all
  the way down: two sequences of leaves with one root are the same (`RootInjective`; a
  leaf is not the zero word).
* *The clients.* `ClientsInv` relates the header to the abstract tree (`TreeRel`, which is
  `TreeAbstraction` with the right path added). The history of transactions ends with
  those that filled the current tree, and the first leaf of the tree occurs only once in
  it (`History`): a replay that starts with it is a prefix of the tree, and one that
  started before a reset does not pass for one (`ReplayOK`). A client that has read the
  header knows the root it read, and as long as no more leaves have followed than the
  ring has entries, that root is one of a prefix of the present leaves (`ReadOK`). So the
  longest replayed prefix with a known root is the tree as it was read, and its witness
  has a root the ring still holds (`PreparedOK`).

`InclusionProofs` (`InclusionAssumption`) proves `InclusionSoundCorrect` for any number
of orders and batches. The levels that the program's `merkle_root_sha256` computes in
place are those the client builds as arrays (one root). A path made by
`computeInclusionPath` is followed upwards level by level (an honest proof verifies); a
claim that verifies, about any word at all (`VerifiedShows`), is followed downwards: a
pair has one left and one right part, so the claimed hash at each level is the node at
that place (`ClimbDown`). A leaf of the tree is not a hash of two words, so a claim has no
more siblings than the tree has levels; it ends at the node as many levels below the root
as it has siblings, and for an order's commitment this must be a leaf.

Some attempts at these proofs led back to the model. `PanelTruth` was once stated in a
way that held only within the bounds of the run: the counter request of an earlier page
load can still match the order of the next one, which `RanFor` now takes into account.
Two arms of the case distinction in `RunBatchTx` overlapped; they are now disjoint.
`ReferenceRoot` and the program's inclusion root are stated level by level, where a
function over all nodes of all levels would have no induction to follow; and the leaves
of other transactions are known not to carry a client's name (`ClientsAssumption`).

Assumptions on constants say that bounds are natural numbers, that sets which the
code has finitely many of are finite, and which parameters the programs' checks admit;
TLC evaluates them on every run.

Only model-checked: liveness (`CanExit`, `LockTemporary`, `ClientExits`, `CallEnds`,
`ClicksEnd`), because the prover does not do fairness. The three properties of the
violation runs are false, and are shown so by TLC.

## Plan

1. permission group: wallets, root key rotation and access configuration;
2. fee notes per batch across engine and vault.

## Not modelled

* wallets and root key (`create_wallet` beyond the entry's existence,
  `rotate_root_key`, `configure_access`): next in the plan;
* the legacy dark CLOB account, which no handler reads;
* key derivation, proof systems, byte layouts of instructions and accounts, and the
  decoder of `TradeSettled` events: pure functions without state, beyond what TLC or
  the prover say anything useful about;
* `per_auth` of the live flow, which keeps nothing; the base-withdraw panel, which is
  commented out of `app/dapp/page.tsx` (its route is in `NoteClients`);
* disconnecting the wallet, and an account switch under a running trade panel: both drop
  or mix up the panels' own state and touch nothing on the chain. A disconnect unmounts
  the panels as leaving the page does, and like it loses the opening of a private note
  (`NoteAccounted` lists the ways that are modelled);
* the presentation: static pages, labels, balances, the scripted timeline.
