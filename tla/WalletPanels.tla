---------------------------- MODULE WalletPanels ----------------------------
(***************************************************************************)
(* The /dapp page in one browser tab: the identity panel, the private      *)
(* deposit and withdraw panel and the prover smoke test, which share the   *)
(* connected wallet, the session in sessionStorage and the WebProverSuite  *)
(* with its Web Worker.                                                    *)
(*                                                                         *)
(* A click starts a task, the chain of awaits of its handler; a task that  *)
(* is under way goes on when its panel is reset, the wallet switches to    *)
(* another account or the page is left, and its closure keeps the values   *)
(* read at the click.  A request, a prompt of the wallet and a wait for    *)
(* confirmation can fail at any time.                                      *)
(***************************************************************************)
EXTENDS Naturals, Sequences

CONSTANTS
    Wallet,        \* accounts the user can connect
    MaxClicks,     \* bound on clicks that start a task
    MaxMounts,     \* bound on visits of the page
    Scenarios      \* what may happen in a behaviour: clicks by panel, changes of the
                   \* account, error events of workers, departures, and whether a session is found

ASSUME PanelsAssumption ==
    /\ MaxClicks \in Nat /\ MaxMounts \in Nat \ {0}
    /\ Scenarios \subseteq [identity : Nat, private : Nat, smoke : Nat, switches : Nat,
                            crashes : Nat, leaves : Nat, wallet : Wallet, known : BOOLEAN]
    /\ \A s \in Scenarios : s.identity + s.private + s.smoke <= MaxClicks

VARIABLES
    wallet,     \* the connected account
    session,    \* the DappSessionV1 of the tab, at most one
    mount,      \* number of this visit of the page: React state is per visit
    task,       \* tasks in the order of their clicks
    ident,      \* phase of the identity panel
    priv,       \* step and tracking of the private panel
    prover,     \* the WebProverSuite of each visit
    mail,       \* requests at workers that are not answered yet
    notes,      \* private notes: landed, spent; history: forgotten by the tab
    budget      \* what is left of the scenario

vars == <<wallet, session, mount, task, ident, priv, prover, mail, notes, budget>>

Task == 1 .. MaxClicks
Note == Wallet \X Task
NewPanel == [step |-> "idle", tracking |-> {}]
NewSuite == [worker |-> 0, workers |-> 0, nextId |-> 0, pending |-> {}]

\* Inputs of a proof, and the proof of them: of an owner's wallet as the route
\* derive-identity answers them, of the fixture's wallet, of a note's spending.
WalletCreateInputs(w) == <<"wallet", w>>
FixtureInputs == <<"fixture">>
SpendInputs(n) == <<"spend", n>>

SessionOf(w) == [owner |-> w, sig |-> {w}, proof |-> WalletCreateInputs(w)]

\* The tab may hold a session of an earlier visit.
Init ==
    /\ budget \in Scenarios /\ wallet = budget.wallet
    /\ session = {SessionOf(w) : w \in IF budget.known THEN {wallet} ELSE {}}
    /\ mount = 1 /\ task = <<>>
    /\ ident = "idle" /\ priv = NewPanel
    /\ prover = [m \in 1 .. MaxMounts |-> NewSuite] /\ mail = {}
    /\ notes = [landed |-> {}, spent |-> {}, forgotten |-> {}]

-----------------------------------------------------------------------------

Runs(t) == task[t].pc # "done"
Busy(kinds) == \E t \in DOMAIN task : task[t].kind \in kinds /\ task[t].mount = mount /\ Runs(t)
At(t, kinds, pc) == t \in DOMAIN task /\ task[t].kind \in kinds /\ task[t].pc = pc
Shown(t) == task[t].mount = mount   \* its setState calls reach a panel

Click(panel) == budget[panel] > 0 /\ budget' = [budget EXCEPT ![panel] = @ - 1]
Start(kind, pc, note) ==
    task' = Append(task, [kind |-> kind, pc |-> pc, mount |-> mount, owner |-> wallet,
                          note |-> note, sig |-> {}, proof |-> <<>>])
Goto(t, pc) == task' = [task EXCEPT ![t].pc = pc]

\* The catch blocks of the tasks in ts: the identity panel shows "error"; the
\* private panel and the smoke test are no longer busy and keep their step.
\* What ends after it has landed a deposit leaves a note that nobody tracks.
Caught(ts) ==
    /\ task' = [t \in DOMAIN task |-> IF t \in ts THEN [task[t] EXCEPT !.pc = "done"] ELSE task[t]]
    /\ ident' = IF \E t \in ts : task[t].kind = "identity" /\ Shown(t) THEN "error" ELSE ident
Orphans(ts) == {task[t].note : t \in {u \in ts : task[u].kind = "deposit"}}
\* Mutant: the private panel's catch block goes back to the deposit step.
Fails_ToIdle(t) ==
    /\ t \in DOMAIN task /\ task[t].pc \notin {"done", "prove", "airdrop"}
    /\ Caught({t})
    /\ priv' = IF task[t].kind \in {"deposit", "withdraw"} /\ Shown(t) THEN [priv EXCEPT !.step = "idle"] ELSE priv
    /\ notes' = [notes EXCEPT !.forgotten = @ \cup Orphans({t})]
    /\ UNCHANGED <<wallet, session, mount, prover, mail, budget>>
Fails(t) ==
    /\ t \in DOMAIN task /\ task[t].pc \notin {"done", "prove", "airdrop"}
    /\ Caught({t})
    /\ notes' = [notes EXCEPT !.forgotten = @ \cup Orphans({t})]
    /\ UNCHANGED <<wallet, session, mount, priv, prover, mail, budget>>

-----------------------------------------------------------------------------
\* WebProverSuite

\* proveOne: the worker is made when there is none, the request gets the next
\* id of the suite and is posted.
Post(t, inputs) ==
    LET m == task[t].mount
        s == prover[m]
        w == IF s.worker = 0 THEN s.workers + 1 ELSE s.worker
    IN /\ prover' = [prover EXCEPT ![m] =
             [worker |-> w, workers |-> IF w > s.workers THEN w ELSE s.workers, nextId |-> s.nextId + 1,
              pending |-> {p \in s.pending : p.id # s.nextId} \cup {[id |-> s.nextId, task |-> t]}]]
       /\ mail' = mail \cup {[mount |-> m, worker |-> w, id |-> s.nextId, inputs |-> inputs]}
       /\ Goto(t, "prove")

\* What the awaiting task does with a proof, up to its next await.  The
\* identity panel and the smoke test compare its public input with the
\* commitment of the server's answer, and end with an error when they differ;
\* sessionStorage may refuse the session.
Proved(t, proof) ==
    LET x == task[t]
        new == {[SessionOf(x.owner) EXCEPT !.sig = x.sig, !.proof = proof]}
    IN \/ /\ x.kind = "identity" /\ proof = WalletCreateInputs(x.owner)
          /\ session' \in {new, session} /\ Goto(t, "airdrop") /\ UNCHANGED ident
       \/ /\ x.kind = "withdraw"
          /\ task' = [task EXCEPT ![t].pc = "finalize", ![t].proof = proof]
          /\ UNCHANGED <<session, ident>>
       \/ /\ x.kind = "smoke" /\ proof = FixtureInputs /\ Goto(t, "done") /\ UNCHANGED <<session, ident>>

Answered(m) == {p \in prover[m.mount].pending : p.id = m.id}

\* A worker answers one of its requests, in any order, with a proof or an
\* error; an answer whose id is not pending is dropped.
Reply(m) ==
    /\ m \in mail /\ mail' = mail \ {m}
    /\ prover' = [prover EXCEPT ![m.mount].pending = @ \ Answered(m)]
    /\ \/ Answered(m) = {} /\ UNCHANGED <<session, task, ident>>
       \/ \E p \in Answered(m) : Proved(p.task, m.inputs) \/ (Caught({p.task}) /\ UNCHANGED session)
    /\ UNCHANGED <<wallet, mount, priv, notes, budget>>

\* The error event of a worker, also of one that was replaced: every pending
\* request is rejected and the suite lets go of its worker, which is not
\* terminated and may still answer.
Rejected(m) == {p.task : p \in prover[m].pending}
\* Mutant: the suite starts over with its ids.
Dropped_IdsRestart(m) == [prover EXCEPT ![m].worker = 0, ![m].pending = {}, ![m].nextId = 0]
Dropped(m) == [prover EXCEPT ![m].worker = 0, ![m].pending = {}]
\* Mutant: the worker is let go of, its requests are not rejected.
WorkerError_Silent(m) ==
    /\ budget.crashes > 0 /\ prover[m].workers > 0
    /\ budget' = [budget EXCEPT !.crashes = @ - 1]
    /\ prover' = [prover EXCEPT ![m].worker = 0]
    /\ UNCHANGED <<wallet, session, mount, task, ident, priv, mail, notes>>
WorkerError(m) ==
    /\ budget.crashes > 0 /\ prover[m].workers > 0
    /\ budget' = [budget EXCEPT !.crashes = @ - 1]
    /\ Caught(Rejected(m)) /\ prover' = Dropped(m)
    /\ UNCHANGED <<wallet, session, mount, priv, mail, notes>>

-----------------------------------------------------------------------------
\* The identity panel

IdentityRun ==
    /\ Click("identity") /\ ~Busy({"identity"})
    /\ Start("identity", "sign", <<>>) /\ ident' = "running"
    /\ UNCHANGED <<wallet, session, mount, priv, prover, mail, notes>>

\* signMessage: the wallet signs with the account that is connected now.
SignMessage(t) ==
    /\ At(t, {"identity"}, "sign")
    /\ task' = [task EXCEPT ![t].pc = "derive", ![t].sig = {wallet}]
    /\ UNCHANGED <<wallet, session, mount, ident, priv, prover, mail, notes, budget>>

\* derive-identity: the signature must verify against the owner of the click.
Verified(t) == task[t].sig = {task[t].owner}
DeriveIdentity(t) ==
    /\ At(t, {"identity"}, "derive") /\ Verified(t)
    /\ Post(t, WalletCreateInputs(task[t].owner))
    /\ UNCHANGED <<wallet, session, mount, ident, priv, notes, budget>>

\* airdrop: its failure is shown and tolerated.
Airdrop(t) ==
    /\ At(t, {"identity"}, "airdrop") /\ Goto(t, "done")
    /\ ident' = IF Shown(t) THEN "ready" ELSE ident
    /\ UNCHANGED <<wallet, session, mount, priv, prover, mail, notes, budget>>

IdentityReset ==
    /\ ident \in {"ready", "error"} /\ ident' = "idle" /\ session' = {}
    /\ UNCHANGED <<wallet, mount, task, priv, prover, mail, notes, budget>>

-----------------------------------------------------------------------------
\* The private deposit and withdraw panel

SessionForOwner(w) == {s \in session : s.owner = w}

PrivateClick ==
    /\ Click("private") /\ SessionForOwner(wallet) # {} /\ ~Busy({"deposit", "withdraw"})
    /\ \/ priv.step = "idle" /\ Start("deposit", "prepare", <<wallet, Len(task) + 1>>)
       \/ priv.step = "deposited" /\ \E n \in priv.tracking : Start("withdraw", "prepare", n)
    /\ UNCHANGED <<wallet, session, mount, ident, priv, prover, mail, notes>>

PrivateDeposit(t) ==
    /\ At(t, {"deposit"}, "prepare") /\ Goto(t, "send")
    /\ UNCHANGED <<wallet, session, mount, ident, priv, prover, mail, notes, budget>>

\* withdraw-prepare refuses a note that is not the session owner's or whose
\* root is not the tree's; the panel then shows "proving" and asks the prover.
WithdrawPrepare(t) ==
    /\ At(t, {"withdraw"}, "prepare")
    /\ task[t].note \in notes.landed /\ task[t].note[1] = task[t].owner
    /\ priv' = IF Shown(t) THEN [priv EXCEPT !.step = "proving"] ELSE priv
    /\ Post(t, SpendInputs(task[t].note))
    /\ UNCHANGED <<wallet, session, mount, ident, notes, budget>>

WithdrawFinalize(t) ==
    /\ At(t, {"withdraw"}, "finalize") /\ Goto(t, "send")
    /\ UNCHANGED <<wallet, session, mount, ident, priv, prover, mail, notes, budget>>

\* sendAndConfirm: the wallet signs for the connected account only.  The
\* simulation passes; the transaction then succeeds or fails on the chain.
Spendable(t) == task[t].note \notin notes.spent /\ task[t].proof = SpendInputs(task[t].note)
Send(t) ==
    /\ At(t, {"deposit", "withdraw"}, "send") /\ wallet = task[t].owner
    /\ task[t].kind = "withdraw" => Spendable(t)
    /\ \E lands \in BOOLEAN :
          /\ task' = [task EXCEPT ![t].pc = "confirm"]
          /\ notes' = CASE ~lands -> notes
                        [] lands /\ task[t].kind = "deposit" -> [notes EXCEPT !.landed = @ \cup {task[t].note}]
                        [] OTHER -> [notes EXCEPT !.spent = @ \cup {task[t].note}]
    /\ UNCHANGED <<wallet, session, mount, ident, priv, prover, mail, budget>>

\* confirmTransaction returns whether or not the transaction has failed, and
\* its error field is not read.
Confirmed(t) ==
    /\ At(t, {"deposit", "withdraw"}, "confirm") /\ Goto(t, "done")
    /\ priv' = CASE ~Shown(t) -> priv
                 [] Shown(t) /\ task[t].kind = "deposit" -> [step |-> "deposited", tracking |-> {task[t].note}]
                 [] OTHER -> [priv EXCEPT !.step = "withdrawn"]
    /\ UNCHANGED <<wallet, session, mount, ident, prover, mail, notes, budget>>

\* Mutant: Reset forgets the note and stays at its step.
PrivateReset_KeepsStep ==
    /\ priv # NewPanel /\ priv' = [priv EXCEPT !.tracking = {}]
    /\ notes' = [notes EXCEPT !.forgotten = @ \cup priv.tracking]
    /\ UNCHANGED <<wallet, session, mount, task, ident, prover, mail, budget>>
PrivateReset ==
    /\ priv # NewPanel /\ priv' = NewPanel
    /\ notes' = [notes EXCEPT !.forgotten = @ \cup priv.tracking]
    /\ UNCHANGED <<wallet, session, mount, task, ident, prover, mail, budget>>

-----------------------------------------------------------------------------
\* The smoke test, the wallet and the page

SmokeTest ==
    /\ Click("smoke") /\ ~Busy({"smoke"}) /\ Start("smoke", "fixture", <<>>)
    /\ UNCHANGED <<wallet, session, mount, ident, priv, prover, mail, notes>>
Fixture(t) ==
    /\ At(t, {"smoke"}, "fixture") /\ Post(t, FixtureInputs)
    /\ UNCHANGED <<wallet, session, mount, ident, priv, notes, budget>>

SwitchAccount(w) ==
    /\ w # wallet /\ budget.switches > 0 /\ wallet' = w
    /\ budget' = [budget EXCEPT !.switches = @ - 1]
    /\ UNCHANGED <<session, mount, task, ident, priv, prover, mail, notes>>

\* The user leaves the page and comes back: the provider disposes of the suite,
\* terminating its worker, and the panels are new.  The session stays.
Leave ==
    /\ budget.leaves > 0 /\ mount < MaxMounts /\ mount' = mount + 1
    /\ budget' = [budget EXCEPT !.leaves = @ - 1]
    /\ prover' = [prover EXCEPT ![mount] = NewSuite]
    /\ mail' = {m \in mail : m.mount # mount}
    /\ task' = [t \in DOMAIN task |->
                  IF t \in Rejected(mount) THEN [task[t] EXCEPT !.pc = "done"] ELSE task[t]]
    /\ ident' = "idle" /\ priv' = NewPanel
    /\ notes' = [notes EXCEPT !.forgotten =
                   @ \cup priv.tracking \cup Orphans({t \in DOMAIN task : Shown(t) /\ Runs(t)})]
    /\ UNCHANGED <<wallet, session>>

Step(t) ==
    \/ Fails(t) \/ SignMessage(t) \/ DeriveIdentity(t) \/ Airdrop(t)
    \/ PrivateDeposit(t) \/ WithdrawPrepare(t) \/ WithdrawFinalize(t) \/ Send(t) \/ Confirmed(t)
    \/ Fixture(t)

Next ==
    \/ IdentityRun \/ IdentityReset \/ PrivateClick \/ PrivateReset \/ SmokeTest \/ Leave
    \/ \E w \in Wallet : SwitchAccount(w)
    \/ \E t \in Task : Step(t)
    \/ \E m \in mail : Reply(m)
    \/ \E m \in 1 .. MaxMounts : WorkerError(m)

Spec == Init /\ [][Next]_vars

\* A worker that has not failed answers (worker.ts answers in both branches);
\* the browser and the chain end every await of a task.
CurrentReply(t) ==
    \E m \in mail : /\ m.worker = prover[m.mount].worker /\ Reply(m)
                    /\ \E p \in Answered(m) : p.task = t
FairSpec == Spec /\ \A t \in Task : WF_vars(Step(t)) /\ WF_vars(CurrentReply(t))

-----------------------------------------------------------------------------

PCs == {"sign", "derive", "prove", "airdrop", "prepare", "finalize", "send", "confirm", "fixture", "done"}

\* Types of the panels, the tasks and the prover.
TypeOK ==
    /\ wallet \in Wallet /\ ident \in {"idle", "running", "ready", "error"}
    /\ priv.step \in {"idle", "deposited", "proving", "withdrawn"}
    /\ priv.tracking = {} \/ \E n \in Note : priv.tracking = {n}
    /\ priv.step = "deposited" => priv.tracking # {}
    /\ \A t \in DOMAIN task : task[t].pc \in PCs /\ task[t].owner \in Wallet
    /\ notes.spent \subseteq notes.landed /\ notes.landed \cup notes.forgotten \subseteq Note
    /\ \A m \in mail : m.id < prover[m.mount].nextId /\ m.worker \in 1 .. prover[m.mount].workers

(***************************************************************************)
(* Every proof belongs to the call that used it, whatever workers fail,    *)
(* answer late or answer out of order: the session holds a signature and a *)
(* proof of its own owner although the account may switch meanwhile, and a *)
(* withdrawal is sent with a proof of the note it withdraws.               *)
(***************************************************************************)
ProofsMatch ==
    /\ \A s \in session : s.sig = {s.owner} /\ s.proof = WalletCreateInputs(s.owner)
    /\ \A t \in DOMAIN task :
          task[t].kind = "withdraw" /\ task[t].proof # <<>> => task[t].proof = SpendInputs(task[t].note)

(***************************************************************************)
(* A private note on the chain is spent, or the panel or a running task    *)
(* still holds its opening, unless the tab was made to forget it: by Reset,*)
(* by leaving the page, or by an error after the deposit was sent.  A      *)
(* failed withdrawal, a second click and another account never lose it.    *)
(***************************************************************************)
NoteAccounted ==
    notes.landed \subseteq
       notes.spent \cup notes.forgotten \cup priv.tracking
       \cup {task[t].note : t \in {u \in DOMAIN task : task[u].kind = "deposit" /\ Runs(u)}}

\* Every click's task ends, although workers fail under it.
ClicksEnd == \A t \in Task : (t \in DOMAIN task) ~> (t \in DOMAIN task /\ task[t].pc = "done")
=============================================================================
