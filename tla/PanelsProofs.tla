---------------------------- MODULE PanelsProofs ----------------------------
(***************************************************************************)
(* The safety properties of the wallet panels and the browser prover, for  *)
(* any number of accounts, clicks, visits of the page and worker failures. *)
(***************************************************************************)
EXTENDS WalletPanels, TLAPS

Budget == [identity : Nat, private : Nat, smoke : Nat, switches : Nat,
           crashes : Nat, leaves : Nat, wallet : Wallet, known : BOOLEAN]
Mount == 1 .. MaxMounts
Kinds == {"identity", "deposit", "withdraw", "smoke"}
SpendProof == {SpendInputs(n) : n \in Note}
TaskRecord == [kind : Kinds, pc : PCs, mount : Mount, owner : Wallet,
               note : Note \cup {<<>>}, sig : SUBSET Wallet, proof : SpendProof \cup {<<>>}]
Pending == [id : Nat, task : Task]
Suite == [worker : Nat, workers : Nat, nextId : Nat, pending : SUBSET Pending]

\* The inputs that a task posts to its prover.
InputsOf(x) ==
    CASE x.kind = "identity" -> WalletCreateInputs(x.owner)
      [] x.kind = "withdraw" -> SpendInputs(x.note)
      [] OTHER -> FixtureInputs

\* Types of the page; every click that is left finds room among the tasks.
Page ==
    /\ wallet \in Wallet /\ ident \in {"idle", "running", "ready", "error"}
    /\ mount \in Mount
    /\ budget \in Budget
    /\ budget.identity + budget.private + budget.smoke + Len(task) <= MaxClicks
Tasks == task \in Seq(TaskRecord)
Chain == notes \in [landed : SUBSET Note, spent : SUBSET Note, forgotten : SUBSET Note]
Suites == prover \in [Mount -> Suite]

Sessions == \A s \in session : s.sig = {s.owner} /\ s.proof = WalletCreateInputs(s.owner)

\* What is known of a task at each of its stages.
Stages(x) ==
    /\ x.mount <= mount
    /\ x.kind = "identity" => x.pc \in {"sign", "derive", "prove", "airdrop", "done"}
    /\ x.kind = "deposit" => x.pc \in {"prepare", "send", "confirm", "done"}
    /\ x.kind = "withdraw" => x.pc \in {"prepare", "prove", "finalize", "send", "confirm", "done"}
    /\ x.kind = "smoke" => x.pc \in {"fixture", "prove", "done"}
    /\ x.kind \in {"deposit", "withdraw"} => x.note \in Note
    /\ x.kind = "identity" /\ x.pc \in {"prove", "airdrop"} => x.sig = {x.owner}
    /\ x.kind = "withdraw" /\ x.proof # <<>> => x.proof = SpendInputs(x.note)
    /\ x.kind = "withdraw" /\ x.pc \in {"prove", "finalize", "send"} => x.note \in notes.landed

\* A suite's pending requests are of tasks of its visit that await a proof,
\* one request each and under ids that were given out.
PendingOf(m) ==
    /\ prover[m].worker <= prover[m].workers
    /\ \A p \in prover[m].pending :
          /\ p.id < prover[m].nextId
          /\ p.task \in DOMAIN task /\ task[p.task].pc = "prove" /\ task[p.task].mount = m
    /\ \A p, q \in prover[m].pending : p.id = q.id \/ p.task = q.task => p = q

\* A request at a worker has an id that was given out, and when that is pending
\* still, the inputs of the task that awaits the answer.
MailOf(m) ==
    /\ m.mount \in Mount
    /\ m.id \in Nat /\ m.id < prover[m.mount].nextId
    /\ m.worker \in 1 .. prover[m.mount].workers
    /\ \A p \in prover[m.mount].pending : p.id = m.id => m.inputs = InputsOf(task[p.task])

\* The private panel tracks a note only while no deposit of this visit runs; a
\* deposit of an earlier visit has been forgotten.
Private(x) == x.kind \in {"deposit", "withdraw"} /\ x.pc # "done"
Panel ==
    /\ priv \in [step : {"idle", "deposited", "proving", "withdrawn"}, tracking : SUBSET Note]
    /\ priv.tracking = {} \/ \E n \in Note : priv.tracking = {n}
    /\ priv.step = "deposited" => priv.tracking # {}
    /\ priv.step = "idle" => priv.tracking = {}
    /\ \A t \in DOMAIN task : task[t].kind = "deposit" /\ Runs(t) =>
          IF Shown(t) THEN priv.tracking = {} ELSE task[t].note \in notes.forgotten
    /\ \A t, u \in DOMAIN task :
          Private(task[t]) /\ Private(task[u]) /\ Shown(t) /\ Shown(u) => t = u

IndInv ==
    /\ Page /\ Tasks /\ Chain /\ Suites /\ Sessions
    /\ \A t \in DOMAIN task : Stages(task[t])
    /\ \A m \in Mount : PendingOf(m)
    /\ \A m \in mail : MailOf(m)
    /\ notes.spent \subseteq notes.landed
    /\ Panel /\ NoteAccounted
-----------------------------------------------------------------------------
\* How a step changes the tasks: those of S go to pc, and nothing else changes.
SameCall(x, y) ==
    /\ x.kind = y.kind /\ x.mount = y.mount /\ x.owner = y.owner
    /\ x.note = y.note /\ x.sig = y.sig /\ x.proof = y.proof
Moved(S, pc) ==
    /\ Tasks' /\ DOMAIN task' = DOMAIN task /\ Len(task') = Len(task)
    /\ \A u \in DOMAIN task :
          SameCall(task'[u], task[u]) /\ task'[u].pc = IF u \in S THEN pc ELSE task[u].pc

\* A task's record can be replaced.
LEMMA TaskReplaced ==
  ASSUME Tasks, NEW t \in DOMAIN task, NEW x \in TaskRecord, task' = [task EXCEPT ![t] = x]
  PROVE  /\ Tasks' /\ DOMAIN task' = DOMAIN task /\ Len(task') = Len(task)
         /\ task'[t] = x
         /\ \A u \in DOMAIN task : u # t => task'[u] = task[u]
  BY DEF Tasks

LEMMA TaskTyped ==
  ASSUME Tasks, NEW t \in DOMAIN task
  PROVE  task[t] \in TaskRecord
  BY DEF Tasks

\* Goto moves one task.
LEMMA GotoMoves ==
  ASSUME Tasks, NEW t \in DOMAIN task, NEW pc \in PCs, Goto(t, pc)
  PROVE  Moved({t}, pc)
  <1> DEFINE x == [task[t] EXCEPT !.pc = pc]
  <1>1. task[t] \in TaskRecord
    BY TaskTyped
  <1>2. x \in TaskRecord /\ SameCall(x, task[t]) /\ x.pc = pc
    BY <1>1 DEF TaskRecord, SameCall
  <1>3. task' = [task EXCEPT ![t] = x]
    BY DEF Goto
  <1> HIDE DEF x
  <1>4. /\ Tasks' /\ DOMAIN task' = DOMAIN task /\ Len(task') = Len(task)
        /\ task'[t] = x
        /\ \A u \in DOMAIN task : u # t => task'[u] = task[u]
    BY <1>2, <1>3, TaskReplaced
  <1>5. QED
    BY <1>2, <1>4 DEF Moved, SameCall

\* A catch block moves the tasks it rejects to "done".
LEMMA CaughtMoves ==
  ASSUME Tasks, NEW ts,
         task' = [t \in DOMAIN task |-> IF t \in ts THEN [task[t] EXCEPT !.pc = "done"] ELSE task[t]]
  PROVE  Moved(ts, "done")
  <1>1. \A u \in DOMAIN task : task[u] \in TaskRecord
    BY DEF Tasks
  <1>2. ASSUME NEW u \in DOMAIN task
        PROVE  /\ task'[u] \in TaskRecord /\ SameCall(task'[u], task[u])
               /\ task'[u].pc = IF u \in ts THEN "done" ELSE task[u].pc
    <2>1. task[u] \in TaskRecord
      BY <1>1
    <2>2. [task[u] EXCEPT !.pc = "done"] \in TaskRecord
      BY <2>1 DEF TaskRecord, PCs
    <2>3. SameCall([task[u] EXCEPT !.pc = "done"], task[u]) /\ [task[u] EXCEPT !.pc = "done"].pc = "done"
      BY <2>1 DEF TaskRecord, SameCall
    <2>4. QED
      BY <2>1, <2>2, <2>3 DEF SameCall
  <1>3. Len(task) \in Nat /\ DOMAIN task = 1 .. Len(task)
    BY DEF Tasks
  <1>4. task' \in [1 .. Len(task) -> TaskRecord]
    BY <1>2, <1>3
  <1>5. task' \in Seq(TaskRecord) /\ DOMAIN task' = DOMAIN task /\ Len(task') = Len(task)
    BY <1>3, <1>4
  <1>6. QED
    BY <1>2, <1>5 DEF Moved, Tasks

\* A click appends a task.
LEMMA StartAppends ==
  ASSUME Page, Tasks, NEW kind \in Kinds, NEW pc \in PCs, NEW note \in Note \cup {<<>>},
         Start(kind, pc, note)
  PROVE  /\ Tasks' /\ Len(task') = Len(task) + 1
         /\ DOMAIN task' = DOMAIN task \cup {Len(task) + 1} /\ Len(task) + 1 \notin DOMAIN task
         /\ \A u \in DOMAIN task : task'[u] = task[u]
         /\ task'[Len(task) + 1] =
              [kind |-> kind, pc |-> pc, mount |-> mount, owner |-> wallet,
               note |-> note, sig |-> {}, proof |-> <<>>]
  <1> DEFINE x == [kind |-> kind, pc |-> pc, mount |-> mount, owner |-> wallet,
                   note |-> note, sig |-> {}, proof |-> <<>>]
  <1>1. x \in TaskRecord
    BY DEF TaskRecord, Page
  <1>2. task' = Append(task, x)
    BY DEF Start
  <1> HIDE DEF x
  <1>3. QED
    BY <1>1, <1>2 DEF Tasks, x

-----------------------------------------------------------------------------
\* What the steps that leave the prover alone preserve.

\* A move of tasks that await no proof leaves every request as it was.
LEMMA MoveKeepsRequests ==
  ASSUME IndInv, NEW S, NEW pc, Moved(S, pc), UNCHANGED <<prover, mail>>,
         \A u \in S : u \in DOMAIN task => task[u].pc # "prove"
  PROVE  /\ Suites'
         /\ (\A m \in Mount : PendingOf(m))'
         /\ (\A m \in mail : MailOf(m))'
  <1>1. Suites'
    BY DEF IndInv, Suites
  <1>2. ASSUME NEW m \in Mount  PROVE PendingOf(m)'
    BY DEF IndInv, PendingOf, Moved, SameCall
  <1>3. ASSUME NEW m \in mail  PROVE MailOf(m)'
    <2>1. MailOf(m)
      BY DEF IndInv
    <2>2. m.mount \in Mount /\ PendingOf(m.mount)
      BY <2>1 DEF IndInv, MailOf
    <2>3. ASSUME NEW p \in prover[m.mount].pending  PROVE InputsOf(task'[p.task]) = InputsOf(task[p.task])
      BY <2>2 DEF PendingOf, Moved, SameCall, InputsOf
    <2>4. QED
      BY <2>1, <2>3 DEF MailOf
  <1>4. QED
    BY <1>1, <1>2, <1>3

\* What is known of a task's stage stays known when nothing is taken off the
\* chain and the page is not left backwards.
LEMMA MoveKeepsStages ==
  ASSUME IndInv, NEW S, NEW pc, Moved(S, pc), mount' \in Nat, mount <= mount',
         notes.landed \subseteq notes'.landed,
         \A u \in S : u \in DOMAIN task => Stages([task[u] EXCEPT !.pc = pc])
  PROVE  (\A t \in DOMAIN task : Stages(task[t]))'
  <1> SUFFICES ASSUME NEW t \in DOMAIN task'
               PROVE  Stages(task[t])'
      OBVIOUS
  <1>1. t \in DOMAIN task /\ Stages(task[t]) /\ task[t] \in TaskRecord
    BY TaskTyped DEF IndInv, Moved
  <1>2. SameCall(task'[t], task[t]) /\ task'[t].pc = IF t \in S THEN pc ELSE task[t].pc
    BY <1>1 DEF Moved
  <1>3. mount \in Nat /\ task[t].mount \in Nat
    BY <1>1 DEF IndInv, Page, TaskRecord, Mount
  <1>4. CASE t \notin S
    BY <1>1, <1>2, <1>3, <1>4 DEF Stages, SameCall
  <1>5. CASE t \in S
    <2> DEFINE x == [task[t] EXCEPT !.pc = pc]
    <2>1. Stages(x)
      BY <1>1, <1>5
    <2>2. SameCall(x, task[t]) /\ x.pc = pc
      BY <1>1 DEF SameCall, TaskRecord
    <2> HIDE DEF x
    <2>3. x.mount \in Nat
      BY <1>3, <2>2 DEF SameCall
    <2>4. QED
      BY <1>2, <1>3, <1>5, <2>1, <2>2, <2>3 DEF Stages, SameCall
  <1>6. QED
    BY <1>4, <1>5

\* A task that ends, and one that runs on, leaves the private panel's claims
\* alone.
LEMMA MoveKeepsPanel ==
  ASSUME IndInv, NEW S, NEW pc, Moved(S, pc), UNCHANGED <<priv, mount>>,
         notes.forgotten \subseteq notes'.forgotten,
         \A u \in S : u \in DOMAIN task => task[u].pc # "done"
  PROVE  Panel'
  <1>1. \A u \in DOMAIN task : /\ task'[u].kind = task[u].kind /\ task'[u].mount = task[u].mount
                               /\ task'[u].note = task[u].note
                               /\ task'[u].pc # "done" => task[u].pc # "done"
    BY DEF Moved, SameCall
  <1>2. DOMAIN task' = DOMAIN task
    BY DEF Moved
  <1>3. QED
    BY <1>1, <1>2 DEF IndInv, Panel, Private, Runs, Shown

\* Every landed note stays accounted for when no deposit ends, or when the note
\* of each deposit that ends is forgotten or tracked.
LEMMA MoveKeepsNotes ==
  ASSUME IndInv, NEW S, NEW pc, Moved(S, pc),
         notes'.landed \subseteq notes.landed, notes.spent \subseteq notes'.spent,
         notes.forgotten \subseteq notes'.forgotten,
         priv.tracking \subseteq priv'.tracking \cup notes'.forgotten,
         \A u \in S : u \in DOMAIN task /\ task[u].kind = "deposit" /\ pc = "done"
                         => task[u].note \in priv'.tracking \cup notes'.forgotten
  PROVE  NoteAccounted'
  <1> SUFFICES ASSUME NEW n \in notes'.landed
               PROVE  \/ n \in notes'.spent \cup notes'.forgotten \cup priv'.tracking
                      \/ \E u \in DOMAIN task' : /\ task'[u].kind = "deposit" /\ task'[u].pc # "done"
                                                 /\ n = task'[u].note
      BY DEF NoteAccounted, Runs
  <1>1. \/ n \in notes.spent \cup notes.forgotten \cup priv.tracking
        \/ \E u \in DOMAIN task : /\ task[u].kind = "deposit" /\ task[u].pc # "done"
                                  /\ n = task[u].note
    BY DEF IndInv, NoteAccounted, Runs
  <1>2. CASE n \in notes.spent \cup notes.forgotten \cup priv.tracking
    BY <1>2
  <1>3. CASE \E u \in DOMAIN task : /\ task[u].kind = "deposit" /\ task[u].pc # "done"
                                    /\ n = task[u].note
    <2>1. PICK u \in DOMAIN task : /\ task[u].kind = "deposit" /\ task[u].pc # "done"
                                   /\ n = task[u].note
      BY <1>3
    <2>2. /\ DOMAIN task' = DOMAIN task /\ task'[u].kind = "deposit" /\ task'[u].note = n
          /\ task'[u].pc = IF u \in S THEN pc ELSE task[u].pc
      BY <2>1 DEF Moved, SameCall
    <2>3. QED
      BY <2>1, <2>2
  <1>4. QED
    BY <1>1, <1>2, <1>3

-----------------------------------------------------------------------------
\* The steps of a task that leave the prover alone.

\* A running task that awaits no proof and is not a deposit goes on.
LEMMA TaskGoesOn ==
  ASSUME IndInv, NEW t \in DOMAIN task, NEW pc \in PCs \ {"prove"}, Goto(t, pc),
         task[t].pc \notin {"prove", "done"},
         task[t].kind = "deposit" => pc # "done",
         Stages([task[t] EXCEPT !.pc = pc]),
         ident' \in {"idle", "running", "ready", "error"},
         UNCHANGED <<wallet, session, mount, priv, prover, mail, notes, budget>>
  PROVE  IndInv'
  <1>1. Moved({t}, pc)
    BY GotoMoves DEF IndInv
  <1>2. mount \in Nat
    BY DEF IndInv, Page, Mount
  <1>3. Page' /\ Tasks' /\ Chain' /\ Sessions' /\ (notes.spent \subseteq notes.landed)'
    BY <1>1 DEF IndInv, Page, Moved, Chain, Sessions
  <1>4. Suites' /\ (\A m \in Mount : PendingOf(m))' /\ (\A m \in mail : MailOf(m))'
    BY <1>1, MoveKeepsRequests
  <1>5. (\A u \in DOMAIN task : Stages(task[u]))'
    BY <1>1, <1>2, MoveKeepsStages
  <1>6. Panel'
    BY <1>1, MoveKeepsPanel
  <1>7. NoteAccounted'
    BY <1>1, MoveKeepsNotes
  <1>8. QED
    BY <1>3, <1>4, <1>5, <1>6, <1>7 DEF IndInv

LEMMA AirdropOK ==
  ASSUME IndInv, NEW t, Airdrop(t)  PROVE IndInv'
  <1>1. t \in DOMAIN task /\ task[t] \in TaskRecord /\ Stages(task[t])
    BY TaskTyped DEF IndInv, Airdrop, At
  <1>2. task[t].kind = "identity" /\ task[t].pc = "airdrop" /\ Goto(t, "done")
    BY DEF Airdrop, At
  <1>3. Stages([task[t] EXCEPT !.pc = "done"])
    BY <1>1, <1>2 DEF Stages, TaskRecord
  <1>4. ident' \in {"idle", "running", "ready", "error"}
    BY DEF Airdrop, IndInv, Page
  <1>5. QED
    BY <1>1, <1>2, <1>3, <1>4, TaskGoesOn DEF Airdrop, PCs

LEMMA PrivateDepositOK ==
  ASSUME IndInv, NEW t, PrivateDeposit(t)  PROVE IndInv'
  <1>1. t \in DOMAIN task /\ task[t] \in TaskRecord /\ Stages(task[t])
    BY TaskTyped DEF IndInv, PrivateDeposit, At
  <1>2. task[t].kind = "deposit" /\ task[t].pc = "prepare" /\ Goto(t, "send")
    BY DEF PrivateDeposit, At
  <1>3. Stages([task[t] EXCEPT !.pc = "send"])
    BY <1>1, <1>2 DEF Stages, TaskRecord
  <1>5. QED
    BY <1>1, <1>2, <1>3, TaskGoesOn DEF PrivateDeposit, PCs, IndInv, Page

LEMMA WithdrawFinalizeOK ==
  ASSUME IndInv, NEW t, WithdrawFinalize(t)  PROVE IndInv'
  <1>1. t \in DOMAIN task /\ task[t] \in TaskRecord /\ Stages(task[t])
    BY TaskTyped DEF IndInv, WithdrawFinalize, At
  <1>2. task[t].kind = "withdraw" /\ task[t].pc = "finalize" /\ Goto(t, "send")
    BY DEF WithdrawFinalize, At
  <1>3. Stages([task[t] EXCEPT !.pc = "send"])
    BY <1>1, <1>2 DEF Stages, TaskRecord
  <1>5. QED
    BY <1>1, <1>2, <1>3, TaskGoesOn DEF WithdrawFinalize, PCs, IndInv, Page

\* A request fails: an unfinished deposit is forgotten.
LEMMA FailsOK ==
  ASSUME IndInv, NEW t, Fails(t)  PROVE IndInv'
  <1>1. t \in DOMAIN task /\ task[t] \in TaskRecord /\ Stages(task[t])
    BY TaskTyped DEF IndInv, Fails
  <1>2. task[t].pc \notin {"prove", "done"}
    BY DEF Fails
  <1>3. Moved({t}, "done")
    BY CaughtMoves DEF Fails, Caught, IndInv
  <1>4. /\ notes' = [notes EXCEPT !.forgotten = @ \cup Orphans({t})]
        /\ UNCHANGED <<wallet, session, mount, priv, prover, mail, budget>>
        /\ ident' \in {ident, "error"}
    BY DEF Fails, Caught
  <1>5. Orphans({t}) \subseteq Note /\ (task[t].kind = "deposit" => task[t].note \in Orphans({t}))
    BY <1>1 DEF Orphans, Stages
  <1>6. Chain' /\ notes'.landed = notes.landed /\ notes'.spent = notes.spent
        /\ notes'.forgotten = notes.forgotten \cup Orphans({t})
    BY <1>4, <1>5 DEF IndInv, Chain
  <1>7. Stages([task[t] EXCEPT !.pc = "done"])
    BY <1>1, <1>2 DEF Stages, TaskRecord
  <1>8. mount \in Nat
    BY DEF IndInv, Page, Mount
  <1>9. Page' /\ Tasks' /\ Sessions' /\ (notes.spent \subseteq notes.landed)'
    BY <1>3, <1>4, <1>6 DEF IndInv, Page, Moved, Sessions
  <1>10. Suites' /\ (\A m \in Mount : PendingOf(m))' /\ (\A m \in mail : MailOf(m))'
    BY <1>2, <1>3, <1>4, MoveKeepsRequests
  <1>11. (\A u \in DOMAIN task : Stages(task[u]))'
    BY <1>3, <1>4, <1>6, <1>7, <1>8, MoveKeepsStages
  <1>12. Panel'
    BY <1>2, <1>3, <1>4, <1>6, MoveKeepsPanel
  <1>13. NoteAccounted'
    BY <1>3, <1>4, <1>5, <1>6, MoveKeepsNotes
  <1>14. QED
    BY <1>6, <1>9, <1>10, <1>11, <1>12, <1>13 DEF IndInv

\* The wallet signs: only the signature and the stage of the task change.
LEMMA SignMessageOK ==
  ASSUME IndInv, NEW t, SignMessage(t)  PROVE IndInv'
  <1>1. t \in DOMAIN task /\ task[t] \in TaskRecord /\ Stages(task[t])
    BY TaskTyped DEF IndInv, SignMessage, At
  <1> DEFINE x == [task[t] EXCEPT !.pc = "derive", !.sig = {wallet}]
  <1>2. /\ task[t].kind = "identity" /\ task[t].pc = "sign"
        /\ task' = [task EXCEPT ![t] = x]
        /\ UNCHANGED <<wallet, session, mount, ident, priv, prover, mail, notes, budget>>
    BY DEF SignMessage, At
  <1>3. x \in TaskRecord /\ x.pc = "derive" /\ x.kind = "identity" /\ x.mount = task[t].mount
    BY <1>1, <1>2 DEF TaskRecord, PCs, IndInv, Page
  <1> HIDE DEF x
  <1>4. /\ Tasks' /\ DOMAIN task' = DOMAIN task /\ Len(task') = Len(task)
        /\ task'[t] = x
        /\ \A u \in DOMAIN task : u # t => task'[u] = task[u]
    BY <1>1, <1>2, <1>3, TaskReplaced DEF IndInv
  <1>5. Page' /\ Chain' /\ Sessions' /\ (notes.spent \subseteq notes.landed)' /\ Suites'
    BY <1>2, <1>4 DEF IndInv, Page, Chain, Sessions, Suites
  <1>6. ASSUME NEW u \in DOMAIN task'  PROVE Stages(task[u])'
    <2>1. CASE u = t
      BY <1>1, <1>2, <1>3, <1>4, <2>1 DEF Stages
    <2>2. CASE u # t
      BY <1>2, <1>4, <2>2 DEF Stages, IndInv
    <2>3. QED
      BY <2>1, <2>2
  <1>7. ASSUME NEW m \in Mount  PROVE PendingOf(m)'
    BY <1>2, <1>4 DEF IndInv, PendingOf
  <1>8. ASSUME NEW m \in mail  PROVE MailOf(m)'
    <2>1. MailOf(m) /\ m.mount \in Mount /\ PendingOf(m.mount)
      BY DEF IndInv, MailOf
    <2>2. \A p \in prover[m.mount].pending : p.task \in DOMAIN task /\ p.task # t
      BY <1>2, <2>1 DEF PendingOf
    <2>3. QED
      BY <1>2, <1>4, <2>1, <2>2 DEF MailOf, InputsOf
  <1>9. Panel'
    BY <1>2, <1>3, <1>4 DEF IndInv, Panel, Private, Runs, Shown
  <1>10. NoteAccounted'
    BY <1>2, <1>3, <1>4 DEF IndInv, NoteAccounted, Runs
  <1>11. QED
    BY <1>2, <1>4, <1>5, <1>6, <1>7, <1>8, <1>9, <1>10 DEF IndInv

\* sendAndConfirm: a deposit lands while its task runs on; a withdrawal spends a
\* note that is on the chain.
LEMMA SendOK ==
  ASSUME IndInv, NEW t, Send(t)  PROVE IndInv'
  <1>1. t \in DOMAIN task /\ task[t] \in TaskRecord /\ Stages(task[t])
    BY TaskTyped DEF IndInv, Send, At
  <1>2. /\ task[t].kind \in {"deposit", "withdraw"} /\ task[t].pc = "send"
        /\ Goto(t, "confirm")
        /\ UNCHANGED <<wallet, session, mount, ident, priv, prover, mail, budget>>
    BY DEF Send, At, Goto
  <1>3. \/ notes' = notes
        \/ task[t].kind = "deposit" /\ notes' = [notes EXCEPT !.landed = @ \cup {task[t].note}]
        \/ task[t].kind = "withdraw" /\ notes' = [notes EXCEPT !.spent = @ \cup {task[t].note}]
    <2>1. PICK lands \in BOOLEAN :
             notes' = CASE ~lands -> notes
                        [] lands /\ task[t].kind = "deposit" -> [notes EXCEPT !.landed = @ \cup {task[t].note}]
                        [] OTHER -> [notes EXCEPT !.spent = @ \cup {task[t].note}]
      BY DEF Send
    <2>2. CASE ~lands
      BY <2>1, <2>2
    <2>3. CASE lands /\ task[t].kind = "deposit"
      BY <2>1, <2>3
    <2>4. CASE lands /\ task[t].kind # "deposit"
      <3>1. task[t].kind = "withdraw"
        BY <1>2, <2>4
      <3>2. QED
        BY <2>1, <2>4, <3>1
    <2>5. QED
      BY <2>2, <2>3, <2>4
  <1>4. /\ Chain' /\ notes.landed \subseteq notes'.landed /\ notes.spent \subseteq notes'.spent
        /\ notes'.forgotten = notes.forgotten /\ notes'.spent \subseteq notes'.landed
        /\ notes'.landed \subseteq notes.landed
              \cup {n \in Note : task[t].kind = "deposit" /\ n = task[t].note}
    BY <1>1, <1>2, <1>3 DEF IndInv, Chain, Stages
  <1>5. Moved({t}, "confirm")
    BY <1>1, <1>2, GotoMoves DEF IndInv, PCs
  <1>6. Stages([task[t] EXCEPT !.pc = "confirm"])
    BY <1>1, <1>2 DEF Stages, TaskRecord
  <1>7. mount \in Nat
    BY DEF IndInv, Page, Mount
  <1>8. Page' /\ Tasks' /\ Sessions'
    BY <1>2, <1>5 DEF IndInv, Page, Moved, Sessions
  <1>9. Suites' /\ (\A m \in Mount : PendingOf(m))' /\ (\A m \in mail : MailOf(m))'
    BY <1>2, <1>5, MoveKeepsRequests
  <1>10. (\A u \in DOMAIN task : Stages(task[u]))'
    BY <1>2, <1>4, <1>5, <1>6, <1>7, MoveKeepsStages
  <1>11. Panel'
    BY <1>2, <1>4, <1>5, MoveKeepsPanel
  <1>12. NoteAccounted'
    <2>1. \A u \in DOMAIN task : /\ task'[u].kind = task[u].kind /\ task'[u].note = task[u].note
                                 /\ task[u].pc # "done" => task'[u].pc # "done"
      BY <1>5 DEF Moved, SameCall
    <2>2. DOMAIN task' = DOMAIN task /\ priv' = priv
      BY <1>2, <1>5 DEF Moved
    <2>3. QED
      BY <1>1, <1>2, <1>4, <2>1, <2>2 DEF IndInv, NoteAccounted, Runs
  <1>13. QED
    BY <1>4, <1>8, <1>9, <1>10, <1>11, <1>12 DEF IndInv

\* confirmTransaction returns: the panel of this visit tracks the note.
LEMMA ConfirmedOK ==
  ASSUME IndInv, NEW t, Confirmed(t)  PROVE IndInv'
  <1>1. t \in DOMAIN task /\ task[t] \in TaskRecord /\ Stages(task[t])
    BY TaskTyped DEF IndInv, Confirmed, At
  <1>2. /\ task[t].kind \in {"deposit", "withdraw"} /\ task[t].pc = "confirm"
        /\ Goto(t, "done")
        /\ UNCHANGED <<wallet, session, mount, ident, prover, mail, notes, budget>>
    BY DEF Confirmed, At
  <1>3. \/ ~Shown(t) /\ priv' = priv
        \/ /\ Shown(t) /\ task[t].kind = "deposit"
           /\ priv' = [step |-> "deposited", tracking |-> {task[t].note}]
        \/ /\ Shown(t) /\ task[t].kind = "withdraw"
           /\ priv' = [priv EXCEPT !.step = "withdrawn"]
    <2>1. priv' = CASE ~Shown(t) -> priv
                 [] Shown(t) /\ task[t].kind = "deposit" -> [step |-> "deposited", tracking |-> {task[t].note}]
                 [] OTHER -> [priv EXCEPT !.step = "withdrawn"]
      BY DEF Confirmed
    <2>2. QED
      BY <1>2, <2>1
  <1>4. Moved({t}, "done")
    BY <1>1, <1>2, GotoMoves DEF IndInv, PCs
  <1>5. Stages([task[t] EXCEPT !.pc = "done"])
    BY <1>1, <1>2 DEF Stages, TaskRecord
  <1>6. mount \in Nat
    BY DEF IndInv, Page, Mount
  <1>7. Page' /\ Tasks' /\ Sessions' /\ Chain' /\ (notes.spent \subseteq notes.landed)'
    BY <1>2, <1>4 DEF IndInv, Page, Moved, Sessions, Chain
  <1>8. Suites' /\ (\A m \in Mount : PendingOf(m))' /\ (\A m \in mail : MailOf(m))'
    BY <1>2, <1>4, MoveKeepsRequests
  <1>9. (\A u \in DOMAIN task : Stages(task[u]))'
    BY <1>2, <1>4, <1>5, <1>6, MoveKeepsStages
  <1>10. \A u \in DOMAIN task : /\ task'[u].kind = task[u].kind /\ task'[u].mount = task[u].mount
                                /\ task'[u].note = task[u].note
                                /\ task'[u].pc # "done" => task[u].pc # "done" /\ u # t
    BY <1>4 DEF Moved, SameCall
  <1>11. DOMAIN task' = DOMAIN task
    BY <1>4 DEF Moved
  <1>12. CASE ~Shown(t)
    <2>1. priv' = priv
      BY <1>3, <1>12
    <2>2. Panel'
      BY <1>2, <1>4, <2>1, MoveKeepsPanel
    <2>3. task[t].kind = "deposit" => task[t].note \in notes.forgotten
      BY <1>1, <1>2, <1>12 DEF IndInv, Panel, Runs
    <2>4. NoteAccounted'
      BY <1>2, <1>4, <2>1, <2>3, MoveKeepsNotes
    <2>5. QED
      BY <1>7, <1>8, <1>9, <2>2, <2>4 DEF IndInv
  <1>13. CASE Shown(t) /\ task[t].kind = "deposit"
    <2>1. priv' = [step |-> "deposited", tracking |-> {task[t].note}] /\ priv.tracking = {}
      BY <1>1, <1>2, <1>3, <1>13 DEF IndInv, Panel, Runs
    <2>2. task[t].note \in Note
      BY <1>1, <1>13 DEF Stages
    <2>3. \A u \in DOMAIN task' : task'[u].kind = "deposit" /\ task'[u].pc # "done" => task'[u].mount # mount
      BY <1>1, <1>2, <1>10, <1>11, <1>13 DEF IndInv, Panel, Private, Shown
    <2>4. Panel'
      BY <1>2, <1>10, <1>11, <2>1, <2>2, <2>3 DEF IndInv, Panel, Private, Shown, Runs
    <2>5. NoteAccounted'
      BY <1>2, <1>4, <2>1, MoveKeepsNotes
    <2>6. QED
      BY <1>7, <1>8, <1>9, <2>4, <2>5 DEF IndInv
  <1>14. CASE Shown(t) /\ task[t].kind = "withdraw"
    <2>1. priv' = [priv EXCEPT !.step = "withdrawn"]
      BY <1>3, <1>14
    <2>2. priv'.tracking = priv.tracking /\ priv'.step = "withdrawn"
          /\ priv' \in [step : {"idle", "deposited", "proving", "withdrawn"}, tracking : SUBSET Note]
      BY <2>1 DEF IndInv, Panel
    <2>3. Panel'
      BY <1>2, <1>10, <1>11, <2>2 DEF IndInv, Panel, Private, Shown, Runs
    <2>4. NoteAccounted'
      BY <1>2, <1>4, <1>14, <2>2, MoveKeepsNotes
    <2>6. QED
      BY <1>7, <1>8, <1>9, <2>3, <2>4 DEF IndInv
  <1>15. QED
    BY <1>2, <1>12, <1>13, <1>14

-----------------------------------------------------------------------------
\* The prover.

\* The clicks that were made are among the tasks that the bound allows.
LEMMA TasksBounded ==
  ASSUME Page, Tasks  PROVE DOMAIN task \subseteq Task
  BY PanelsAssumption DEF Page, Tasks, Task, Budget

\* proveOne gives the request an id that no request has, pending or in a
\* worker's hands, with the inputs of its task.
LEMMA PostOK ==
  ASSUME IndInv, NEW t \in DOMAIN task, task[t].pc # "prove",
         Post(t, InputsOf(task[t]))
  PROVE  /\ Moved({t}, "prove") /\ Suites'
         /\ (\A m \in Mount : PendingOf(m))'
         /\ (\A m \in mail : MailOf(m))'
  <1> DEFINE h == task[t].mount
             s == prover[h]
             w == IF s.worker = 0 THEN s.workers + 1 ELSE s.worker
             ws == IF w > s.workers THEN w ELSE s.workers
             new == [id |-> s.nextId, task |-> t]
             ps == {p \in s.pending : p.id # s.nextId} \cup {new}
             suite == [worker |-> w, workers |-> ws, nextId |-> s.nextId + 1, pending |-> ps]
             letter == [mount |-> h, worker |-> w, id |-> s.nextId, inputs |-> InputsOf(task[t])]
  <1>1. /\ prover' = [prover EXCEPT ![h] = suite]
        /\ mail' = mail \cup {letter}
        /\ Goto(t, "prove")
    BY DEF Post
  <1>2. h \in Mount /\ t \in Task
    <2>1. task[t] \in TaskRecord
      BY TaskTyped DEF IndInv
    <2>2. QED
      BY <2>1, TasksBounded DEF IndInv, TaskRecord
  <1>3. s \in Suite /\ PendingOf(h)
    BY <1>2 DEF IndInv, Suites
  <1>4. w \in Nat /\ ws \in Nat /\ w >= 1 /\ w <= ws /\ s.workers <= ws /\ s.nextId \in Nat /\ s.workers \in Nat
    BY <1>3 DEF Suite, PendingOf
  <1>5. ps = s.pending \cup {new} /\ new \in Pending
    BY <1>2, <1>3 DEF Suite, Pending, PendingOf
  <1>6. suite \in Suite
    BY <1>3, <1>4, <1>5 DEF Suite
  <1>7. /\ suite.worker = w /\ suite.workers = ws /\ suite.nextId = s.nextId + 1
        /\ suite.pending = s.pending \cup {new}
        /\ new.id = s.nextId /\ new.task = t
        /\ letter.mount = h /\ letter.worker = w /\ letter.id = s.nextId
        /\ letter.inputs = InputsOf(task[t])
    BY <1>5
  <1> HIDE DEF w, ws, ps, suite, letter, new
  <1>8. Moved({t}, "prove")
    BY <1>1, GotoMoves DEF IndInv, PCs
  <1>9. Suites' /\ prover'[h] = suite /\ \A m \in Mount : m # h => prover'[m] = prover[m]
    BY <1>1, <1>2, <1>6 DEF IndInv, Suites
  <1>10. \A u \in DOMAIN task : u \in DOMAIN task' /\ SameCall(task'[u], task[u])
                                 /\ task'[u].pc = IF u = t THEN "prove" ELSE task[u].pc
    BY <1>8 DEF Moved
  <1>11. ASSUME NEW m \in Mount  PROVE PendingOf(m)'
    <2>1. CASE m # h
      BY <1>9, <1>10, <2>1 DEF IndInv, PendingOf, SameCall
    <2>2. CASE m = h
      <3>1. \A p \in s.pending : p.id \in Nat /\ p.id < s.nextId /\ p.task # t
        BY <1>3 DEF PendingOf, Suite, Pending
      <3>2. prover'[m].pending = s.pending \cup {new} /\ prover'[m].nextId = s.nextId + 1
            /\ prover'[m].worker = w /\ prover'[m].workers = ws
        BY <1>7, <1>9, <2>2
      <3>3. \A p \in prover'[m].pending :
              /\ p.id < prover'[m].nextId
              /\ p.task \in DOMAIN task' /\ task'[p.task].pc = "prove" /\ task'[p.task].mount = m
        BY <1>3, <1>4, <1>7, <1>10, <2>2, <3>1, <3>2 DEF PendingOf, SameCall
      <3>4. \A p, q \in prover'[m].pending : p.id = q.id \/ p.task = q.task => p = q
        BY <1>3, <1>4, <1>7, <3>1, <3>2 DEF PendingOf
      <3>5. QED
        BY <1>4, <3>2, <3>3, <3>4 DEF PendingOf
    <2>3. QED
      BY <2>1, <2>2
  <1>12. \A u \in DOMAIN task : InputsOf(task'[u]) = InputsOf(task[u])
    BY <1>10 DEF InputsOf, SameCall
  <1>13. ASSUME NEW m \in mail'  PROVE MailOf(m)'
    <2>1. CASE m = letter
      <3>1. \A p \in s.pending : p.id < s.nextId
        BY <1>3 DEF PendingOf
      <3>2. \A p \in s.pending : p.id \in Nat
        BY <1>3 DEF Suite, Pending
      <3>3. \A p \in prover'[h].pending : p.id = m.id => p = new
        BY <1>4, <1>7, <1>9, <2>1, <3>1, <3>2
      <3>4. \A p \in prover'[h].pending : p.id = m.id => m.inputs = InputsOf(task'[p.task])
        BY <1>7, <1>12, <2>1, <3>3
      <3>5. QED
        BY <1>2, <1>4, <1>7, <1>9, <2>1, <3>4 DEF MailOf
    <2>2. CASE m \in mail /\ m.mount # h
      <3>1. MailOf(m) /\ m.mount \in Mount /\ PendingOf(m.mount)
        BY <2>2 DEF IndInv, MailOf
      <3>2. QED
        BY <1>9, <1>12, <2>2, <3>1 DEF MailOf, PendingOf
    <2>3. CASE m \in mail /\ m.mount = h
      <3>1. MailOf(m)
        BY <2>3 DEF IndInv
      <3>2. \A p \in prover'[h].pending : p.id = m.id => p \in s.pending
        BY <1>4, <1>7, <1>9, <2>3, <3>1 DEF MailOf
      <3>3. \A p \in prover'[h].pending : p.id = m.id => m.inputs = InputsOf(task'[p.task])
        BY <1>3, <1>12, <2>3, <3>1, <3>2 DEF MailOf, PendingOf
      <3>4. QED
        BY <1>4, <1>7, <1>9, <2>3, <3>1, <3>3 DEF MailOf
    <2>4. QED
      BY <1>1, <2>1, <2>2, <2>3
  <1>14. QED
    BY <1>8, <1>9, <1>11, <1>13

\* A task that asks for a proof.
LEMMA AskOK ==
  ASSUME IndInv, NEW t \in DOMAIN task, task[t].pc \notin {"prove", "done"},
         Post(t, InputsOf(task[t])), Stages([task[t] EXCEPT !.pc = "prove"]),
         Panel', priv'.tracking = priv.tracking,
         UNCHANGED <<wallet, session, mount, ident, notes, budget>>
  PROVE  IndInv'
  <1>1. /\ Moved({t}, "prove") /\ Suites'
        /\ (\A m \in Mount : PendingOf(m))' /\ (\A m \in mail : MailOf(m))'
    BY PostOK
  <1>2. Page' /\ Tasks' /\ Chain' /\ Sessions' /\ (notes.spent \subseteq notes.landed)'
    BY <1>1 DEF IndInv, Page, Moved, Chain, Sessions
  <1>3. mount \in Nat
    BY DEF IndInv, Page, Mount
  <1>4. (\A u \in DOMAIN task : Stages(task[u]))'
    BY <1>1, <1>3, MoveKeepsStages
  <1>5. NoteAccounted'
    BY <1>1, MoveKeepsNotes
  <1>6. QED
    BY <1>1, <1>2, <1>4, <1>5 DEF IndInv

LEMMA DeriveIdentityOK ==
  ASSUME IndInv, NEW t, DeriveIdentity(t)  PROVE IndInv'
  <1>1. t \in DOMAIN task /\ task[t] \in TaskRecord /\ Stages(task[t])
    BY TaskTyped DEF IndInv, DeriveIdentity, At
  <1>2. /\ task[t].kind = "identity" /\ task[t].pc = "derive" /\ task[t].sig = {task[t].owner}
        /\ Post(t, WalletCreateInputs(task[t].owner))
        /\ UNCHANGED <<wallet, session, mount, ident, priv, notes, budget>>
    BY DEF DeriveIdentity, At, Verified
  <1>3. Post(t, InputsOf(task[t]))
    BY <1>2 DEF InputsOf
  <1>4. Stages([task[t] EXCEPT !.pc = "prove"])
    BY <1>1, <1>2 DEF Stages, TaskRecord
  <1>5. Moved({t}, "prove")
    BY <1>1, <1>2, <1>3, PostOK
  <1>6. Panel'
    BY <1>2, <1>5, MoveKeepsPanel
  <1>7. QED
    BY <1>1, <1>2, <1>3, <1>4, <1>6, AskOK

LEMMA FixtureOK ==
  ASSUME IndInv, NEW t, Fixture(t)  PROVE IndInv'
  <1>1. t \in DOMAIN task /\ task[t] \in TaskRecord /\ Stages(task[t])
    BY TaskTyped DEF IndInv, Fixture, At
  <1>2. /\ task[t].kind = "smoke" /\ task[t].pc = "fixture"
        /\ Post(t, FixtureInputs)
        /\ UNCHANGED <<wallet, session, mount, ident, priv, notes, budget>>
    BY DEF Fixture, At
  <1>3. Post(t, InputsOf(task[t]))
    BY <1>2 DEF InputsOf
  <1>4. Stages([task[t] EXCEPT !.pc = "prove"])
    BY <1>1, <1>2 DEF Stages, TaskRecord
  <1>5. Moved({t}, "prove")
    BY <1>1, <1>2, <1>3, PostOK
  <1>6. Panel'
    BY <1>2, <1>5, MoveKeepsPanel
  <1>7. QED
    BY <1>1, <1>2, <1>3, <1>4, <1>6, AskOK

LEMMA WithdrawPrepareOK ==
  ASSUME IndInv, NEW t, WithdrawPrepare(t)  PROVE IndInv'
  <1>1. t \in DOMAIN task /\ task[t] \in TaskRecord /\ Stages(task[t])
    BY TaskTyped DEF IndInv, WithdrawPrepare, At
  <1>2. /\ task[t].kind = "withdraw" /\ task[t].pc = "prepare" /\ task[t].note \in notes.landed
        /\ Post(t, SpendInputs(task[t].note))
        /\ priv' = IF Shown(t) THEN [priv EXCEPT !.step = "proving"] ELSE priv
        /\ UNCHANGED <<wallet, session, mount, ident, notes, budget>>
    BY DEF WithdrawPrepare, At
  <1>3. Post(t, InputsOf(task[t]))
    BY <1>2 DEF InputsOf
  <1>4. Stages([task[t] EXCEPT !.pc = "prove"])
    BY <1>1, <1>2 DEF Stages, TaskRecord
  <1>5. Moved({t}, "prove")
    BY <1>1, <1>2, <1>3, PostOK
  <1>6. /\ priv'.tracking = priv.tracking /\ priv'.step \in {priv.step, "proving"}
        /\ priv' \in [step : {"idle", "deposited", "proving", "withdrawn"}, tracking : SUBSET Note]
    BY <1>2 DEF IndInv, Panel
  <1>7. \A u \in DOMAIN task : /\ task'[u].kind = task[u].kind /\ task'[u].mount = task[u].mount
                               /\ task'[u].note = task[u].note
                               /\ task'[u].pc # "done" => task[u].pc # "done"
    BY <1>2, <1>5 DEF Moved, SameCall
  <1>8. Panel'
    BY <1>2, <1>5, <1>6, <1>7 DEF IndInv, Panel, Private, Runs, Shown, Moved
  <1>9. QED
    BY <1>1, <1>2, <1>3, <1>4, <1>6, <1>8, AskOK

\* The tasks whose requests do not end when a visit's suite becomes s.
OthersWait(h, s) ==
    \A u \in DOMAIN task :
       (\A p \in prover[h].pending \ s.pending : p.task # u)
          => SameCall(task'[u], task[u]) /\ task'[u].pc = task[u].pc

\* Requests of one visit end, and only their tasks change: the others still
\* await their proofs, in this visit and in every other.
LEMMA RequestsEnd ==
  ASSUME IndInv, NEW h \in Mount, NEW suite \in Suite,
         prover' = [prover EXCEPT ![h] = suite], mail' \subseteq mail,
         suite.pending \subseteq prover[h].pending, suite.worker <= suite.workers,
         \/ suite.nextId = prover[h].nextId /\ suite.workers = prover[h].workers
         \/ suite.pending = {} /\ \A m \in mail' : m.mount # h,
         DOMAIN task' = DOMAIN task, OthersWait(h, suite)
  PROVE  /\ Suites'
         /\ (\A m \in Mount : PendingOf(m))'
         /\ (\A m \in mail : MailOf(m))'
  <1>1. Suites' /\ prover'[h] = suite /\ \A m \in Mount : m # h => prover'[m] = prover[m]
    BY DEF IndInv, Suites
  <1>2. \A m \in Mount : PendingOf(m)
    BY DEF IndInv
  <1>3. ASSUME NEW g \in Mount, NEW q \in prover'[g].pending
        PROVE  /\ q \in prover[g].pending /\ q.task \in DOMAIN task
               /\ SameCall(task'[q.task], task[q.task]) /\ task'[q.task].pc = task[q.task].pc
    <2>1. q \in prover[g].pending /\ (g = h => q \in suite.pending)
      BY <1>1, <1>3
    <2>2. q.task \in DOMAIN task /\ task[q.task].mount = g
      BY <1>2, <2>1 DEF PendingOf
    <2>3. \A p \in prover[h].pending : task[p.task].mount = h
      BY <1>2 DEF PendingOf
    <2>4. \A p \in prover[h].pending \ suite.pending : p.task # q.task
      <3>1. CASE g = h
        BY <1>2, <2>1, <3>1 DEF PendingOf
      <3>2. CASE g # h
        BY <2>2, <2>3, <3>2
      <3>3. QED
        BY <3>1, <3>2
    <2>5. QED
      BY <2>1, <2>2, <2>4 DEF OthersWait
  <1>4. ASSUME NEW g \in Mount  PROVE PendingOf(g)'
    <2>1. PendingOf(g)
      BY <1>2
    <2>2. \A q \in prover'[g].pending :
             q.task \in DOMAIN task' /\ task'[q.task].pc = "prove" /\ task'[q.task].mount = g
      BY <1>3, <2>1 DEF PendingOf, SameCall
    <2>3. \A p, q \in prover'[g].pending : p.id = q.id \/ p.task = q.task => p = q
      BY <1>3, <2>1 DEF PendingOf
    <2>4. prover'[g].worker <= prover'[g].workers /\ \A q \in prover'[g].pending : q.id < prover'[g].nextId
      <3>1. CASE g = h
        BY <1>1, <2>1, <3>1 DEF PendingOf
      <3>2. CASE g # h
        BY <1>1, <2>1, <3>2 DEF PendingOf
      <3>3. QED
        BY <3>1, <3>2
    <2>5. QED
      BY <2>2, <2>3, <2>4 DEF PendingOf
  <1>5. ASSUME NEW m \in mail'  PROVE MailOf(m)'
    <2>1. m \in mail /\ MailOf(m) /\ m.mount \in Mount
      BY <1>5 DEF IndInv, MailOf
    <2>2. prover'[m.mount].nextId = prover[m.mount].nextId
          /\ prover'[m.mount].workers = prover[m.mount].workers
      BY <1>1, <1>5, <2>1
    <2>3. ASSUME NEW p \in prover'[m.mount].pending, p.id = m.id
          PROVE  m.inputs = InputsOf(task'[p.task])
      <3>1. p \in prover[m.mount].pending /\ SameCall(task'[p.task], task[p.task])
        BY <1>3, <2>1
      <3>2. InputsOf(task'[p.task]) = InputsOf(task[p.task])
        BY <3>1 DEF SameCall, InputsOf
      <3>3. QED
        BY <2>1, <2>3, <3>1, <3>2 DEF MailOf
    <2>4. QED
      BY <2>1, <2>2, <2>3 DEF MailOf
  <1>6. QED
    BY <1>1, <1>4, <1>5

\* A worker's answer reaches the one task that awaits it, with the proof of
\* that task's own inputs.
LEMMA ReplyOK ==
  ASSUME IndInv, NEW m \in mail, Reply(m)  PROVE IndInv'
  <1> DEFINE h == m.mount
             A == Answered(m)
             suite == [prover[h] EXCEPT !.pending = @ \ A]
  <1>1. MailOf(m) /\ h \in Mount /\ PendingOf(h) /\ prover[h] \in Suite
    BY DEF IndInv, MailOf, Suites
  <1>2. /\ prover' = [prover EXCEPT ![h] = suite] /\ mail' \subseteq mail
        /\ UNCHANGED <<wallet, mount, priv, notes, budget>>
    BY <1>1 DEF Reply, IndInv, Suites
  <1>3. /\ suite \in Suite /\ suite.pending = prover[h].pending \ A /\ suite.worker <= suite.workers
        /\ suite.nextId = prover[h].nextId /\ suite.workers = prover[h].workers
    BY <1>1 DEF Suite, PendingOf
  <1>4. A \subseteq prover[h].pending
    BY DEF Answered
  <1> HIDE DEF suite
  <1>5. mount \in Nat
    BY DEF IndInv, Page, Mount
  <1>6. CASE A = {} /\ UNCHANGED <<session, task, ident>>
    <2>1. Suites' /\ (\A g \in Mount : PendingOf(g))' /\ (\A g \in mail : MailOf(g))'
      <3>1. OthersWait(h, suite) /\ DOMAIN task' = DOMAIN task
        BY <1>6 DEF OthersWait, SameCall
      <3>2. suite.pending \subseteq prover[h].pending
        BY <1>3
      <3>3. QED
        BY <1>1, <1>2, <1>3, <3>1, <3>2, RequestsEnd
    <2>2. Panel' /\ NoteAccounted'
      BY <1>2, <1>6 DEF IndInv, Panel, NoteAccounted, Runs, Shown, Private
    <2>3. QED
      BY <1>2, <1>6, <2>1, <2>2 DEF IndInv, Page, Tasks, Chain, Sessions, Stages
  <1>7. ASSUME NEW p \in A, Proved(p.task, m.inputs) \/ (Caught({p.task}) /\ UNCHANGED session)
        PROVE  IndInv'
    <2> DEFINE t == p.task
    <2>1. /\ A = {p} /\ t \in DOMAIN task /\ task[t].pc = "prove"
          /\ m.inputs = InputsOf(task[t])
      BY <1>1, <1>4, <1>7 DEF PendingOf, MailOf, Answered
    <2>2. task[t] \in TaskRecord /\ Stages(task[t])
      BY <2>1, TaskTyped DEF IndInv
    <2>3. prover[h].pending \ suite.pending = {p}
      BY <1>3, <1>4, <2>1
    <2>4. ASSUME NEW pc \in PCs \ {"prove"}, Moved({t}, pc), Sessions',
                 Stages([task[t] EXCEPT !.pc = pc]), ident' \in {ident, "error"}
          PROVE  IndInv'
      <3>1. Suites' /\ (\A g \in Mount : PendingOf(g))' /\ (\A g \in mail : MailOf(g))'
        <4>1. OthersWait(h, suite) /\ DOMAIN task' = DOMAIN task
          BY <2>3, <2>4 DEF Moved, OthersWait
        <4>2. suite.pending \subseteq prover[h].pending
          BY <1>3
        <4>3. QED
          BY <1>1, <1>2, <1>3, <4>1, <4>2, RequestsEnd
      <3>2. (\A u \in DOMAIN task : Stages(task[u]))'
        BY <1>2, <1>5, <2>4, MoveKeepsStages
      <3>3. Panel'
        BY <1>2, <2>1, <2>4, MoveKeepsPanel
      <3>4. task[t].kind # "deposit"
        BY <2>1, <2>2 DEF Stages
      <3>5. NoteAccounted'
        BY <1>2, <2>4, <3>4, MoveKeepsNotes
      <3>6. QED
        BY <1>2, <2>4, <3>1, <3>2, <3>3, <3>5 DEF IndInv, Page, Moved, Chain
    <2>5. CASE Caught({t}) /\ UNCHANGED session
      <3>1. Moved({t}, "done") /\ ident' \in {ident, "error"} /\ Sessions'
        BY <2>5, CaughtMoves DEF Caught, IndInv, Sessions
      <3>2. Stages([task[t] EXCEPT !.pc = "done"])
        BY <2>1, <2>2 DEF Stages, TaskRecord
      <3>3. QED
        BY <2>4, <3>1, <3>2 DEF PCs
    <2>6. CASE /\ task[t].kind = "identity" /\ m.inputs = WalletCreateInputs(task[t].owner)
               /\ session' \in {{[SessionOf(task[t].owner) EXCEPT !.sig = task[t].sig,
                                                                  !.proof = m.inputs]}, session}
               /\ Goto(t, "airdrop") /\ UNCHANGED ident
      <3>1. task[t].sig = {task[t].owner}
        BY <2>1, <2>2, <2>6 DEF Stages
      <3>2. Sessions'
        <4> DEFINE new == [SessionOf(task[t].owner) EXCEPT !.sig = task[t].sig, !.proof = m.inputs]
        <4>1. new.owner = task[t].owner /\ new.sig = task[t].sig /\ new.proof = m.inputs
          BY DEF SessionOf
        <4>2. session' = session \/ session' = {new}
          BY <2>6
        <4> HIDE DEF new
        <4>3. CASE session' = session
          BY <4>3 DEF Sessions, IndInv
        <4>4. CASE session' = {new}
          BY <2>6, <3>1, <4>1, <4>4 DEF Sessions
        <4>5. QED
          BY <4>2, <4>3, <4>4
      <3>3. Moved({t}, "airdrop")
        BY <2>1, <2>6, GotoMoves DEF IndInv, PCs
      <3>4. Stages([task[t] EXCEPT !.pc = "airdrop"])
        BY <2>1, <2>2, <2>6 DEF Stages, TaskRecord
      <3>5. QED
        BY <2>4, <2>6, <3>2, <3>3, <3>4 DEF PCs
    <2>7. CASE /\ task[t].kind = "smoke" /\ Goto(t, "done") /\ UNCHANGED <<session, ident>>
      <3>1. Moved({t}, "done") /\ Sessions'
        BY <2>1, <2>7, GotoMoves DEF IndInv, PCs, Sessions
      <3>2. Stages([task[t] EXCEPT !.pc = "done"])
        BY <2>1, <2>2 DEF Stages, TaskRecord
      <3>3. QED
        BY <2>4, <2>7, <3>1, <3>2 DEF PCs
    <2>8. CASE /\ task[t].kind = "withdraw"
               /\ task' = [task EXCEPT ![t].pc = "finalize", ![t].proof = m.inputs]
               /\ UNCHANGED <<session, ident>>
      <3> DEFINE x == [task[t] EXCEPT !.pc = "finalize", !.proof = m.inputs]
      <3>1. m.inputs = SpendInputs(task[t].note) /\ task[t].note \in Note
        BY <2>1, <2>2, <2>8 DEF InputsOf, Stages
      <3>2. /\ x \in TaskRecord /\ x.pc = "finalize" /\ x.proof = m.inputs
            /\ x.kind = "withdraw" /\ x.mount = task[t].mount /\ x.note = task[t].note
        BY <2>2, <2>8, <3>1 DEF TaskRecord, PCs, SpendProof
      <3>3. task' = [task EXCEPT ![t] = x]
        BY <2>8
      <3> HIDE DEF x
      <3>4. /\ Tasks' /\ DOMAIN task' = DOMAIN task /\ Len(task') = Len(task)
            /\ task'[t] = x
            /\ \A u \in DOMAIN task : u # t => task'[u] = task[u]
        BY <2>1, <3>2, <3>3, TaskReplaced DEF IndInv
      <3>5. Suites' /\ (\A g \in Mount : PendingOf(g))' /\ (\A g \in mail : MailOf(g))'
        <4>1. OthersWait(h, suite) /\ DOMAIN task' = DOMAIN task
          BY <2>3, <3>4 DEF SameCall, OthersWait
        <4>2. suite.pending \subseteq prover[h].pending
          BY <1>3
        <4>3. QED
          BY <1>1, <1>2, <1>3, <4>1, <4>2, RequestsEnd
      <3>6. ASSUME NEW u \in DOMAIN task'  PROVE Stages(task[u])'
        <4>1. CASE u = t
          BY <1>2, <2>1, <2>2, <2>8, <3>1, <3>2, <3>4, <4>1 DEF Stages
        <4>2. CASE u # t
          BY <1>2, <3>4, <4>2 DEF Stages, IndInv
        <4>3. QED
          BY <4>1, <4>2
      <3>7. Panel'
        BY <1>2, <2>1, <2>8, <3>2, <3>4 DEF IndInv, Panel, Private, Runs, Shown
      <3>8. NoteAccounted'
        BY <1>2, <2>8, <3>2, <3>4 DEF IndInv, NoteAccounted, Runs
      <3>9. QED
        BY <1>2, <2>8, <3>4, <3>5, <3>6, <3>7, <3>8 DEF IndInv, Page, Chain, Sessions
    <2>9. QED
      BY <1>7, <2>5, <2>6, <2>7, <2>8 DEF Proved
  <1>8. QED
    BY <1>6, <1>7 DEF Reply

\* A worker's error event rejects every pending request of its suite.
LEMMA WorkerErrorOK ==
  ASSUME IndInv, NEW h \in Mount, WorkerError(h)  PROVE IndInv'
  <1> DEFINE suite == [prover[h] EXCEPT !.worker = 0, !.pending = {}]
  <1>1. prover[h] \in Suite /\ PendingOf(h)
    BY DEF IndInv, Suites
  <1>2. /\ prover' = [prover EXCEPT ![h] = suite] /\ Caught(Rejected(h))
        /\ budget' = [budget EXCEPT !.crashes = @ - 1] /\ budget.crashes > 0
        /\ UNCHANGED <<wallet, session, mount, priv, mail, notes>>
    BY DEF WorkerError, Dropped
  <1>3. /\ suite \in Suite /\ suite.pending = {} /\ suite.worker <= suite.workers
        /\ suite.nextId = prover[h].nextId /\ suite.workers = prover[h].workers
    <2>1. /\ suite.worker = 0 /\ suite.pending = {} /\ suite.nextId = prover[h].nextId
          /\ suite.workers = prover[h].workers /\ prover[h].workers \in Nat
      BY <1>1 DEF Suite
    <2>2. suite \in Suite
      BY <1>1 DEF Suite
    <2>3. QED
      BY <2>1, <2>2
  <1> HIDE DEF suite
  <1>4. Moved(Rejected(h), "done") /\ ident' \in {ident, "error"}
    BY <1>2, CaughtMoves DEF Caught, IndInv
  <1>5. \A u \in Rejected(h) : u \in DOMAIN task /\ task[u].pc = "prove"
    BY <1>1 DEF Rejected, PendingOf
  <1>6. Suites' /\ (\A g \in Mount : PendingOf(g))' /\ (\A g \in mail : MailOf(g))'
    <2>1. OthersWait(h, suite)
      BY <1>3, <1>4 DEF Moved, Rejected, OthersWait
    <2>2. DOMAIN task' = DOMAIN task
      BY <1>4 DEF Moved
    <2>3. QED
      BY <1>2, <1>3, <2>1, <2>2, RequestsEnd
  <1>7. mount \in Nat
    BY DEF IndInv, Page, Mount
  <1>8. \A u \in Rejected(h) : Stages([task[u] EXCEPT !.pc = "done"]) /\ task[u].kind # "deposit"
    <2> SUFFICES ASSUME NEW u \in Rejected(h)
                 PROVE  Stages([task[u] EXCEPT !.pc = "done"]) /\ task[u].kind # "deposit"
        OBVIOUS
    <2>1. task[u] \in TaskRecord /\ Stages(task[u]) /\ task[u].pc = "prove"
      BY <1>5, TaskTyped DEF IndInv
    <2>2. QED
      BY <2>1 DEF Stages, TaskRecord
  <1>9. (\A u \in DOMAIN task : Stages(task[u]))'
    BY <1>2, <1>4, <1>7, <1>8, MoveKeepsStages
  <1>10. Panel'
    BY <1>2, <1>4, <1>5, MoveKeepsPanel
  <1>11. NoteAccounted'
    BY <1>2, <1>4, <1>8, MoveKeepsNotes
  <1>12. budget' \in Budget /\ budget'.identity = budget.identity
         /\ budget'.private = budget.private /\ budget'.smoke = budget.smoke
    <2>1. budget \in Budget
      BY DEF IndInv, Page
    <2>2. budget.crashes - 1 \in Nat
      BY <1>2, <2>1 DEF Budget
    <2>3. QED
      BY <1>2, <2>1, <2>2 DEF Budget
  <1>13. Page'
    <2>1. Len(task') = Len(task) /\ Page
      BY <1>4 DEF IndInv, Moved
    <2>2. wallet' \in Wallet /\ mount' \in Mount
      BY <1>2, <2>1 DEF Page
    <2>5. ident' \in {"idle", "running", "ready", "error"}
      BY <1>4, <2>1 DEF Page
    <2>3. budget'.identity + budget'.private + budget'.smoke + Len(task') <= MaxClicks
      BY <1>12, <2>1 DEF Page
    <2>4. QED
      BY <1>12, <2>2, <2>3, <2>5 DEF Page
  <1>14. QED
    BY <1>2, <1>4, <1>6, <1>9, <1>10, <1>11, <1>13 DEF IndInv, Moved, Chain, Sessions

\* The page is left: its requests end, and what its deposits may still land is
\* forgotten.
LEMMA LeaveOK ==
  ASSUME IndInv, Leave  PROVE IndInv'
  <1> DEFINE R == Rejected(mount)
             gone == Orphans({t \in DOMAIN task : Shown(t) /\ Runs(t)})
  <1>1. mount \in Mount /\ mount \in Nat /\ mount' = mount + 1 /\ mount' \in Mount
    BY PanelsAssumption DEF IndInv, Page, Mount, Leave
  <1>2. prover[mount] \in Suite /\ PendingOf(mount)
    BY <1>1 DEF IndInv, Suites
  <1>3. /\ prover' = [prover EXCEPT ![mount] = NewSuite]
        /\ mail' \subseteq mail /\ \A m \in mail' : m.mount # mount
        /\ budget' = [budget EXCEPT !.leaves = @ - 1] /\ budget.leaves > 0
        /\ ident' = "idle" /\ priv' = NewPanel
        /\ notes' = [notes EXCEPT !.forgotten = @ \cup priv.tracking \cup gone]
        /\ UNCHANGED <<wallet, session>>
    BY DEF Leave
  <1>4. Moved(R, "done")
    BY CaughtMoves DEF Leave, IndInv
  <1>5. \A u \in R : u \in DOMAIN task /\ task[u].pc = "prove"
    BY <1>2 DEF Rejected, PendingOf
  <1>6. /\ NewSuite \in Suite /\ NewSuite.pending = {} /\ NewSuite.worker <= NewSuite.workers
    BY DEF Suite, NewSuite
  <1>7. Suites' /\ (\A g \in Mount : PendingOf(g))' /\ (\A g \in mail : MailOf(g))'
    <2>1. OthersWait(mount, NewSuite)
      BY <1>4, <1>6 DEF Moved, Rejected, OthersWait
    <2>2. DOMAIN task' = DOMAIN task
      BY <1>4 DEF Moved
    <2>3. QED
      BY <1>1, <1>3, <1>6, <2>1, <2>2, RequestsEnd
  <1>8. gone \subseteq Note /\ \A t \in DOMAIN task :
           task[t].kind = "deposit" /\ Shown(t) /\ Runs(t) => task[t].note \in gone
    BY DEF Orphans, IndInv, Stages
  <1> HIDE DEF gone
  <1>9. /\ Chain' /\ notes'.landed = notes.landed /\ notes'.spent = notes.spent
        /\ notes'.forgotten = notes.forgotten \cup priv.tracking \cup gone
    BY <1>3, <1>8 DEF IndInv, Chain, Panel
  <1>10. \A u \in R : Stages([task[u] EXCEPT !.pc = "done"]) /\ task[u].kind # "deposit"
    <2> SUFFICES ASSUME NEW u \in R
                 PROVE  Stages([task[u] EXCEPT !.pc = "done"]) /\ task[u].kind # "deposit"
        OBVIOUS
    <2>1. task[u] \in TaskRecord /\ Stages(task[u]) /\ task[u].pc = "prove"
      BY <1>5, TaskTyped DEF IndInv
    <2>2. QED
      BY <2>1 DEF Stages, TaskRecord
  <1>11. (\A u \in DOMAIN task : Stages(task[u]))'
    <2>1. mount' \in Nat /\ mount <= mount' /\ notes.landed \subseteq notes'.landed
      BY <1>1, <1>9
    <2>2. QED
      BY <1>4, <1>10, <2>1, MoveKeepsStages
  <1>12. NoteAccounted'
    BY <1>4, <1>9, <1>10, MoveKeepsNotes
  <1>13. Panel'
    <2>1. \A u \in DOMAIN task' : /\ u \in DOMAIN task
                                  /\ task'[u].kind = task[u].kind /\ task'[u].mount = task[u].mount
                                  /\ task'[u].note = task[u].note
                                  /\ task'[u].pc # "done" => task[u].pc # "done"
      BY <1>4 DEF Moved, SameCall
    <2>2. \A u \in DOMAIN task' : ~Shown(u)'
      <3> SUFFICES ASSUME NEW u \in DOMAIN task'  PROVE task'[u].mount # mount + 1
          BY <1>1 DEF Shown
      <3>1. task[u] \in TaskRecord /\ Stages(task[u]) /\ task'[u].mount = task[u].mount
        BY <2>1, TaskTyped DEF IndInv
      <3>2. task[u].mount \in Nat /\ task[u].mount <= mount
        BY <3>1 DEF TaskRecord, Mount, Stages
      <3>3. QED
        BY <1>1, <3>1, <3>2
    <2>3. \A u \in DOMAIN task' : task'[u].kind = "deposit" /\ Runs(u)' => task'[u].note \in notes'.forgotten
      BY <1>8, <1>9, <2>1 DEF Runs, IndInv, Panel
    <2>4. QED
      BY <1>3, <2>2, <2>3 DEF Panel, NewPanel
  <1>14. budget' \in Budget /\ budget'.identity = budget.identity
         /\ budget'.private = budget.private /\ budget'.smoke = budget.smoke
    <2>1. budget' = [budget EXCEPT !.leaves = @ - 1] /\ budget.leaves > 0 /\ budget \in Budget
      BY <1>3 DEF IndInv, Page
    <2>2. QED
      BY <2>1 DEF Budget
  <1>15. Page'
    BY <1>1, <1>3, <1>4, <1>14 DEF IndInv, Page, Moved
  <1>16. QED
    BY <1>3, <1>4, <1>7, <1>9, <1>11, <1>12, <1>13, <1>15 DEF IndInv, Moved, Sessions

-----------------------------------------------------------------------------
\* The clicks.

\* A click takes one of the clicks that are left.
LEMMA ClickCounts ==
  ASSUME Page, NEW panel \in {"identity", "private", "smoke"}, Click(panel)
  PROVE  /\ budget' \in Budget
         /\ budget'.identity + budget'.private + budget'.smoke + 1
              <= budget.identity + budget.private + budget.smoke
  <1>1. budget \in Budget /\ budget[panel] > 0 /\ budget' = [budget EXCEPT ![panel] = @ - 1]
    BY DEF Page, Click
  <1>2. CASE panel = "identity"
    BY <1>1, <1>2 DEF Budget
  <1>3. CASE panel = "private"
    BY <1>1, <1>3 DEF Budget
  <1>4. CASE panel = "smoke"
    BY <1>1, <1>4 DEF Budget
  <1>5. QED
    BY <1>2, <1>3, <1>4

\* A new task disturbs none of the others.
LEMMA StartOK ==
  ASSUME IndInv, NEW kind \in Kinds, NEW pc \in {"sign", "prepare", "fixture"},
         NEW note \in Note \cup {<<>>}, Start(kind, pc, note),
         kind = "identity" => pc = "sign", kind = "smoke" => pc = "fixture",
         kind \in {"deposit", "withdraw"} =>
            /\ pc = "prepare" /\ note \in Note /\ ~Busy({"deposit", "withdraw"})
            /\ kind = "deposit" => priv.tracking = {},
         NEW panel \in {"identity", "private", "smoke"}, Click(panel),
         ident' \in {"idle", "running", "ready", "error"},
         UNCHANGED <<wallet, session, mount, priv, prover, mail, notes>>
  PROVE  IndInv'
  <1> DEFINE n == Len(task) + 1
             x == [kind |-> kind, pc |-> pc, mount |-> mount, owner |-> wallet,
                   note |-> note, sig |-> {}, proof |-> <<>>]
  <1>1. /\ Tasks' /\ Len(task') = Len(task) + 1
        /\ DOMAIN task' = DOMAIN task \cup {n} /\ n \notin DOMAIN task
        /\ \A u \in DOMAIN task : task'[u] = task[u]
        /\ task'[n] = x
    <2>1. Page /\ Tasks /\ pc \in PCs
      BY DEF IndInv, PCs
    <2>2. QED
      BY <2>1, StartAppends
  <1>2. /\ x.kind = kind /\ x.pc = pc /\ x.mount = mount /\ x.note = note /\ x.proof = <<>>
    OBVIOUS
  <1> HIDE DEF n, x
  <1>3. Page'
    <2>1. /\ budget' \in Budget /\ budget \in Budget
          /\ budget'.identity + budget'.private + budget'.smoke + 1
               <= budget.identity + budget.private + budget.smoke
      BY ClickCounts DEF IndInv, Page
    <2>2. Len(task) \in Nat /\ budget.identity + budget.private + budget.smoke + Len(task) <= MaxClicks
      BY DEF IndInv, Page, Tasks
    <2>3. budget'.identity + budget'.private + budget'.smoke + Len(task') <= MaxClicks
      <3>1. Len(task') = Len(task) + 1
        BY <1>1
      <3>2. /\ budget.identity + budget.private + budget.smoke \in Nat
            /\ budget'.identity + budget'.private + budget'.smoke \in Nat
        <4>1. \A b \in Budget : b.identity \in Nat /\ b.private \in Nat /\ b.smoke \in Nat
          BY DEF Budget
        <4>2. QED
          BY ONLY <2>1, <4>1
      <3>3. MaxClicks \in Nat
        BY PanelsAssumption
      <3>4. QED
        BY <2>1, <2>2, <3>1, <3>2, <3>3
    <2>4. QED
      BY <2>1, <2>3 DEF IndInv, Page
  <1>4. mount \in Nat
    BY DEF IndInv, Page, Mount
  <1>5. ASSUME NEW u \in DOMAIN task'  PROVE Stages(task[u])'
    <2>1. CASE u = n
      BY <1>1, <1>2, <1>4, <2>1 DEF Stages, Kinds
    <2>2. CASE u \in DOMAIN task
      BY <1>1, <2>2 DEF IndInv, Stages
    <2>3. QED
      BY <1>1, <2>1, <2>2
  <1>6. ASSUME NEW m \in Mount  PROVE PendingOf(m)'
    BY <1>1 DEF IndInv, PendingOf
  <1>7. ASSUME NEW m \in mail  PROVE MailOf(m)'
    <2>1. MailOf(m) /\ m.mount \in Mount /\ PendingOf(m.mount)
      BY DEF IndInv, MailOf
    <2>2. QED
      BY <1>1, <2>1 DEF MailOf, PendingOf
  <1>8. Panel'
    <2>1. CASE kind \in {"deposit", "withdraw"}
      <3>1. \A u \in DOMAIN task : ~(Private(task[u]) /\ task[u].mount = mount)
        BY <2>1 DEF Busy, Runs, Private
      <3>2. QED
        BY <1>1, <1>2, <2>1, <3>1 DEF IndInv, Panel, Private, Runs, Shown
    <2>2. CASE kind \notin {"deposit", "withdraw"}
      BY <1>1, <1>2, <2>2 DEF IndInv, Panel, Private, Runs, Shown
    <2>3. QED
      BY <2>1, <2>2
  <1>9. NoteAccounted'
    BY <1>1 DEF IndInv, NoteAccounted, Runs
  <1>10. QED
    BY <1>1, <1>3, <1>5, <1>6, <1>7, <1>8, <1>9 DEF IndInv, Chain, Sessions, Suites

LEMMA IdentityRunOK ==
  ASSUME IndInv, IdentityRun  PROVE IndInv'
  <1>1. /\ Click("identity") /\ Start("identity", "sign", <<>>) /\ ident' = "running"
        /\ UNCHANGED <<wallet, session, mount, priv, prover, mail, notes>>
    BY DEF IdentityRun
  <1>2. "identity" \in Kinds /\ "identity" # "smoke" /\ "identity" \notin {"deposit", "withdraw"}
    BY DEF Kinds
  <1>3. QED
    BY <1>1, <1>2, StartOK

LEMMA SmokeTestOK ==
  ASSUME IndInv, SmokeTest  PROVE IndInv'
  <1>1. /\ Click("smoke") /\ Start("smoke", "fixture", <<>>)
        /\ ident' \in {"idle", "running", "ready", "error"}
        /\ UNCHANGED <<wallet, session, mount, priv, prover, mail, notes>>
    BY DEF SmokeTest, IndInv, Page
  <1>2. "smoke" \in Kinds /\ "identity" # "smoke" /\ "smoke" \notin {"deposit", "withdraw"}
    BY DEF Kinds
  <1>3. QED
    BY <1>1, <1>2, StartOK

LEMMA PrivateClickOK ==
  ASSUME IndInv, PrivateClick  PROVE IndInv'
  <1>1. /\ Click("private") /\ ~Busy({"deposit", "withdraw"})
        /\ ident' \in {"idle", "running", "ready", "error"}
        /\ UNCHANGED <<wallet, session, mount, priv, prover, mail, notes>>
    BY DEF PrivateClick, IndInv, Page
  <1>2. /\ {"deposit", "withdraw"} \subseteq Kinds
        /\ \A k \in {"deposit", "withdraw"} : k # "identity" /\ k # "smoke"
    BY DEF Kinds
  <1>3. CASE priv.step = "idle" /\ Start("deposit", "prepare", <<wallet, Len(task) + 1>>)
    <2>1. <<wallet, Len(task) + 1>> \in Note /\ priv.tracking = {}
      <3>1. /\ budget \in Budget /\ budget.private > 0 /\ Len(task) \in Nat /\ wallet \in Wallet
            /\ budget.identity + budget.private + budget.smoke + Len(task) <= MaxClicks
        BY <1>1 DEF IndInv, Page, Tasks, Click
      <3>2. Len(task) + 1 \in 1 .. MaxClicks
        BY <3>1, PanelsAssumption DEF Budget
      <3>3. priv.tracking = {}
        BY <1>3 DEF IndInv, Panel
      <3>4. QED
        BY <3>1, <3>2, <3>3 DEF Note, Task
    <2>2. QED
      BY <1>1, <1>2, <1>3, <2>1, StartOK
  <1>4. CASE priv.step = "deposited" /\ \E n \in priv.tracking : Start("withdraw", "prepare", n)
    <2>1. PICK n \in priv.tracking : Start("withdraw", "prepare", n)
      BY <1>4
    <2>2. n \in Note
      BY <2>1 DEF IndInv, Panel
    <2>3. "withdraw" # "deposit"
      OBVIOUS
    <2>4. QED
      BY <1>1, <1>2, <2>1, <2>2, <2>3, StartOK
  <1>5. QED
    BY <1>3, <1>4 DEF PrivateClick

LEMMA PrivateResetOK ==
  ASSUME IndInv, PrivateReset  PROVE IndInv'
  <1>1. /\ priv' = NewPanel
        /\ notes' = [notes EXCEPT !.forgotten = @ \cup priv.tracking]
        /\ UNCHANGED <<wallet, session, mount, task, ident, prover, mail, budget>>
    BY DEF PrivateReset
  <1>2. priv.tracking \subseteq Note
    BY DEF IndInv, Panel
  <1>3. /\ Chain' /\ notes'.landed = notes.landed /\ notes'.spent = notes.spent
        /\ notes'.forgotten = notes.forgotten \cup priv.tracking
    BY <1>1, <1>2 DEF IndInv, Chain
  <1>4. Panel'
    BY <1>1, <1>3 DEF IndInv, Panel, NewPanel, Private, Runs, Shown
  <1>5. NoteAccounted'
    BY <1>1, <1>3 DEF IndInv, NoteAccounted, Runs
  <1>6. (\A t \in DOMAIN task : Stages(task[t]))'
    BY <1>1, <1>3 DEF IndInv, Stages
  <1>7. (\A m \in Mount : PendingOf(m))' /\ (\A m \in mail : MailOf(m))'
    BY <1>1 DEF IndInv, PendingOf, MailOf
  <1>8. QED
    BY <1>1, <1>3, <1>4, <1>5, <1>6, <1>7 DEF IndInv, Page, Tasks, Suites, Sessions

\* The steps that change the session, the account or nothing.
LEMMA SurroundingsOK ==
  ASSUME IndInv, wallet' \in Wallet, ident' \in {"idle", "running", "ready", "error"},
         session' \subseteq session, budget' \in Budget,
         budget'.identity = budget.identity, budget'.private = budget.private,
         budget'.smoke = budget.smoke,
         UNCHANGED <<mount, task, priv, prover, mail, notes>>
  PROVE  IndInv'
  <1>1. Panel' /\ NoteAccounted'
    BY DEF IndInv, Panel, NoteAccounted, Private, Runs, Shown
  <1>2. (\A t \in DOMAIN task : Stages(task[t]))' /\ (\A m \in Mount : PendingOf(m))'
        /\ (\A m \in mail : MailOf(m))'
    BY DEF IndInv, Stages, PendingOf, MailOf
  <1>3. QED
    BY <1>1, <1>2 DEF IndInv, Page, Tasks, Chain, Suites, Sessions

LEMMA SwitchAccountOK ==
  ASSUME IndInv, NEW w \in Wallet, SwitchAccount(w)  PROVE IndInv'
  <1>1. budget' \in Budget /\ budget'.identity = budget.identity
        /\ budget'.private = budget.private /\ budget'.smoke = budget.smoke
    <2>1. budget \in Budget /\ budget.switches > 0 /\ budget' = [budget EXCEPT !.switches = @ - 1]
      BY DEF SwitchAccount, IndInv, Page
    <2>2. QED
      BY <2>1 DEF Budget
  <1>2. QED
    BY <1>1, SurroundingsOK DEF SwitchAccount, IndInv, Page

-----------------------------------------------------------------------------

LEMMA InitOK == Init => IndInv
  <1> SUFFICES ASSUME Init  PROVE IndInv
      OBVIOUS
  <1>1. /\ budget \in Scenarios /\ wallet = budget.wallet /\ mount = 1 /\ task = <<>> /\ mail = {}
        /\ ident = "idle" /\ priv = NewPanel /\ prover = [m \in Mount |-> NewSuite]
        /\ notes = [landed |-> {}, spent |-> {}, forgotten |-> {}]
    BY DEF Init, Mount
  <1>2. task \in Seq(TaskRecord) /\ Len(task) = 0 /\ DOMAIN task = {}
    BY <1>1
  <1>3. Page
    <2>1. budget \in Budget /\ budget.identity + budget.private + budget.smoke <= MaxClicks
      BY <1>1, PanelsAssumption DEF Budget
    <2>2. mount \in Mount
      BY <1>1, PanelsAssumption DEF Mount
    <2>3. budget.identity + budget.private + budget.smoke + 0 <= MaxClicks
      BY <2>1, PanelsAssumption DEF Budget
    <2>4. QED
      BY <1>1, <1>2, <2>1, <2>2, <2>3 DEF Page, Budget
  <1>4. Sessions
    <2>1. session = {SessionOf(w) : w \in IF budget.known THEN {wallet} ELSE {}}
      BY DEF Init
    <2>2. QED
      BY <2>1 DEF Sessions, SessionOf
  <1>5. Suites /\ \A m \in Mount : PendingOf(m)
    BY <1>1 DEF Suites, NewSuite, Suite, PendingOf
  <1>6. Panel /\ NoteAccounted /\ Chain /\ notes.spent \subseteq notes.landed
    BY <1>1, <1>2 DEF Panel, NewPanel, NoteAccounted, Chain
  <1>7. QED
    BY <1>1, <1>2, <1>3, <1>4, <1>5, <1>6 DEF IndInv, Tasks

LEMMA Inductive == IndInv /\ [Next]_vars => IndInv'
  <1> SUFFICES ASSUME IndInv, [Next]_vars  PROVE IndInv'
      OBVIOUS
  <1>1. CASE IdentityRun
    BY <1>1, IdentityRunOK
  <1>2. CASE IdentityReset
    BY <1>2, SurroundingsOK DEF IdentityReset, IndInv, Page
  <1>3. CASE PrivateClick \/ PrivateReset
    BY <1>3, PrivateClickOK, PrivateResetOK
  <1>4. CASE SmokeTest \/ Leave
    BY <1>4, SmokeTestOK, LeaveOK
  <1>5. CASE \E w \in Wallet : SwitchAccount(w)
    BY <1>5, SwitchAccountOK
  <1>6. CASE \E t \in Task : Step(t)
    BY <1>6, FailsOK, SignMessageOK, DeriveIdentityOK, AirdropOK, PrivateDepositOK,
       WithdrawPrepareOK, WithdrawFinalizeOK, SendOK, ConfirmedOK, FixtureOK DEF Step
  <1>7. CASE \E m \in mail : Reply(m)
    BY <1>7, ReplyOK
  <1>8. CASE \E m \in 1 .. MaxMounts : WorkerError(m)
    BY <1>8, WorkerErrorOK DEF Mount
  <1>9. CASE UNCHANGED vars
    BY <1>9, SurroundingsOK DEF vars, IndInv, Page
  <1>10. QED
    BY <1>1, <1>2, <1>3, <1>4, <1>5, <1>6, <1>7, <1>8, <1>9 DEF Next

LEMMA Invariance == Spec => []IndInv
  BY InitOK, Inductive, PTL DEF Spec

(***************************************************************************)
(* The panels, the tasks and the prover keep their types: the ids and the  *)
(* workers of requests that are not answered are ones the suite gave out,  *)
(* and the panel that shows "deposited" tracks a note.                     *)
(***************************************************************************)
THEOREM TypeCorrect == Spec => []TypeOK
  <1>1. IndInv => TypeOK
    <2> SUFFICES ASSUME IndInv  PROVE TypeOK
        OBVIOUS
    <2>1. \A t \in DOMAIN task : task[t].pc \in PCs /\ task[t].owner \in Wallet
      BY TaskTyped DEF IndInv, TaskRecord
    <2>2. \A m \in mail : m.id < prover[m.mount].nextId /\ m.worker \in 1 .. prover[m.mount].workers
      BY DEF IndInv, MailOf
    <2>3. notes.spent \subseteq notes.landed /\ notes.landed \cup notes.forgotten \subseteq Note
      BY DEF IndInv, Chain
    <2>4. QED
      BY <2>1, <2>2, <2>3 DEF IndInv, Page, Panel, TypeOK
  <1>2. QED
    BY <1>1, Invariance, PTL

(***************************************************************************)
(* Whatever workers fail, answer late or out of order and whatever account *)
(* is connected meanwhile: a session holds a signature and a proof of its  *)
(* own owner, and a withdrawal a proof of the note it withdraws.           *)
(***************************************************************************)
THEOREM ProofsMatchCorrect == Spec => []ProofsMatch
  <1>1. IndInv => ProofsMatch
    BY DEF IndInv, ProofsMatch, Sessions, Stages
  <1>2. QED
    BY <1>1, Invariance, PTL

(***************************************************************************)
(* A private note on the chain is spent, held by the panel or by a running *)
(* deposit, or was forgotten by Reset, by leaving the page or by an error. *)
(***************************************************************************)
THEOREM NoteAccountedCorrect == Spec => []NoteAccounted
  <1>1. IndInv => NoteAccounted
    BY DEF IndInv
  <1>2. QED
    BY <1>1, Invariance, PTL
=============================================================================
