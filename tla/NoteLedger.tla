----------------------------- MODULE NoteLedger -----------------------------
(***************************************************************************)
(* What the vault promises its users, without trees, roots, lock accounts  *)
(* or payloads: tokens leave the vault only against one live note, for     *)
(* exactly the note's amount; notes change hands only in pairs that are    *)
(* both held as collateral and still live; and a note that was redeemed or *)
(* exchanged once never comes back.  A held note may be redeemed: holding  *)
(* one is no claim on it, only the condition of an exchange.               *)
(***************************************************************************)
EXTENDS Naturals

CONSTANT Mint  \* the token mints

VARIABLES
    live,   \* notes that are worth their amount
    spent,  \* notes that were redeemed or exchanged
    held,   \* notes that are collateral of an order
    funds   \* tokens in custody, per mint

lvars == <<live, spent, held, funds>>

LInit ==
    /\ live = {}
    /\ spent = {}
    /\ held = {}
    /\ funds = [m \in Mint |-> 0]

\* Tokens come in and at most one note becomes live: none if the depositor
\* re-used the commitment of a note that is already live or spent.
Fund ==
    \E m \in Mint :
       /\ funds' = [funds EXCEPT ![m] = funds'[m]]
       /\ funds'[m] > funds[m]
       /\ live \subseteq live'
       /\ \A n \in live' \ live : n.mint = m /\ n.amount = funds'[m] - funds[m]
       /\ \A n1, n2 \in live' \ live : n1 = n2
       /\ live' \cap spent = {}
       /\ UNCHANGED <<spent, held>>

\* A note becomes collateral, or stops being collateral.
Hold ==
    /\ held \subseteq held'
    /\ \A n1, n2 \in held' \ held : n1 = n2
    /\ UNCHANGED <<live, spent, funds>>

Unhold ==
    /\ held' \subseteq held
    /\ \A n1, n2 \in held \ held' : n1 = n2
    /\ UNCHANGED <<live, spent, funds>>

\* One live note is paid out, once.
Redeem ==
    \E n \in live :
       /\ live' = live \ {n}
       /\ spent' = spent \cup {n}
       /\ funds' = [funds EXCEPT ![n.mint] = @ - n.amount]
       /\ UNCHANGED held

\* Two live notes held as collateral are exchanged for new notes; no tokens
\* move.  Only new notes may be held afterwards that were not held before.
Exchange ==
    \E a, b \in live \cap held :
       /\ a.mint # b.mint
       /\ spent' = spent \cup {a, b}
       /\ live \ {a, b} \subseteq live'
       /\ live' \cap spent' = {}
       /\ held \ {a, b} \subseteq held'
       /\ held' \ held \subseteq live'
       /\ a \notin held' /\ b \notin held'
       /\ \A n \in live' \ live : n.mint \in {a.mint, b.mint}
       /\ UNCHANGED funds

LNext == Fund \/ Hold \/ Unhold \/ Redeem \/ Exchange

LSpec == LInit /\ [][LNext]_lvars
=============================================================================
