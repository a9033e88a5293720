------------------------------ MODULE MCPanels ------------------------------
(***************************************************************************)
(* Instances of WalletPanels for TLC.                                      *)
(***************************************************************************)
EXTENDS WalletPanels

CONSTANTS w1, w2

Clicks(identity, private, smoke) ==
    [identity |-> identity, private |-> private, smoke |-> smoke,
     switches |-> 0, crashes |-> 0, leaves |-> 0, wallet |-> w1, known |-> TRUE]

MCScenarios == {
    \* identities of two accounts beside the smoke test
    [Clicks(2, 0, 1) EXCEPT !.known = FALSE, !.switches = 1, !.crashes = 2],
    \* a deposit, its withdrawal and another try, while accounts and pages change
    [Clicks(0, 3, 0) EXCEPT !.switches = 2, !.crashes = 1, !.leaves = 1],
    \* a withdrawal that shares the prover
    [Clicks(0, 2, 1) EXCEPT !.crashes = 2],
    [Clicks(1, 2, 0) EXCEPT !.crashes = 1, !.leaves = 1],
    \* another account takes over the page
    [Clicks(1, 3, 0) EXCEPT !.switches = 2]}
=============================================================================
