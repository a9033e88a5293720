------------------------------- MODULE MCDemo -------------------------------
(***************************************************************************)
(* Instances of DemoMarket for TLC.                                        *)
(***************************************************************************)
EXTENDS DemoMarket

CONSTANTS u1, u2

Budget(traders, requests, live, faults) ==
    [traders |-> traders, requests |-> requests, live |-> live, faults |-> faults,
     reads |-> 0, quiet |-> FALSE, exact |-> TRUE, inBand |-> TRUE]

MCScenarios == {
    \* two traders served one at a time, and a status read
    [Budget({u1, u2}, 4, 0, 0) EXCEPT !.quiet = TRUE, !.reads = 1],
    \* two traders at a time, without faults
    Budget({u1, u2}, 6, 0, 0),
    \* one trader, and two faults; notes larger than the notional
    Budget({u1}, 3, 0, 2), [Budget({u1}, 5, 0, 1) EXCEPT !.exact = FALSE],
    \* one trader whose price trips the circuit breaker, and a fault
    [Budget({u1}, 5, 0, 1) EXCEPT !.inBand = FALSE],
    \* the live flow alone, and beside a trader
    Budget({}, 4, 4, 0), Budget({u1}, 4, 2, 0)}
=============================================================================
