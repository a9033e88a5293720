------------------------------ MODULE MCEngine ------------------------------
EXTENDS MatchingEngine, TLC

\* Each trader has one slot, so slots are interchangeable.
MCTraderOf == [s \in Slot |-> s]
SlotSymmetry == Permutations(Slot)

shape(side, type, price, amount, minFill, noteAmount) ==
    [side |-> side, type |-> type, price |-> price, amount |-> amount,
     minFill |-> minFill, noteAmount |-> noteAmount]

\* All order types, a minimum fill, collateral with and without room for the
\* fee, and a pair that clears at a price the oracle does not support.
MCMixed ==
    {shape("bid", "limit", 1, 3, 0, 4), shape("bid", "ioc", 2, 2, 0, 5),
     shape("bid", "fok", 1, 2, 0, 4), shape("bid", "limit", 1, 2, 2, 4),
     shape("ask", "limit", 1, 1, 1, 2), shape("ask", "fok", 1, 2, 0, 4),
     shape("ask", "limit", 2, 2, 0, 2)}

\* A bid and an ask that fill each other in parts, below the bid's limit, the
\* same bid without enough collateral, and one note its change may become,
\* which clients can foresee.
MCParts ==
    {shape("bid", "limit", 2, 3, 0, 6), shape("bid", "limit", 2, 3, 0, 3),
     shape("ask", "limit", 1, 2, 0, 2)}
MCForeseen ==
    {[mint |-> Quote, amount |-> 4, owner |-> s, nonce |-> <<0, "change">>] : s \in Slot}

\* A bid that can fill completely only against two asks.
MCIocBid == {shape("bid", "ioc", 1, 2, 0, 2), shape("ask", "limit", 1, 1, 0, 1)}
=============================================================================
