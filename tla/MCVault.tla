------------------------------ MODULE MCVault -------------------------------
EXTENDS Vault

CONSTANTS alice, bob, quote, base

note(m, amt, o, i) ==
    [mint |-> m, amount |-> amt, owner |-> o, nonce |-> <<i, "deposit">>]
leg(t, c, f) == [trade |-> t, change |-> c, fee |-> f]

\* A buyer with quote tokens and a seller with base tokens.
MCDepositNote == {note(quote, 3, alice, 1), note(base, 2, bob, 1)}
\* Exact and partial fills, with and without a fee; most pairs do not add up.
MCSettleLeg == {leg(1, 1, 1), leg(1, 1, 0), leg(2, 0, 0), leg(1, 0, 0)}

\* Two orders that fill in two halves, each change note relocked in between.
MCHalfNote == {note(quote, 2, alice, 1), note(base, 2, bob, 1)}
MCHalfLeg == {leg(1, 1, 0), leg(1, 0, 0)}
=============================================================================
