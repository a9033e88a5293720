SPECIFICATION FairSpec
CONSTANTS
    alice = alice
    bob = bob
    Treasury = treasury
    Owner = {alice, bob, treasury}
    NoOwner = NoOwner
    quote = quote
    base = base
    Mint = {quote, base}
    NoNote = NoNote
    NoMint = NoMint
    OrderId = {o1}
    MatchId = {1, 2}
    DepositNote <- MCHalfNote
    SettleLeg <- MCHalfLeg
    Supply = 2
    DevnetResets = FALSE
    MaxLocks = 2
    MaxSlot = 1
    RootHistorySize = 2
    TreeCapacity = 8
PROPERTIES LedgerSpec LockTemporary CanExit
CHECK_DEADLOCK FALSE
