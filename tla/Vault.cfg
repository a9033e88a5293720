SPECIFICATION Spec
CONSTANTS
    alice = alice
    bob = bob
    Treasury = treasury
    Owner = {alice, bob, treasury}
    NoOwner = NoOwner
    quote = quote
    base = base
    Mint = {quote, base}
    NoNote = NoNote
    NoMint = NoMint
    OrderId = {o1}
    MatchId = {1}
    DepositNote <- MCDepositNote
    SettleLeg <- MCSettleLeg
    Supply = 4
    DevnetResets = TRUE
    MaxLocks = 2
    MaxSlot = 1
    RootHistorySize = 2
    TreeCapacity = 5
INVARIANTS TypeOK Solvent RootWindow Provenance
PROPERTIES LockKept LedgerSpec
CHECK_DEADLOCK FALSE
