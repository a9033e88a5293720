SPECIFICATION Spec
CONSTANTS
    Slot = {s1, s2, s3}
    Trader = {s1, s2, s3}
    TraderOf <- MCTraderOf
    Base = base
    Quote = quote
    Treasury = treasury
    NoOwner = NoOwner
    NoNote = NoNote
    NoMatch = NoMatch
    OrderId = {1}
    OtherNote = {}
    MaxOrders = 3
    MaxRenamed = 0
    OrderShape <- MCMixed
    Expiry = {2}
    FeeOwner = {treasury}
    FeeRate = {10000}
    OraclePrice = {1}
    MinOrderSize = 0
    CircuitBreakerBps = 4000
    SettlementBuffer = 1
    MaxAccounts = 3
    RingCapacity = 2
    MaxSlot = 1
SYMMETRY SlotSymmetry
INVARIANTS TypeOK VolumeCleared Priority BookTruth BatchBooks LoopBounded
CHECK_DEADLOCK FALSE
