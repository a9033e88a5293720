SPECIFICATION Spec
CONSTANTS
    Slot = {s1, s2, s3}
    Trader = {s1, s2, s3}
    TraderOf <- MCTraderOf
    Base = base
    Quote = quote
    Treasury = treasury
    NoOwner = NoOwner
    NoNote = NoNote
    NoMatch = NoMatch
    OrderId = {1}
    OtherNote <- MCForeseen
    MaxOrders = 4
    MaxRenamed = 1
    OrderShape <- MCParts
    Expiry = {3}
    FeeOwner = {NoOwner}
    FeeRate = {0}
    OraclePrice = {1}
    MinOrderSize = 0
    CircuitBreakerBps = 10000
    SettlementBuffer = 1
    MaxAccounts = 3
    RingCapacity = 2
    MaxSlot = 0
SYMMETRY SlotSymmetry
INVARIANTS Covered Funded NoteOnce RingLatest
CHECK_DEADLOCK FALSE
