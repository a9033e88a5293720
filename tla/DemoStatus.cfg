CONSTANTS
    u1 = u1
    u2 = u2
    Trader = {u1, u2}
    Maker = mk
    Taker = tk
    MaxSlots = 2
    MaxReq = 6
    MaxTries = 2
    LiveTabs = 2
    Scenarios <- MCScenarios
SPECIFICATION Spec
INVARIANTS ActiveMeansNeither
CHECK_DEADLOCK FALSE
