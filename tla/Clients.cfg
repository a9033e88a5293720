CONSTANTS
    Depth = 3
    Demo <- MCDemo
    Trade <- MCTrade
    Sdk <- MCNone
    RootHistorySize = 2
    MaxSignatures = 4
    OtherSizes = {1, 2}
    MaxOthers = 2
    MaxResets = 1
SPECIFICATION Spec
INVARIANTS TypeOK TreeAbstraction ShadowAgrees PreparedAccepted
CHECK_DEADLOCK FALSE
