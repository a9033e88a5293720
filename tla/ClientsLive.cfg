CONSTANTS
    Depth = 3
    Demo <- MCNone
    Trade <- MCTrade
    Sdk <- MCSdk
    RootHistorySize = 2
    MaxSignatures = 9
    OtherSizes = {1}
    MaxOthers = 3
    MaxResets = 0
SPECIFICATION FairSpec
INVARIANT PreparedAccepted
PROPERTY ClientExits
CHECK_DEADLOCK FALSE
