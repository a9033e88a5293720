SPECIFICATION FairSpec
CONSTANTS
    w1 = w1
    w2 = w2
    Wallet = {w1, w2}
    MaxClicks = 4
    MaxMounts = 2
    Scenarios <- MCScenarios
INVARIANTS TypeOK ProofsMatch NoteAccounted
PROPERTY ClicksEnd
CHECK_DEADLOCK FALSE
