CONSTANTS
    Call = {c1, c2}
    MaxToken = 4
SPECIFICATION FairSpec
INVARIANTS TypeOK AtMostOnce RetriedWithAnother
PROPERTY CallEnds
CHECK_DEADLOCK FALSE
