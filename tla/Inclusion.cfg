SPECIFICATION Spec
CONSTANTS
    MaxOrders = 5
    MaxDepth = 3
    MaxBatches = 2
    Repeated = {4}
INVARIANT InclusionSound
CHECK_DEADLOCK FALSE
