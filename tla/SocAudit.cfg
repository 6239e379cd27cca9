SPECIFICATION SocSpec
CONSTANTS
    Handlers = {"t1", "t2"}
    Batches <- OneBatch
    InScope = {}
    Bonus <- NoBonus
    MaxFlows = 2
INVARIANT ChainIntact
CHECK_DEADLOCK FALSE
