SPECIFICATION FairSpec
CONSTANT MaxTxs = 3
INVARIANTS
    RightVerdict
    LoserJoined
PROPERTY
    Returns
CHECK_DEADLOCK FALSE
