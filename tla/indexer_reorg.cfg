SPECIFICATION FairSpec
CONSTANTS
    t1 = t1
    t2 = t2
    None = None
    Tx <- MCTx
    Indexed <- MCTx
    MaxHeight = 3
    MaxReorgs = 1
    MaxReorgLen = 2
    StartBlock = 1
    BlockBatch = 2
    ReorgDepth = 2
    MaxFaults = 1
    MaxCrashes = 1
INVARIANTS
    StablePrefixExact
PROPERTIES
    CatchesUp
