SPECIFICATION FairSpec
CONSTANTS
    t1 = t1
    t2 = t2
    None = None
    Tx <- MCOneTx
    Indexed <- MCOneTx
    MaxHeight = 3
    MaxReorgs = 1
    MaxReorgLen = 2
    StartBlock = 0
    BlockBatch = 2
    ReorgDepth = 3
    MaxFaults = 0
    MaxCrashes = 0
PROPERTIES
    StaleTrailResolved
