SPECIFICATION FairSpec
CONSTANTS
    t1 = t1
    t2 = t2
    None = None
    Tx <- MCOneTx
    Indexed <- MCOneTx
    MaxHeight = 3
    MaxReorgs = 1
    MaxReorgLen = 1
    StartBlock = 2
    BlockBatch = 1
    ReorgDepth = 2
    MaxFaults = 0
    MaxCrashes = 0
PROPERTIES
    OrphanRowsGo
