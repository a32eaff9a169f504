SPECIFICATION FairSpec
CONSTANTS
    t1 = t1
    t2 = t2
    None = None
    Tx <- MCOneTx
    Indexed <- MCOneTx
    MaxHeight = 4
    MaxReorgs = 1
    MaxReorgLen = 2
    StartBlock = 2
    BlockBatch = 2
    ReorgDepth = 2
    MaxFaults = 0
    MaxCrashes = 0
PROPERTIES
    Reprocessed
