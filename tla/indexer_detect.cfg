SPECIFICATION DetectSpec
CONSTANTS
    None = None
    Tx = {}
    Indexed = {}
    MaxHeight = 8
    MaxReorgs = 1
    MaxReorgLen = 2
    StartBlock = 4
    BlockBatch = 1
    ReorgDepth = 4
    MaxFaults = 1
    MaxCrashes = 1
PROPERTIES
    StaleTrailResolved
INVARIANTS
    StaleInWindow
    StaleIsSuspect
