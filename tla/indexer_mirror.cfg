SPECIFICATION ApiSpec
CONSTANTS
    u = u
    v = v
    dep = dep
    wdr = wdr
    snd = snd
    None = None
    Nobody = Nobody
    Account <- MCAccount
    Tx <- MCTx
    Indexed <- MCIndexed
    Deposits = {dep}
    Withdrawals = {wdr}
    From <- MCFrom
    To <- MCTo
    Shares <- MCShares
    Assets <- MCAssets
    MaxHeight = 3
    MaxReorgs = 0
    MaxReorgLen = 1
    StartBlock = 1
    BlockBatch = 2
    ReorgDepth = 2
    MaxFaults = 1
    MaxCrashes = 1
INVARIANTS
    TypeOK
    SnapshotNotOlderThanLabel
    PositionWithinWindow
    TablesAgreeWithSubgraph
PROPERTIES
    PositionNotOverstated
    ImplementsEventMirror
    EventuallyIndexed
