SPECIFICATION DistSpec
CONSTANTS
    u1 = u1
    u2 = u2
    dist = dist
    Vault = Vault
    Unlimited = Unlimited
    VirtualShares = 1
    Account <- MCAccount
    EOA <- MCEOA
    InitialAssets <- MCAssets
    Admin = u1
    Operator = u2
    Distributor = dist
    AssetAmounts = {1, 2}
    ShareAmounts = {1}
    AssetApprovals = {Unlimited}
    ShareApprovals = {}
    Grantable <- MCGrantable
INVARIANTS
    DistTypeOK
    ExitAlwaysOpen
    DistributeAllAvailable
PROPERTIES
    PauseCannotTrap
    RewardsOnlyToVault
    PendingRewardsReachVault
