SPECIFICATION Spec
CONSTANTS
    u1 = u1
    u2 = u2
    Vault = Vault
    Unlimited = Unlimited
    VirtualShares = 2
    Account <- MCAccount
    EOA <- MCAccount
    InitialAssets <- MCAssets
    Admin = u1
    Operator = u2
    AssetAmounts = {0, 1, 2}
    ShareAmounts = {1}
    AssetApprovals = {1, Unlimited}
    ShareApprovals = {2}
    Grantable = {}
    RateScale = 3
INVARIANTS
    TypeOK
    SupplyIsSum
    ClaimsCovered
    MaxWithdrawBurnable
    EstimateNearClaim
PROPERTIES
    SharePriceNeverFalls
    DepositLossBounded
    ImplementsSharePool
    OthersKept
