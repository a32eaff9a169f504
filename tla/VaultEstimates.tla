--------------------------- MODULE VaultEstimates ---------------------------
(***************************************************************************)
(* What the backend says a holding of the vault is worth: the fixed-point  *)
(* rate of internal/indexer/snapshot.go, from totalAssets and totalSupply  *)
(* of one block, and estimatedUnderlyingNow of internal/handlers, without  *)
(* the virtual shares that the vault itself counts.                        *)
(***************************************************************************)
EXTENDS StakingVault

CONSTANT RateScale      \* 1e27 in the code

ASSUME RateScaleAssumption == RateScale \in Nat \ {0}

-----------------------------------------------------------------------------
RateE27_Inverted(ta, ts) == IF ta = 0 THEN 0 ELSE (ts * RateScale) \div ta     \* mutant

\* big.Int.Quo of natural numbers.
RateE27(ta, ts) == IF ts = 0 THEN 0 ELSE (ta * RateScale) \div ts

EstimatedUnderlying(netShares, rate) == (netShares * rate) \div RateScale

Estimate(h) == EstimatedUnderlying(shares[h], RateE27(TotalAssets, totalSupply))

-----------------------------------------------------------------------------
\* Given the holder's balance and a snapshot of the same block, the estimate
\* is as good as its two roundings: it exceeds what redeem would pay by less
\* than the value of the virtual shares, whatever was donated, and falls
\* short of it by one unit for each RateScale shares, begun ones included.
EstimateNearClaim ==
    \A h \in Holder :
        LET claim == PreviewRedeem(shares[h], TotalAssets, totalSupply)
        IN  /\ (Estimate(h) - claim) * Supply(totalSupply) < VirtualShares * Pool(TotalAssets)
            /\ claim <= Estimate(h) + shares[h] \div RateScale + 1
=============================================================================
