------------------------------- MODULE Rates -------------------------------
(***************************************************************************)
(* The exchange arithmetic StakingVault inherits from OpenZeppelin's       *)
(* ERC4626 (external code, modelled from how the vault uses it).  With ta  *)
(* the vault's totalAssets() and ts its totalSupply(), a share is worth    *)
(* (ta + 1) / (ts + VirtualShares) assets, and every conversion rounds in  *)
(* the direction its caller asks for.                                      *)
(***************************************************************************)
EXTENDS Integers

CONSTANT
    \* @type: Int;  10 ** _decimalsOffset(): one million in the deployed code
    VirtualShares

ASSUME VirtualSharesAssumption == VirtualShares \in Nat \ {0}

(***************************************************************************)
(* Math.mulDiv(x, y, d, Rounding.Floor) and (.., Rounding.Ceil).           *)
(***************************************************************************)
MulDivDown(x, y, d) == (x * y) \div d
MulDivUp_Floor(x, y, d) == MulDivDown(x, y, d)     \* mutant: the remainder is dropped

MulDivUp(x, y, d)   == MulDivDown(x, y, d) + (IF (x * y) % d = 0 THEN 0 ELSE 1)

\* Shares and assets as the pool counts them, virtual ones included.
Pool(ta)   == ta + 1
Supply(ts) == ts + VirtualShares

\* Mutants: shares priced after the assets were pulled; assets rounded up.
PreviewDeposit_AfterPull(a, ta, ts) == MulDivDown(a, Supply(ts), Pool(ta + a))
PreviewRedeem_Up(s, ta, ts) == MulDivUp(s, Pool(ta), Supply(ts))

PreviewDeposit(a, ta, ts)  == MulDivDown(a, Supply(ts), Pool(ta))
PreviewMint(s, ta, ts)     == MulDivUp(s, Pool(ta), Supply(ts))
PreviewWithdraw(a, ta, ts) == MulDivUp(a, Supply(ts), Pool(ta))
PreviewRedeem(s, ta, ts)   == MulDivDown(s, Pool(ta), Supply(ts))

\* convertToAssets: what a balance of s shares is worth, rounded down.
ConvertToAssets(s, ta, ts) == MulDivDown(s, Pool(ta), Supply(ts))
=============================================================================
