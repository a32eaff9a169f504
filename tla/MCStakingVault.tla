--------------------------- MODULE MCStakingVault ---------------------------
(***************************************************************************)
(* Small instances of StakingVault.  u1 deploys and administers, u2 stakes *)
(* and holds OPERATOR_ROLE; both may do everything else.                   *)
(***************************************************************************)
EXTENDS VaultEstimates, TLC

CONSTANTS u1, u2

MCAccount == {u1, u2}

\* Three units of the asset, so that the price takes broken values.
MCAssets == u1 :> 2 @@ u2 :> 1
=============================================================================
