------------------------ MODULE MCRewardDistributor ------------------------
(***************************************************************************)
(* A small instance of RewardDistributor: u1 administers both contracts,   *)
(* u2 operates them and stakes, and the grants that wire them can go.      *)
(***************************************************************************)
EXTENDS RewardDistributor, TLC

CONSTANTS u1, u2, dist

MCAccount == {u1, u2, dist}
MCEOA     == {u1, u2}
MCAssets  == u1 :> 2 @@ u2 :> 1 @@ dist :> 0

\* The roles that come and go: the two grants that wire the distributor, and
\* the admin's own.
MCGrantable == {<<dist, "OPERATOR_ROLE">>, <<u2, "OPERATOR_ROLE">>,
                <<u1, "DEFAULT_ADMIN_ROLE">>}
=============================================================================
