----------------------------- MODULE SharePool -----------------------------
(***************************************************************************)
(* What a share-issuing vault promises, without accounts, allowances,      *)
(* roles or pause: a pool of assets and a supply of shares, exchanged for  *)
(* each other at a rate never better than the current price              *)
(* (pool + 1) / (supply + VirtualShares), plus gifts that raise the price. *)
(* StakingVault is shown to implement it.                                  *)
(***************************************************************************)
EXTENDS Rates

VARIABLES pool, supply
vars == <<pool, supply>>

Init == pool = 0 /\ supply = 0

\* s shares are issued for a assets that are worth at least as much.
Join(a, s) ==
    /\ s * (pool + 1) <= a * (supply + VirtualShares)
    /\ pool' = pool + a
    /\ supply' = supply + s

\* s shares are retired for a assets that are worth at most as much.
Leave(a, s) ==
    /\ a <= pool
    /\ s <= supply
    /\ a * (supply + VirtualShares) <= s * (pool + 1)
    /\ pool' = pool - a
    /\ supply' = supply - s

\* A reward or a donation: assets for no shares.
Gift(a) ==
    /\ pool' = pool + a
    /\ UNCHANGED supply

\* The amounts of a step are the differences it makes, so the steps need no
\* bound on them.
JoinStep  == pool' >= pool /\ supply' >= supply /\ Join(pool' - pool, supply' - supply)
LeaveStep == pool' <= pool /\ supply' <= supply /\ Leave(pool - pool', supply - supply')
GiftStep  == pool' >= pool /\ Gift(pool' - pool)

Next ==
    /\ pool' \in Nat /\ supply' \in Nat
    /\ JoinStep \/ LeaveStep \/ GiftStep

Spec == Init /\ [][Next]_vars

-----------------------------------------------------------------------------
TypeOK == pool \in Nat /\ supply \in Nat

\* The price of a share, compared across a step by cross-multiplication,
\* never falls: nobody who holds shares loses to anybody else's operation.
PriceStep ==
    (pool' + 1) * (supply + VirtualShares) >= (pool + 1) * (supply' + VirtualShares)

PriceNeverFalls == [][PriceStep]_vars
=============================================================================
