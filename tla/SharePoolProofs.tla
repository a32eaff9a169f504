--------------------------- MODULE SharePoolProofs ---------------------------
(***************************************************************************)
(* Proofs about the abstract share pool: the price of a share never falls. *)
(***************************************************************************)
EXTENDS SharePool, TLAPS

\* Pool and supply stay natural numbers, as Next says of every step.
LEMMA SharePoolTypes == Spec => []TypeOK
<1>1. Init => TypeOK
  BY DEF Init, TypeOK
<1>2. TypeOK /\ [Next]_vars => TypeOK'
  BY DEF TypeOK, Next, vars
<1> QED
  BY <1>1, <1>2, PTL DEF Spec

-----------------------------------------------------------------------------
(* The arithmetic of the price, for a pool that goes from p to p1 while    *)
(* the supply goes from q to q1, with v virtual shares.                    *)

\* Shares bought at the price or above do not lower it.
LEMMA JoinKeepsPrice ==
  \A v, p, q, p1, q1 \in Nat :
    /\ p1 >= p /\ q1 >= q
    /\ (q1 - q) * (p + 1) <= (p1 - p) * (q + v)
    => (p1 + 1) * (q + v) >= (p + 1) * (q1 + v)
  BY SMT

\* Shares redeemed at the price or below do not lower it.
LEMMA LeaveKeepsPrice ==
  \A v, p, q, p1, q1 \in Nat :
    /\ p1 <= p /\ q1 <= q
    /\ (p - p1) * (q + v) <= (q - q1) * (p + 1)
    => (p1 + 1) * (q + v) >= (p + 1) * (q1 + v)
  BY SMT

\* A gift does not lower it.
LEMMA GiftKeepsPrice ==
  \A v, p, q, p1 \in Nat :
    p1 >= p => (p1 + 1) * (q + v) >= (p + 1) * (q + v)
  BY SMT

\* A step of the pool keeps the price of a share or raises it.
LEMMA SharePoolPriceStep == TypeOK /\ Next => PriceStep
<1> SUFFICES ASSUME TypeOK, Next PROVE PriceStep
  OBVIOUS
<1>1. VirtualShares \in Nat
  BY VirtualSharesAssumption
<1>2. pool \in Nat /\ supply \in Nat
  BY DEF TypeOK
<1>3. pool' \in Nat /\ supply' \in Nat
  BY DEF Next
<1>4. CASE JoinStep
  BY <1>1, <1>2, <1>3, <1>4, JoinKeepsPrice, Zenon DEF JoinStep, Join, PriceStep
<1>5. CASE LeaveStep
  BY <1>1, <1>2, <1>3, <1>5, LeaveKeepsPrice, Zenon DEF LeaveStep, Leave, PriceStep
<1>6. CASE GiftStep
  <2>1. supply' = supply /\ pool' >= pool
    BY <1>6, Zenon DEF GiftStep, Gift
  <2>2. (pool' + 1) * (supply + VirtualShares) >= (pool + 1) * (supply + VirtualShares)
    BY <1>1, <1>2, <1>3, <2>1, GiftKeepsPrice, Zenon
  <2> QED
    BY <2>1, <2>2, Zenon DEF PriceStep
<1> QED
  BY <1>4, <1>5, <1>6 DEF Next

\* In every behaviour of the pool the price of a share never falls.
THEOREM SharePoolPrice == Spec => PriceNeverFalls
<1>1. TypeOK /\ [Next]_vars => [PriceStep]_vars
  BY SharePoolPriceStep
<1> QED
  BY <1>1, SharePoolTypes, PTL DEF Spec, PriceNeverFalls
=============================================================================
