-------------------------- MODULE ArithmeticProofs --------------------------
(***************************************************************************)
(* What the operators the vault is built from return, for every argument.  *)
(*                                                                         *)
(* Rates: each conversion rounds against its caller, for every pool,       *)
(* supply, amount and virtual offset.                                      *)
(*                                                                         *)
(* Balances: credits add to the sum of the balances, debits take from it,  *)
(* moves leave it alone, and no balance is larger than it.                 *)
(***************************************************************************)
EXTENDS Rates, Balances, FiniteSetTheorems, TLAPS

Positive == Nat \ {0}

\* Division rounds down, and loses less than the divisor.
LEMMA DivBounds ==
  ASSUME NEW x \in Nat, NEW d \in Positive
  PROVE  /\ x \div d \in Nat
         /\ (x \div d) * d <= x
         /\ x < (x \div d) * d + d
BY SMT DEF Positive

\* MulDivDown(x, y, d) * d is at most x * y, and more than x * y - d.
LEMMA MulDivDownBounds ==
  ASSUME NEW x \in Nat, NEW y \in Nat, NEW d \in Positive
  PROVE  /\ MulDivDown(x, y, d) \in Nat
         /\ MulDivDown(x, y, d) * d <= x * y
         /\ x * y < MulDivDown(x, y, d) * d + d
<1>1. x * y \in Nat
  BY SMT
<1> QED
  BY <1>1, DivBounds, Zenon DEF MulDivDown

\* MulDivUp(x, y, d) * d is at least x * y, and less than x * y + d.
LEMMA MulDivUpBounds ==
  ASSUME NEW x \in Nat, NEW y \in Nat, NEW d \in Positive
  PROVE  /\ MulDivUp(x, y, d) \in Nat
         /\ x * y <= MulDivUp(x, y, d) * d
         /\ MulDivUp(x, y, d) * d < x * y + d
<1> DEFINE n == x * y
           c == n \div d
<1>1. n \in Nat
  BY SMT
<1>2. c \in Nat /\ c * d <= n /\ n < c * d + d
  BY <1>1, DivBounds, Zenon
<1>3. n % d = n - c * d
  <2> HIDE DEF n
  <2> QED
    BY <1>1, SMT DEF Positive
<1>4. MulDivUp(x, y, d) = IF n % d = 0 THEN c ELSE c + 1
  <2>1. c + 0 = c
    BY <1>2
  <2> QED
    BY <2>1 DEF MulDivUp, MulDivDown
<1>5. (c + 1) * d = c * d + d
  BY <1>2, SMT DEF Positive
<1>6. c * d \in Nat /\ d \in Nat
  <2> HIDE DEF c
  <2> QED
    BY <1>2, SMT DEF Positive
<1>7. CASE n % d = 0
  <2>1. MulDivUp(x, y, d) = c /\ n = c * d
    <3>1. n - c * d = 0
      BY <1>3, <1>7, Zenon
    <3> HIDE DEF n, c
    <3> QED
      BY <1>1, <1>4, <1>6, <1>7, <3>1
  <2> HIDE DEF n, c
  <2> QED
    BY <1>2, <1>6, <2>1 DEF Positive, n
<1>8. CASE n % d # 0
  <2>1. MulDivUp(x, y, d) = c + 1 /\ n # c * d
    <3>1. n - c * d # 0
      BY <1>3, <1>8, Zenon
    <3> HIDE DEF n, c
    <3> QED
      BY <1>1, <1>4, <1>6, <1>8, <3>1
  <2>2. c * d < n
    BY <1>1, <1>2, <1>6, <2>1
  <2> HIDE DEF n, c
  <2> QED
    BY <1>1, <1>2, <1>5, <1>6, <2>1, <2>2 DEF n
<1> QED
  BY <1>7, <1>8

-----------------------------------------------------------------------------
(* The conversions of ERC4626.                                             *)

\* The divisors of the conversions are positive.
LEMMA PositivePool ==
  ASSUME NEW ta \in Nat, NEW ts \in Nat
  PROVE  Pool(ta) \in Positive /\ Supply(ts) \in Positive
BY VirtualSharesAssumption DEF Pool, Supply, Positive

\* Every conversion yields a natural number, and a share is never sold below
\* its price nor bought back above it.
LEMMA PreviewBounds ==
  ASSUME NEW ta \in Nat, NEW ts \in Nat, NEW n \in Nat
  PROVE  /\ PreviewDeposit(n, ta, ts) \in Nat
         /\ PreviewDeposit(n, ta, ts) * Pool(ta) <= n * Supply(ts)
         /\ PreviewMint(n, ta, ts) \in Nat
         /\ n * Pool(ta) <= PreviewMint(n, ta, ts) * Supply(ts)
         /\ PreviewWithdraw(n, ta, ts) \in Nat
         /\ n * Supply(ts) <= PreviewWithdraw(n, ta, ts) * Pool(ta)
         /\ PreviewRedeem(n, ta, ts) \in Nat
         /\ PreviewRedeem(n, ta, ts) * Supply(ts) <= n * Pool(ta)
         /\ ConvertToAssets(n, ta, ts) \in Nat
         /\ ConvertToAssets(n, ta, ts) * Supply(ts) <= n * Pool(ta)
<1>1. Pool(ta) \in Positive /\ Supply(ts) \in Positive
  BY PositivePool
<1>2. Pool(ta) \in Nat /\ Supply(ts) \in Nat
  BY <1>1 DEF Positive
<1> QED
  BY <1>1, <1>2, MulDivDownBounds, MulDivUpBounds, Zenon
  DEF PreviewDeposit, PreviewMint, PreviewWithdraw, PreviewRedeem, ConvertToAssets

\* The next integer above (c - 1) * p / q is at most s, when c * q < s * p + q:
\* rounding assets down and their shares up again does not exceed s.
LEMMA RoundTrip ==
  \A c, s, w, p, q \in Nat :
    p # 0 /\ q # 0 /\ c * q <= s * p /\ w * p < c * q + p => w <= s
<1> SUFFICES ASSUME NEW c \in Nat, NEW s \in Nat, NEW w \in Nat, NEW p \in Nat,
                    NEW q \in Nat, p # 0, c * q <= s * p, w * p < c * q + p, w > s
             PROVE  FALSE
  OBVIOUS
<1>1. (s + 1) * p <= w * p
  BY SMT
<1>2. (s + 1) * p = s * p + p
  BY SMT
<1>3. c * q \in Nat /\ s * p \in Nat /\ w * p \in Nat
  BY SMT
<1> QED
  BY <1>1, <1>2, <1>3

\* What maxWithdraw promises never costs more shares than the owner has.
LEMMA WithdrawBackBounded ==
  ASSUME NEW ta \in Nat, NEW ts \in Nat, NEW s \in Nat
  PROVE  PreviewWithdraw(ConvertToAssets(s, ta, ts), ta, ts) <= s
<1> DEFINE c == ConvertToAssets(s, ta, ts)
           w == PreviewWithdraw(c, ta, ts)
           p == Pool(ta)
           q == Supply(ts)
<1>1. p \in Positive /\ q \in Positive
  BY PositivePool
<1>2. p \in Nat /\ q \in Nat /\ p # 0 /\ q # 0
  BY <1>1 DEF Positive
<1>3. c \in Nat /\ c * q <= s * p
  BY PreviewBounds
<1>4. w \in Nat /\ w * p < c * q + p
  <2> HIDE DEF c
  <2> QED
    BY <1>1, <1>2, <1>3, MulDivUpBounds, Zenon DEF PreviewWithdraw
<1> HIDE DEF c, w, p, q
<1>5. w <= s
  BY <1>2, <1>3, <1>4, RoundTrip, Zenon
<1> QED
  BY <1>5 DEF c, w

-----------------------------------------------------------------------------
(* An estimate of a claim that leaves the virtual shares out.              *)

\* A product is monotone in its factors.
LEMMA ProductMonotone ==
  /\ \A a, b, c \in Nat : a <= b => a * c <= b * c
  /\ \A a, b, c \in Nat : c # 0 /\ a * c <= b * c => a <= b
  /\ \A a, b, c \in Nat : c # 0 /\ a * c < b * c => a < b
<1>1. ASSUME NEW a \in Nat, NEW b \in Nat, NEW c \in Nat, a < b
      PROVE  a * c + c <= b * c
  BY <1>1, SMT
<1>2. \A a, b, c \in Nat : a * c \in Nat /\ b * c \in Nat
  BY SMT
<1>3. ASSUME NEW a \in Nat, NEW b \in Nat, NEW c \in Nat, a <= b
      PROVE  a * c <= b * c
  <2>1. CASE a = b
    BY <2>1, <1>2
  <2>2. CASE a < b
    BY <2>2, <1>1, <1>2
  <2> QED
    BY <1>3, <2>1, <2>2
<1>4. ASSUME NEW a \in Nat, NEW b \in Nat, NEW c \in Nat, c # 0, a * c <= b * c
      PROVE  a <= b
  <2> SUFFICES ASSUME b < a PROVE FALSE
    OBVIOUS
  <2>1. b * c + c <= a * c
    BY <1>1
  <2> QED
    BY <1>2, <1>4, <2>1
<1>5. ASSUME NEW a \in Nat, NEW b \in Nat, NEW c \in Nat, c # 0, a * c < b * c
      PROVE  a < b
  <2> SUFFICES ASSUME b <= a PROVE FALSE
    OBVIOUS
  <2>1. b * c <= a * c
    BY <1>3
  <2> QED
    BY <1>2, <1>5, <2>1
<1> QED
  BY <1>3, <1>4, <1>5

\* At a price that is no lower, n shares redeem for no less.
LEMMA FloorMonotone ==
  ASSUME NEW n \in Nat, NEW p \in Nat, NEW q \in Positive,
         NEW p2 \in Nat, NEW q2 \in Positive, p * q2 <= p2 * q
  PROVE  MulDivDown(n, p, q) <= MulDivDown(n, p2, q2)
<1> DEFINE a == MulDivDown(n, p, q)
           b == MulDivDown(n, p2, q2)
<1>1. q \in Nat /\ q # 0 /\ q2 \in Nat /\ q2 # 0
  BY DEF Positive
<1>2. a \in Nat /\ a * q <= n * p /\ b \in Nat /\ n * p2 < b * q2 + q2
  BY MulDivDownBounds
<1> HIDE DEF a, b
<1>3. \A x, y \in Nat : x * y \in Nat
  BY SMT
<1>4. (a * q) * q2 <= (n * p) * q2
  <2>1. a * q \in Nat /\ n * p \in Nat
    BY <1>1, <1>2, <1>3
  <2> QED
    BY <1>1, <1>2, <2>1, ProductMonotone
<1>5. (p * q2) * n <= (p2 * q) * n
  <2>1. p * q2 \in Nat /\ p2 * q \in Nat
    BY <1>1, <1>3
  <2> QED
    BY <2>1, ProductMonotone
<1>6. /\ (a * q) * q2 = (a * q2) * q
      /\ (n * p) * q2 = (p * q2) * n
      /\ (p2 * q) * n = (n * p2) * q
  <2>1. (a * q) * q2 = (a * q2) * q
    BY <1>1, <1>2, SMT
  <2>2. (n * p) * q2 = (p * q2) * n
    BY <1>1, SMT
  <2>3. (p2 * q) * n = (n * p2) * q
    BY <1>1, SMT
  <2> QED
    BY <2>1, <2>2, <2>3
<1>7. /\ a * q2 \in Nat /\ (a * q2) * q \in Nat /\ (p * q2) * n \in Nat
      /\ n * p2 \in Nat /\ (n * p2) * q \in Nat
  BY <1>1, <1>2, <1>3
<1>8. (a * q2) * q <= (n * p2) * q
  BY <1>4, <1>5, <1>6, <1>7
<1>9. a * q2 <= n * p2
  BY <1>1, <1>7, <1>8, ProductMonotone
<1>10. (b + 1) * q2 = b * q2 + q2 /\ (b + 1) * q2 \in Nat /\ b + 1 \in Nat
  BY <1>1, <1>2, SMT
<1>11. a * q2 < (b + 1) * q2
  BY <1>2, <1>7, <1>9, <1>10
<1>12. a < b + 1
  BY <1>1, <1>2, <1>10, <1>11, ProductMonotone
<1>13. a <= b
  BY <1>2, <1>12
<1> QED
  BY <1>13 DEF a, b

\* The estimate e of s out of q shares in a pool of p assets, where the price
\* is at least that of the empty pool, is at most the part s / q of p, and
\* exceeds the claim c by less than the virtual shares hold.
LEMMA EstimateAbove ==
  \A s, p, q, v, e, c \in Nat :
    /\ q # 0 /\ s <= q /\ q <= v * p
    /\ e * q <= s * p
    /\ s * (p + 1) < c * (q + v) + (q + v)
    => (e - c) * (q + v) < v * (p + 1)
<1> SUFFICES ASSUME NEW s \in Nat, NEW p \in Nat, NEW q \in Nat, NEW v \in Nat,
                    NEW e \in Nat, NEW c \in Nat, q # 0, s <= q, q <= v * p,
                    e * q <= s * p, s * (p + 1) < c * (q + v) + (q + v)
             PROVE  (e - c) * (q + v) < v * (p + 1)
  OBVIOUS
<1> DEFINE r == q - s
           vp == v * p
           ev == e * v
<1>1. r \in Nat /\ vp \in Nat /\ ev \in Nat /\ e * q \in Nat /\ s * p \in Nat
  BY SMT
<1>2. ev * q <= (s * p) * v
  <2>1. (e * q) * v <= (s * p) * v
    BY <1>1, ProductMonotone
  <2>2. (e * q) * v = ev * q
    BY SMT
  <2> QED
    BY <2>1, <2>2
<1>3. r * q <= r * vp
  <2>1. q * r <= vp * r
    <3> HIDE DEF r
    <3> QED
    BY <1>1, ProductMonotone
  <2>2. q * r = r * q /\ vp * r = r * vp
    <3> HIDE DEF r, vp
    <3> QED BY <1>1, SMT
  <2> QED
    BY <2>1, <2>2, Zenon
<1>4. (s * p) * v + r * vp = vp * q
  BY SMT
<1>5. (ev + r) * q <= vp * q
  <2>1. (ev + r) * q = ev * q + r * q
    <3> HIDE DEF ev, r
    <3> QED BY <1>1, SMT
  <2>2. ev * q \in Nat /\ r * q \in Nat /\ (s * p) * v \in Nat /\ r * vp \in Nat
    <3> HIDE DEF ev, r, vp
    <3> QED BY <1>1, SMT
  <2> HIDE DEF ev, r, vp
  <2> QED
    BY <1>2, <1>3, <1>4, <2>1, <2>2
<1>6. ev + r <= vp
  <2> HIDE DEF ev, r, vp
  <2>1. ev + r \in Nat
    BY <1>1
  <2> QED
    BY <1>1, <1>5, <2>1, ProductMonotone
<1>7. (e - c) * (q + v) = e * q + ev - c * (q + v)
  BY SMT
<1>8. s * (p + 1) = s * p + s /\ v * (p + 1) = vp + v
  BY SMT
<1>9. c * (q + v) \in Nat
  BY SMT
<1>10. r = q - s
  OBVIOUS
<1> HIDE DEF ev, r, vp
<1> QED
  BY <1>1, <1>6, <1>7, <1>8, <1>9, <1>10

\* The claim c is at most the part s / q of p, and the estimate, floored with
\* its rate, falls short of that by less than s / scale + 1.
LEMMA EstimateBelow ==
  \A s, p, q, v, c, rate, e, scale, t \in Nat :
    /\ q # 0 /\ scale # 0 /\ q <= v * p
    /\ c * (q + v) <= s * (p + 1)
    /\ p * scale < rate * q + q
    /\ s * rate < e * scale + scale
    /\ s < t * scale + scale
    => c <= e + t + 1
<1> SUFFICES ASSUME NEW s \in Nat, NEW p \in Nat, NEW q \in Nat, NEW v \in Nat, NEW c \in Nat,
                    NEW rate \in Nat, NEW e \in Nat, NEW scale \in Nat, NEW t \in Nat,
                    q # 0, scale # 0, q <= v * p, c * (q + v) <= s * (p + 1),
                    p * scale < rate * q + q, s * rate < e * scale + scale,
                    s < t * scale + scale
             PROVE  c <= e + t + 1
  OBVIOUS
<1>1. c * q <= s * p
  <2>1. (c * (q + v)) * q <= (s * (p + 1)) * q
    <3>1. c * (q + v) \in Nat /\ s * (p + 1) \in Nat
      BY SMT
    <3> QED
      BY <3>1, ProductMonotone
  <2>2. (s * (p + 1)) * q <= (s * p) * (q + v)
    <3>1. q * s <= (v * p) * s
      BY ProductMonotone, SMT
    <3>2. (s * (p + 1)) * q = (s * p) * q + q * s
      BY SMT
    <3>3. (s * p) * (q + v) = (s * p) * q + (v * p) * s
      BY SMT
    <3>4. (s * p) * q \in Nat /\ q * s \in Nat /\ (v * p) * s \in Nat
      BY SMT
    <3> QED
      BY <3>1, <3>2, <3>3, <3>4
  <2>3. (c * (q + v)) * q = (c * q) * (q + v)
    BY SMT
  <2>4. c * q \in Nat /\ s * p \in Nat /\ q + v \in Nat /\ q + v # 0
    BY SMT
  <2>5. (c * q) * (q + v) \in Nat /\ (s * (p + 1)) * q \in Nat /\ (s * p) * (q + v) \in Nat
    BY SMT
  <2>6. (c * q) * (q + v) <= (s * p) * (q + v)
    BY <2>1, <2>2, <2>3, <2>5
  <2> QED
    BY <2>4, <2>6, ProductMonotone
<1>2. c * scale <= s * rate + s
  <2>1. (c * q) * scale <= (s * p) * scale
    <3>1. c * q \in Nat /\ s * p \in Nat
      BY SMT
    <3> QED
      BY <1>1, <3>1, ProductMonotone
  <2>2. (p * scale) * s <= (rate * q + q) * s
    <3>1. p * scale \in Nat /\ rate * q + q \in Nat
      BY SMT
    <3> QED
      BY <3>1, ProductMonotone
  <2>3. (s * p) * scale = (p * scale) * s /\ (c * q) * scale = (c * scale) * q
    BY SMT
  <2>4. (rate * q + q) * s = (s * rate + s) * q
    BY SMT
  <2>5. c * scale \in Nat /\ s * rate + s \in Nat
    BY SMT
  <2>6. (c * scale) * q \in Nat /\ (p * scale) * s \in Nat /\ (s * rate + s) * q \in Nat
    BY SMT
  <2>7. (c * scale) * q <= (s * rate + s) * q
    BY <2>1, <2>2, <2>3, <2>4, <2>6
  <2> QED
    BY <2>5, <2>7, ProductMonotone
<1>3. c * scale < (e + t + 2) * scale
  <2>1. (e + t + 2) * scale = e * scale + t * scale + scale + scale
    BY SMT
  <2>2. e * scale \in Nat /\ t * scale \in Nat /\ s * rate \in Nat /\ c * scale \in Nat
    BY SMT
  <2> QED
    BY <1>2, <2>1, <2>2
<1>4. c < e + t + 2
  BY <1>3, ProductMonotone
<1> QED
  BY <1>4

-----------------------------------------------------------------------------
(* Ledgers.                                                                *)

Ledger(H) == [H -> Nat]

-----------------------------------------------------------------------------
(* The units of one holder.                                                *)

\* A holder h has as many units as its balance says.
LEMMA UnitsOfCount ==
  ASSUME NEW h, NEW a \in Nat, NEW b \in Nat, a <= b
  PROVE  /\ IsFiniteSet({h} \X ((a + 1)..b))
         /\ Cardinality({h} \X ((a + 1)..b)) = b - a
<1>1. IsFiniteSet({h}) /\ Cardinality({h}) = 1
  BY FS_Singleton
<1>2. IsFiniteSet((a + 1)..b) /\ Cardinality((a + 1)..b) = b - a
  <2>1. a + 1 \in Int /\ b \in Int
    OBVIOUS
  <2>2. /\ IsFiniteSet((a + 1)..b)
        /\ Cardinality((a + 1)..b) = IF a + 1 > b THEN 0 ELSE b - (a + 1) + 1
    BY <2>1, FS_Interval
  <2> QED
    BY <2>2
<1>3. /\ IsFiniteSet({h} \X ((a + 1)..b))
      /\ Cardinality({h} \X ((a + 1)..b)) = Cardinality({h}) * Cardinality((a + 1)..b)
  BY <1>1, <1>2, FS_Product
<1> QED
  BY <1>1, <1>2, <1>3

\* The same from the first unit on.
LEMMA UnitsOfBalance ==
  ASSUME NEW H, NEW bal \in Ledger(H), NEW h \in H
  PROVE  /\ IsFiniteSet(UnitsOf(bal, h))
         /\ Cardinality(UnitsOf(bal, h)) = bal[h]
<1>1. bal[h] \in Nat
  BY DEF Ledger
<1>2. ASSUME NEW b \in Nat
      PROVE  IsFiniteSet({h} \X (1..b)) /\ Cardinality({h} \X (1..b)) = b
  <2>1. /\ IsFiniteSet({h} \X ((0 + 1)..b))
        /\ Cardinality({h} \X ((0 + 1)..b)) = b - 0
    <3>1. 0 \in Nat /\ 0 <= b
      OBVIOUS
    <3> QED
      BY <3>1, UnitsOfCount, Zenon
  <2>2. 0 + 1 = 1 /\ b - 0 = b
    OBVIOUS
  <2> QED
    BY <2>1, <2>2, Zenon
<1> QED
  BY <1>1, <1>2 DEF UnitsOf

\* A ledger of finitely many holders has finitely many units.
LEMMA UnitsFinite ==
  ASSUME NEW H, IsFiniteSet(H), NEW bal \in Ledger(H)
  PROVE  IsFiniteSet(Units(bal))
<1> DEFINE T == {UnitsOf(bal, h) : h \in H}
           f == [h \in H |-> UnitsOf(bal, h)]
<1>1. f \in Surjection(H, T)
  BY DEF Surjection
<1>2. IsFiniteSet(T)
  BY <1>1, FS_Surjection
<1>3. \A U \in T : IsFiniteSet(U)
  BY UnitsOfBalance
<1>4. IsFiniteSet(UNION T)
  BY <1>2, <1>3, FS_UNION
<1>5. DOMAIN bal = H
  BY DEF Ledger
<1> QED
  BY <1>4, <1>5 DEF Units

\* What is a unit of a ledger.
LEMMA UnitsMember ==
  ASSUME NEW H, NEW bal \in Ledger(H)
  PROVE  \A u : u \in Units(bal) <=> \E h \in H : u \in {h} \X (1..bal[h])
<1>1. DOMAIN bal = H
  BY DEF Ledger
<1> QED
  BY <1>1 DEF Units, UnitsOf

-----------------------------------------------------------------------------
(* The sum of the balances.                                                *)

\* The sum is a natural number.
LEMMA TotalType ==
  ASSUME NEW H, IsFiniteSet(H), NEW bal \in Ledger(H)
  PROVE  TotalOf(bal) \in Nat
BY UnitsFinite, FS_CardinalityType DEF TotalOf

\* No balance is larger than the sum.
LEMMA BalanceInTotal ==
  ASSUME NEW H, IsFiniteSet(H), NEW bal \in Ledger(H), NEW h \in H
  PROVE  bal[h] <= TotalOf(bal)
<1>1. UnitsOf(bal, h) \subseteq Units(bal)
  BY DEF Units, Ledger
<1>2. Cardinality(UnitsOf(bal, h)) <= Cardinality(Units(bal))
  BY <1>1, UnitsFinite, FS_Subset
<1> QED
  BY <1>2, UnitsOfBalance DEF TotalOf

\* A ledger of empty accounts sums to zero.
LEMMA TotalOfEmpty ==
  ASSUME NEW H
  PROVE  TotalOf([h \in H |-> 0]) = 0
<1> DEFINE bal == [h \in H |-> 0]
<1>1. bal \in Ledger(H)
  BY DEF Ledger
<1>2. \A u : u \notin Units(bal)
  BY <1>1, UnitsMember
<1>3. Units(bal) = {}
  BY <1>2
<1> QED
  BY <1>3, FS_EmptySet DEF TotalOf

\* A credit keeps the ledger a ledger and adds to the sum.
LEMMA CreditTotal ==
  ASSUME NEW H, IsFiniteSet(H), NEW bal \in Ledger(H), NEW h \in H, NEW n \in Nat
  PROVE  /\ Credit(bal, h, n) \in Ledger(H)
         /\ TotalOf(Credit(bal, h, n)) = TotalOf(bal) + n
<1> DEFINE new == Credit(bal, h, n)
           b   == bal[h]
           add == {h} \X ((b + 1)..(b + n))
<1>1. b \in Nat
  BY DEF Ledger
<1>2. new \in Ledger(H)
  BY <1>1 DEF Credit, Ledger
<1>3. \A g \in H : new[g] = IF g = h THEN b + n ELSE bal[g]
  BY DEF Credit, Ledger
<1>4. IsFiniteSet(add) /\ Cardinality(add) = n
  <2>1. b + n \in Nat /\ b <= b + n /\ (b + n) - b = n
    BY <1>1
  <2> QED
    BY <1>1, <2>1, UnitsOfCount
<1>5. Units(new) = Units(bal) \cup add
  <2>1. 1..(b + n) = (1..b) \cup ((b + 1)..(b + n))
    BY <1>1
  <2>2. ASSUME NEW u PROVE u \in Units(new) <=> u \in Units(bal) \cup add
    <3>1. u \in Units(new) <=> \E g \in H : u \in {g} \X (1..new[g])
      BY <1>2, UnitsMember
    <3>2. u \in Units(bal) <=> \E g \in H : u \in {g} \X (1..bal[g])
      BY UnitsMember
    <3>3. {h} \X (1..(b + n)) = ({h} \X (1..b)) \cup add
      BY <2>1
    <3> HIDE DEF new, add
    <3> QED
      BY <1>3, <3>1, <3>2, <3>3
  <2> QED
    BY <2>2
<1>6. Units(bal) \cap add = {}
  <2>1. ASSUME NEW u \in Units(bal), u \in add PROVE FALSE
    <3>1. PICK g \in H : u \in {g} \X (1..bal[g])
      BY <2>1, UnitsMember
    <3>2. u[1] = g /\ u[2] \in 1..bal[g] /\ u[1] = h /\ u[2] \in (b + 1)..(b + n)
      BY <2>1, <3>1
    <3> QED
      BY <1>1, <3>2
  <2> QED
    BY <2>1
<1>7. IsFiniteSet(Units(bal)) /\ Cardinality(Units(bal)) \in Nat
  BY UnitsFinite, FS_CardinalityType
<1>8. Cardinality(Units(bal) \cup add)
        = Cardinality(Units(bal)) + Cardinality(add) - Cardinality(Units(bal) \cap add)
  BY <1>4, <1>7, FS_Union
<1>9. Cardinality(Units(bal) \cap add) = 0
  BY <1>6, FS_EmptySet
<1> QED
  <2>1. Cardinality(Units(new)) = Cardinality(Units(bal)) + n
    BY <1>4, <1>5, <1>7, <1>8, <1>9
  <2> QED
    BY <1>2, <2>1 DEF TotalOf

\* A covered debit keeps the ledger a ledger and takes from the sum.
LEMMA DebitTotal ==
  ASSUME NEW H, IsFiniteSet(H), NEW bal \in Ledger(H), NEW h \in H, NEW n \in Nat,
         n <= bal[h]
  PROVE  /\ Debit(bal, h, n) \in Ledger(H)
         /\ TotalOf(Debit(bal, h, n)) = TotalOf(bal) - n
<1> DEFINE new == Debit(bal, h, n)
<1>1. bal[h] \in Nat /\ bal[h] - n \in Nat
  BY DEF Ledger
<1>2. new \in Ledger(H)
  BY <1>1 DEF Debit, Ledger
<1>3. Credit(new, h, n) = bal
  <2>1. /\ Credit(new, h, n) \in Ledger(H)
        /\ \A g \in H : Credit(new, h, n)[g] = IF g = h THEN (bal[h] - n) + n ELSE bal[g]
    BY <1>1 DEF Credit, Debit, Ledger
  <2>2. \A g \in H : Credit(new, h, n)[g] = bal[g]
    BY <1>1, <2>1
  <2> HIDE DEF new
  <2> QED
    BY <2>1, <2>2 DEF Ledger
<1>4. TotalOf(Credit(new, h, n)) = TotalOf(new) + n
  BY <1>2, CreditTotal
<1>5. TotalOf(new) \in Nat /\ TotalOf(bal) \in Nat
  BY <1>2, TotalType
<1> HIDE DEF new
<1>6. TotalOf(new) = TotalOf(bal) - n
  BY <1>3, <1>4, <1>5
<1> USE DEF new
<1> QED
  BY <1>2, <1>6

\* A covered move, to the same holder included, leaves the sum alone.
LEMMA MoveTotal ==
  ASSUME NEW H, IsFiniteSet(H), NEW bal \in Ledger(H),
         NEW from \in H, NEW to \in H, NEW n \in Nat, n <= bal[from]
  PROVE  /\ Move(bal, from, to, n) \in Ledger(H)
         /\ TotalOf(Move(bal, from, to, n)) = TotalOf(bal)
<1>1. /\ Debit(bal, from, n) \in Ledger(H)
      /\ TotalOf(Debit(bal, from, n)) = TotalOf(bal) - n
  BY DebitTotal
<1>2. TotalOf(bal) \in Nat
  BY TotalType
<1>3. /\ Credit(Debit(bal, from, n), to, n) \in Ledger(H)
      /\ TotalOf(Credit(Debit(bal, from, n), to, n)) = TotalOf(Debit(bal, from, n)) + n
  BY <1>1, CreditTotal
<1> QED
  BY <1>1, <1>2, <1>3 DEF Move

-----------------------------------------------------------------------------
(* Pricing a whole ledger: when every balance of one ledger, times b, is   *)
(* at most the balance of another, times a, then so are the sums.          *)

\* The number i * b + j, for j below b, determines i and j.
LEMMA PairCode ==
  \A b, i, j, k, l \in Nat :
    j < b /\ l < b /\ i * b + j = k * b + l => i = k /\ j = l
<1> SUFFICES ASSUME NEW b \in Nat, NEW i \in Nat, NEW j \in Nat, NEW k \in Nat, NEW l \in Nat,
                    j < b, l < b, i * b + j = k * b + l
             PROVE  i = k /\ j = l
  OBVIOUS
<1>1. i * b \in Nat /\ k * b \in Nat
  BY SMT
<1>2. ASSUME i < k PROVE FALSE
  <2>1. (i + 1) * b <= k * b /\ (i + 1) * b = i * b + b
    BY <1>2, SMT
  <2> QED
    BY <1>1, <2>1
<1>3. ASSUME k < i PROVE FALSE
  <2>1. (k + 1) * b <= i * b /\ (k + 1) * b = k * b + b
    BY <1>3, SMT
  <2> QED
    BY <1>1, <2>1
<1>4. i = k
  BY <1>2, <1>3
<1> QED
  BY <1>1, <1>4

\* Quotient and remainder determine a number, and bound it.
LEMMA QuotientCode ==
  ASSUME NEW a \in Nat \ {0}
  PROVE  /\ \A x \in Nat : /\ x \div a \in Nat
                           /\ x % a \in 0..(a - 1)
                           /\ x = (x \div a) * a + (x % a)
         /\ \A x, s \in Nat : x < s * a => x \div a < s
<1>1. ASSUME NEW x \in Nat
      PROVE  /\ x \div a \in Nat
             /\ x % a \in 0..(a - 1)
             /\ x = (x \div a) * a + (x % a)
  BY SMT
<1>2. ASSUME NEW x \in Nat, NEW s \in Nat, x < s * a, x \div a >= s PROVE FALSE
  <2>1. (x \div a) * a >= s * a
    BY <1>1, <1>2, SMT
  <2>2. s * a \in Nat /\ (x \div a) * a \in Nat
    BY <1>1, SMT
  <2> QED
    BY <1>1, <1>2, <2>1, <2>2
<1> QED
  BY <1>1, <1>2

\* The units of the one ledger, b times each, fit in those of the other, a
\* times each.
LEMMA ScaledTotal ==
  ASSUME NEW H, IsFiniteSet(H), NEW c \in Ledger(H), NEW s \in Ledger(H),
         NEW a \in Nat \ {0}, NEW b \in Nat,
         \A h \in H : c[h] * b <= s[h] * a
  PROVE  TotalOf(c) * b <= TotalOf(s) * a
<1> DEFINE S == Units(c) \X (1..b)
           T == Units(s) \X (1..a)
           code(x) == (x[1][2] - 1) * b + (x[2] - 1)
           image(h, k) == <<<<h, (k \div a) + 1>>, (k % a) + 1>>
           f == [x \in S |-> image(x[1][1], code(x))]
<1>1. ASSUME NEW x \in S
      PROVE  /\ x = <<<<x[1][1], x[1][2]>>, x[2]>>
             /\ x[1][1] \in H
             /\ x[1][2] \in 1..c[x[1][1]]
             /\ x[2] \in 1..b
  <2>1. x = <<x[1], x[2]>> /\ x[1] \in Units(c) /\ x[2] \in 1..b
    OBVIOUS
  <2>2. PICK h \in H : x[1] \in {h} \X (1..c[h])
    BY <2>1, UnitsMember
  <2> QED
    BY <2>1, <2>2
<1>2. ASSUME NEW n \in Nat, NEW m \in Nat, NEW i \in 1..n, NEW j \in 1..b, n * b <= m * a
      PROVE  /\ (i - 1) * b + (j - 1) \in Nat
             /\ (i - 1) * b + (j - 1) < m * a
  <2>1. (i - 1) * b + b = i * b /\ i * b <= n * b
    BY <1>2, SMT
  <2>2. (i - 1) * b \in Nat /\ i * b \in Nat /\ n * b \in Nat /\ m * a \in Nat
    BY <1>2, SMT
  <2> QED
    BY <1>2, <2>1, <2>2
<1>3. ASSUME NEW x \in S
      PROVE  code(x) \in Nat /\ code(x) < s[x[1][1]] * a
  <2>1. c[x[1][1]] \in Nat /\ s[x[1][1]] \in Nat
    BY <1>1 DEF Ledger
  <2> QED
    BY <1>1, <1>2, <2>1
<1>4. ASSUME NEW h \in H, NEW k \in Nat, k < s[h] * a
      PROVE  image(h, k) \in T
  <2>1. k \div a \in Nat /\ k % a \in 0..(a - 1) /\ s[h] \in Nat /\ k \div a < s[h]
    BY <1>4, QuotientCode DEF Ledger
  <2>2. (k \div a) + 1 \in 1..s[h] /\ (k % a) + 1 \in 1..a
    BY <2>1
  <2>3. <<h, (k \div a) + 1>> \in Units(s)
    BY <2>2, UnitsMember
  <2> QED
    BY <2>2, <2>3
<1>5. \A k \in Nat : k \div a \in Int /\ k % a \in Int
  BY QuotientCode
<1>6. \A k, l \in Nat : k \div a = l \div a /\ k % a = l % a => k = l
  BY QuotientCode, Zenon
<1>7. f \in [S -> T]
  BY <1>1, <1>3, <1>4
<1>8. ASSUME NEW x \in S, NEW y \in S, f[x] = f[y]
      PROVE  x = y
  <2>1. /\ x[1][1] = y[1][1]
        /\ code(x) \div a = code(y) \div a
        /\ code(x) % a = code(y) % a
    <3>1. image(x[1][1], code(x)) = image(y[1][1], code(y))
      BY <1>8
    <3>2. code(x) \div a \in Int /\ code(y) \div a \in Int /\ code(x) % a \in Int /\ code(y) % a \in Int
      BY <1>3, <1>5, Zenon
    <3> HIDE DEF code
    <3> QED
      BY <3>1, <3>2
  <2>2. code(x) = code(y)
    <3>1. code(x) \in Nat /\ code(y) \in Nat
      BY <1>3
    <3> HIDE DEF code
    <3> QED
      BY <1>6, <2>1, <3>1, Zenon
  <2>3. x[1][2] - 1 = y[1][2] - 1 /\ x[2] - 1 = y[2] - 1
    <3>1. /\ x[1][2] - 1 \in Nat /\ x[2] - 1 \in Nat /\ x[2] - 1 < b
          /\ y[1][2] - 1 \in Nat /\ y[2] - 1 \in Nat /\ y[2] - 1 < b
      <4>1. c[x[1][1]] \in Nat /\ c[y[1][1]] \in Nat
        BY <1>1 DEF Ledger
      <4> QED
        BY <1>1, <4>1
    <3> DEFINE i == x[1][2] - 1
               j == x[2] - 1
               k == y[1][2] - 1
               l == y[2] - 1
    <3>2. i * b + j = k * b + l
      BY <2>2
    <3> HIDE DEF i, j, k, l
    <3>3. i \in Nat /\ j \in Nat /\ k \in Nat /\ l \in Nat /\ j < b /\ l < b
      BY <3>1, Zenon DEF i, j, k, l
    <3>4. i = k /\ j = l
      BY <3>2, <3>3, PairCode, Zenon
    <3> QED
      BY <3>4 DEF i, j, k, l
  <2>4. x[1][2] = y[1][2] /\ x[2] = y[2]
    <3>1. c[x[1][1]] \in Nat /\ c[y[1][1]] \in Nat
      BY <1>1 DEF Ledger
    <3> QED
      BY <1>1, <2>3, <3>1
  <2> QED
    BY <1>1, <2>1, <2>4
<1>9. f \in Injection(S, T)
  BY <1>7, <1>8 DEF Injection, IsInjective
<1>A. /\ IsFiniteSet(S) /\ Cardinality(S) = TotalOf(c) * b
      /\ IsFiniteSet(T) /\ Cardinality(T) = TotalOf(s) * a
  <2>1. ASSUME NEW n \in Nat
        PROVE  IsFiniteSet(1..n) /\ Cardinality(1..n) = n
    <3>1. IsFiniteSet(1..n) /\ Cardinality(1..n) = IF 1 > n THEN 0 ELSE n - 1 + 1
      BY FS_Interval
    <3> QED
      BY <3>1
  <2>2. IsFiniteSet(Units(c)) /\ IsFiniteSet(Units(s))
    BY UnitsFinite
  <2>3. /\ IsFiniteSet(1..a) /\ Cardinality(1..a) = a
        /\ IsFiniteSet(1..b) /\ Cardinality(1..b) = b
    BY <2>1
  <2>4. IsFiniteSet(S) /\ Cardinality(S) = Cardinality(Units(c)) * Cardinality(1..b)
    BY <2>2, <2>3, FS_Product, Zenon
  <2>5. IsFiniteSet(T) /\ Cardinality(T) = Cardinality(Units(s)) * Cardinality(1..a)
    BY <2>2, <2>3, FS_Product, Zenon
  <2> QED
    BY <2>3, <2>4, <2>5, Zenon DEF TotalOf
<1> HIDE DEF S, T, f
<1> QED
  BY <1>9, <1>A, FS_Injection
=============================================================================
