------------------------- MODULE StakingVaultProofs -------------------------
(***************************************************************************)
(* Proofs about StakingVault, and about the estimates the backend makes of *)
(* it, for any accounts, amounts, approvals, grants and virtual offset.    *)
(* The inductive invariant is TypeOK with SupplyIsSum: a burn leaves       *)
(* totalSupply a natural number only because no balance is larger than the *)
(* sum of the balances.                                                    *)
(***************************************************************************)
EXTENDS VaultEstimates, ArithmeticProofs

IInv == TypeOK /\ SupplyIsSum

\* A step as the abstract pool sees it.
PoolStep == SP!Next \/ UNCHANGED SP!vars

-----------------------------------------------------------------------------
(* Facts about the constants and the state.                                *)

\* Accounts and the vault together hold tokens, and are finitely many.
LEMMA HolderFacts ==
  /\ IsFiniteSet(Holder)
  /\ Account \subseteq Holder
  /\ EOA \subseteq Account
  /\ Vault \in Holder
<1>1. IsFiniteSet(Account \cup {Vault})
  BY AccountAssumption, FS_AddElement
<1> QED
  BY <1>1, AccountAssumption DEF Holder

\* The invariant in terms of ledgers.
LEMMA LedgerFacts ==
  ASSUME TypeOK
  PROVE  /\ asset \in Ledger(Holder)
         /\ shares \in Ledger(Holder)
         /\ TotalAssets \in Nat
         /\ totalSupply \in Nat
BY HolderFacts DEF TypeOK, Ledger, TotalAssets

\* Spending an allowance that is large enough leaves an allowance.
LEMMA SpendFromType ==
  ASSUME NEW w \in Allowance, NEW n \in Nat, Allows(w, n)
  PROVE  SpendFrom(w, n) \in Allowance
BY UnlimitedAssumption DEF Allowance, Allows, SpendFrom

-----------------------------------------------------------------------------
(* The building blocks.                                                    *)

\* What a pull adds to the vault's assets.
LEMMA PullAssetFacts ==
  ASSUME TypeOK, NEW caller \in Account, NEW n \in Nat, PullAsset(caller, n)
  PROVE  /\ asset' \in [Holder -> Nat]
         /\ assetAllowance' \in [Account -> Allowance]
         /\ TotalAssets' = TotalAssets + n
<1>1. caller \in Holder /\ Vault \in Holder /\ caller # Vault
  BY HolderFacts, AccountAssumption
<1>2. asset \in [Holder -> Nat] /\ n <= asset[caller] /\ asset' = Move(asset, caller, Vault, n)
  BY DEF PullAsset, Holds, TypeOK
<1>3. asset' \in [Holder -> Nat]
  BY <1>1, <1>2, HolderFacts, MoveTotal DEF Ledger
<1>4. asset'[Vault] = asset[Vault] + n
  BY <1>1, <1>2 DEF Move, Credit, Debit
<1>5. assetAllowance' \in [Account -> Allowance]
  <2>1. SpendFrom(assetAllowance[caller], n) \in Allowance
    BY SpendFromType DEF PullAsset, TypeOK
  <2> QED
    BY <2>1 DEF PullAsset, TypeOK
<1> QED
  BY <1>3, <1>4, <1>5 DEF TotalAssets

\* What a push takes from the vault's assets: nothing if it is the receiver.
LEMMA PushAssetFacts ==
  ASSUME TypeOK, NEW receiver \in Holder, NEW n \in Nat, PushAsset(receiver, n)
  PROVE  /\ n <= TotalAssets
         /\ asset' \in [Holder -> Nat]
         /\ assetAllowance' \in [Account -> Allowance]
         /\ TotalAssets' = IF receiver = Vault THEN TotalAssets ELSE TotalAssets - n
<1>1. /\ asset \in [Holder -> Nat] /\ n <= asset[Vault] /\ Vault \in Holder
      /\ asset' = Move(asset, Vault, receiver, n)
  BY HolderFacts DEF PushAsset, Holds, TypeOK
<1>2. asset' \in [Holder -> Nat]
  BY <1>1, HolderFacts, MoveTotal DEF Ledger
<1>3. asset'[Vault] = IF receiver = Vault THEN asset[Vault] ELSE asset[Vault] - n
  BY <1>1 DEF Move, Credit, Debit
<1> QED
  BY <1>1, <1>2, <1>3 DEF TotalAssets, PushAsset, TypeOK

\* A mint keeps the supply the sum of the balances.
LEMMA MintSharesFacts ==
  ASSUME IInv, NEW receiver \in Holder, NEW n \in Nat, MintShares(receiver, n)
  PROVE  /\ shares' \in [Holder -> Nat]
         /\ totalSupply' = totalSupply + n
         /\ totalSupply' \in Nat
         /\ SupplyIsSum'
<1>1. shares \in Ledger(Holder) /\ totalSupply \in Nat /\ TotalOf(shares) = totalSupply
  BY LedgerFacts DEF IInv, SupplyIsSum
<1>2. shares' = Credit(shares, receiver, n) /\ totalSupply' = totalSupply + n
  BY DEF MintShares
<1>3. /\ Credit(shares, receiver, n) \in Ledger(Holder)
      /\ TotalOf(Credit(shares, receiver, n)) = TotalOf(shares) + n
  BY <1>1, HolderFacts, CreditTotal
<1> QED
  BY <1>1, <1>2, <1>3 DEF SupplyIsSum, Ledger

\* So does a burn, which takes no more than the supply.
LEMMA BurnSharesFacts ==
  ASSUME IInv, NEW owner \in Holder, NEW n \in Nat, BurnShares(owner, n)
  PROVE  /\ n <= totalSupply
         /\ shares' \in [Holder -> Nat]
         /\ totalSupply' = totalSupply - n
         /\ totalSupply' \in Nat
         /\ SupplyIsSum'
<1>1. shares \in Ledger(Holder) /\ totalSupply \in Nat /\ TotalOf(shares) = totalSupply
  BY LedgerFacts DEF IInv, SupplyIsSum
<1>2. n <= shares[owner] /\ shares' = Debit(shares, owner, n) /\ totalSupply' = totalSupply - n
  BY DEF BurnShares, Holds
<1>3. /\ Debit(shares, owner, n) \in Ledger(Holder)
      /\ TotalOf(Debit(shares, owner, n)) = TotalOf(shares) - n
  BY <1>1, <1>2, HolderFacts, DebitTotal
<1>4. shares[owner] \in Nat /\ shares[owner] <= TotalOf(shares)
  BY <1>1, HolderFacts, BalanceInTotal DEF Ledger
<1>5. n <= totalSupply /\ totalSupply - n \in Nat
  BY <1>1, <1>2, <1>4
<1> QED
  BY <1>1, <1>2, <1>3, <1>5 DEF SupplyIsSum, Ledger

\* Spending a share allowance keeps the allowances allowances.
LEMMA SpendShareAllowanceFacts ==
  ASSUME TypeOK, NEW owner \in Account, NEW spender \in Account, NEW n \in Nat,
         SpendShareAllowance(owner, spender, n)
  PROVE  shareAllowance' \in [Account \X Account -> Allowance]
<1>1. shareAllowance[<<owner, spender>>] \in Allowance
  BY DEF TypeOK
<1>2. SpendFrom(shareAllowance[<<owner, spender>>], n) \in Allowance
  BY <1>1, SpendFromType DEF SpendShareAllowance
<1> QED
  BY <1>2 DEF SpendShareAllowance, TypeOK

-----------------------------------------------------------------------------
(* The steps of the abstract pool.                                         *)

\* Assets come in, shares worth no more are minted.
LEMMA PoolJoins ==
  ASSUME IInv, NEW a \in Nat, NEW s \in Nat,
         s * Pool(TotalAssets) <= a * Supply(totalSupply),
         TotalAssets' = TotalAssets + a, totalSupply' = totalSupply + s
  PROVE  PoolStep
<1>1. TotalAssets \in Nat /\ totalSupply \in Nat
  BY LedgerFacts DEF IInv
<1> DEFINE p  == TotalAssets
           q  == totalSupply
           p1 == TotalAssets'
           q1 == totalSupply'
<1>2. p \in Nat /\ q \in Nat /\ p1 = p + a /\ q1 = q + s
  BY <1>1
<1> HIDE DEF p, q, p1, q1
<1>3. /\ p1 \in Nat /\ q1 \in Nat /\ p1 >= p /\ q1 >= q
      /\ p1 - p = a /\ q1 - q = s
  BY <1>2
<1>4. s * (p + 1) <= a * (q + VirtualShares)
  BY DEF Pool, Supply, p, q
<1> USE DEF p, q, p1, q1
<1>5. SP!Join(p1 - p, q1 - q)
  BY <1>3, <1>4, Zenon DEF SP!Join
<1> QED
  BY <1>3, <1>5, Zenon DEF PoolStep, SP!Next, SP!JoinStep

\* Shares are burned, assets worth no more go out.
LEMMA PoolLeaves ==
  ASSUME IInv, NEW a \in Nat, NEW s \in Nat, a <= TotalAssets, s <= totalSupply,
         a * Supply(totalSupply) <= s * Pool(TotalAssets),
         TotalAssets' = TotalAssets - a, totalSupply' = totalSupply - s
  PROVE  PoolStep
<1>1. TotalAssets \in Nat /\ totalSupply \in Nat
  BY LedgerFacts DEF IInv
<1> DEFINE p  == TotalAssets
           q  == totalSupply
           p1 == TotalAssets'
           q1 == totalSupply'
<1>2. p \in Nat /\ q \in Nat /\ p1 = p - a /\ q1 = q - s /\ a <= p /\ s <= q
  BY <1>1
<1> HIDE DEF p, q, p1, q1
<1>3. /\ p1 \in Nat /\ q1 \in Nat /\ p1 <= p /\ q1 <= q
      /\ p - p1 = a /\ q - q1 = s
  BY <1>2
<1>4. a * (q + VirtualShares) <= s * (p + 1)
  BY DEF Pool, Supply, p, q
<1> USE DEF p, q, p1, q1
<1>5. SP!Leave(p - p1, q - q1)
  BY <1>2, <1>3, <1>4, Zenon DEF SP!Leave
<1> QED
  BY <1>3, <1>5, Zenon DEF PoolStep, SP!Next, SP!LeaveStep

\* Assets come in for nothing.
LEMMA PoolGains ==
  ASSUME IInv, NEW a \in Nat,
         TotalAssets' = TotalAssets + a, totalSupply' = totalSupply
  PROVE  PoolStep
<1>1. TotalAssets \in Nat /\ totalSupply \in Nat
  BY LedgerFacts DEF IInv
<1> DEFINE p  == TotalAssets
           q  == totalSupply
           p1 == TotalAssets'
<1>2. p \in Nat /\ q \in Nat /\ p1 = p + a
  BY <1>1
<1> HIDE DEF p, q, p1
<1>3. p1 \in Nat /\ p1 >= p /\ p1 - p = a
  BY <1>2
<1> USE DEF p, q, p1
<1>5. SP!Gift(p1 - p)
  BY <1>3, Zenon DEF SP!Gift
<1> QED
  BY <1>2, <1>3, <1>5, Zenon DEF PoolStep, SP!Next, SP!GiftStep

-----------------------------------------------------------------------------
(* Entering and leaving.                                                   *)

\* A deposit or a mint, when its shares are worth no more than its assets.
LEMMA EnterStep ==
  ASSUME IInv, NEW caller \in Account, NEW receiver \in Holder,
         NEW assets \in Nat, NEW n \in Nat,
         n * Pool(TotalAssets) <= assets * Supply(totalSupply),
         Enter(caller, receiver, assets, n)
  PROVE  IInv' /\ PoolStep
<1>1. TypeOK /\ PullAsset(caller, assets) /\ MintShares(receiver, n)
  BY DEF IInv, Enter
<1>2. /\ asset' \in [Holder -> Nat]
      /\ assetAllowance' \in [Account -> Allowance]
      /\ TotalAssets' = TotalAssets + assets
  BY <1>1, PullAssetFacts
<1>3. /\ shares' \in [Holder -> Nat]
      /\ totalSupply' = totalSupply + n
      /\ totalSupply' \in Nat
      /\ SupplyIsSum'
  BY <1>1, MintSharesFacts
<1>4. UNCHANGED <<shareAllowance, paused, roles>>
  BY DEF Enter, control
<1>5. IInv'
  BY <1>1, <1>2, <1>3, <1>4, Zenon DEF IInv, TypeOK
<1>6. PoolStep
  BY <1>2, <1>3, PoolJoins, Zenon
<1> QED
  BY <1>5, <1>6

\* Burning shares and paying assets worth no more, to the vault itself or to
\* somebody else, with the share allowances kept well-typed.
LEMMA PayOut ==
  ASSUME IInv, NEW owner \in Holder, NEW receiver \in Holder,
         NEW assets \in Nat, NEW n \in Nat,
         assets * Supply(totalSupply) <= n * Pool(TotalAssets),
         BurnShares(owner, n), PushAsset(receiver, assets),
         shareAllowance' \in [Account \X Account -> Allowance],
         UNCHANGED control
  PROVE  IInv' /\ PoolStep
<1>1. TypeOK
  BY DEF IInv
<1>2. /\ assets <= TotalAssets
      /\ asset' \in [Holder -> Nat]
      /\ assetAllowance' \in [Account -> Allowance]
      /\ TotalAssets' = IF receiver = Vault THEN TotalAssets ELSE TotalAssets - assets
  BY <1>1, PushAssetFacts
<1>3. /\ n <= totalSupply
      /\ shares' \in [Holder -> Nat]
      /\ totalSupply' = totalSupply - n
      /\ totalSupply' \in Nat
      /\ SupplyIsSum'
  BY BurnSharesFacts
<1>4. IInv'
  BY <1>1, <1>2, <1>3, Zenon DEF IInv, TypeOK, control
<1>5. PoolStep
  <2>1. TotalAssets \in Nat /\ totalSupply \in Nat
    BY <1>1, LedgerFacts
  <2>2. CASE receiver # Vault
    BY <1>2, <1>3, <2>2, PoolLeaves, Zenon
  <2>3. CASE receiver = Vault
    <3>1. /\ 0 \in Nat /\ 0 <= TotalAssets
          /\ 0 * Supply(totalSupply) <= n * Pool(TotalAssets)
          /\ TotalAssets - 0 = TotalAssets
      <4>1. Supply(totalSupply) \in Nat /\ Pool(TotalAssets) \in Nat
        BY <2>1, PositivePool DEF Positive
      <4> QED
        BY <2>1, <4>1, SMT
    <3>2. TotalAssets' = TotalAssets - 0
      BY <1>2, <2>3, <3>1, Zenon
    <3> QED
      BY <1>3, <3>1, <3>2, PoolLeaves, Zenon
  <2> QED
    BY <2>2, <2>3
<1> QED
  BY <1>4, <1>5

\* A withdrawal or a redemption.
LEMMA ExitStep ==
  ASSUME IInv, NEW caller \in Account, NEW owner \in Account, NEW receiver \in Holder,
         NEW assets \in Nat, NEW n \in Nat,
         assets * Supply(totalSupply) <= n * Pool(TotalAssets),
         Exit(caller, receiver, owner, assets, n)
  PROVE  IInv' /\ PoolStep
<1>1. TypeOK /\ owner \in Holder
  BY HolderFacts DEF IInv
<1>2. shareAllowance' \in [Account \X Account -> Allowance]
  <2>1. CASE caller = owner
    BY <1>1, <2>1 DEF Exit, SpendIfThirdParty, TypeOK
  <2>2. CASE caller # owner
    <3>1. SpendShareAllowance(owner, caller, n)
      BY <2>2 DEF Exit, SpendIfThirdParty
    <3> QED
      BY <1>1, <3>1, SpendShareAllowanceFacts
  <2> QED
    BY <2>1, <2>2
<1>3. BurnShares(owner, n) /\ PushAsset(receiver, assets) /\ UNCHANGED control
  BY DEF Exit
<1> QED
  BY <1>1, <1>2, <1>3, PayOut, Zenon

-----------------------------------------------------------------------------
(* The operations, by the groups of the next-state relation.               *)

\* A step that leaves the shares and the vault's assets alone.
LEMMA QuietStep ==
  ASSUME IInv, TypeOK', UNCHANGED <<shares, totalSupply>>, UNCHANGED TotalAssets
  PROVE  IInv' /\ PoolStep
BY Zenon DEF IInv, SupplyIsSum, PoolStep, SP!vars

\* The asset token's own operations; a transfer to the vault is a gift.
LEMMA AssetSteps ==
  ASSUME IInv, NEW c \in EOA, AssetNext(c)
  PROVE  IInv' /\ PoolStep
<1>1. TypeOK /\ c \in Account /\ c \in Holder /\ c # Vault /\ Vault \in Holder
  BY HolderFacts, AccountAssumption DEF IInv
<1>2. ASSUME NEW n \in AssetAmounts, NEW to \in Holder, AssetTransfer(c, to, n)
      PROVE  IInv' /\ PoolStep
  <2>1. n \in Nat
    BY AmountsAssumption
  <2>2. n <= asset[c] /\ asset' = Move(asset, c, to, n) /\ asset \in [Holder -> Nat]
    BY <1>1, <1>2 DEF AssetTransfer, Holds, TypeOK
  <2>3. UNCHANGED <<assetAllowance, shares, totalSupply, shareAllowance, paused, roles>>
    BY <1>2 DEF AssetTransfer, shareVars, control
  <2>4. asset' \in [Holder -> Nat]
    BY <1>1, <2>1, <2>2, HolderFacts, MoveTotal DEF Ledger
  <2>5. asset'[Vault] = IF to = Vault THEN asset[Vault] + n ELSE asset[Vault]
    BY <1>1, <2>1, <2>2 DEF Move, Credit, Debit
  <2>6. TypeOK'
    BY <1>1, <2>3, <2>4, Zenon DEF TypeOK
  <2>7. IInv'
    BY <2>3, <2>6, Zenon DEF IInv, SupplyIsSum
  <2>8. CASE to = Vault
    BY <2>1, <2>3, <2>5, <2>7, <2>8, PoolGains, Zenon DEF TotalAssets
  <2>9. CASE to # Vault
    BY <2>3, <2>5, <2>6, <2>9, QuietStep, Zenon DEF TotalAssets
  <2> QED
    BY <2>8, <2>9
<1>3. ASSUME NEW n \in AssetApprovals, AssetApprove(c, n)
      PROVE  IInv' /\ PoolStep
  <2>1. n \in Allowance
    BY AmountsAssumption
  <2>2. TypeOK' /\ UNCHANGED <<shares, totalSupply>> /\ UNCHANGED TotalAssets
    BY <1>1, <1>3, <2>1 DEF AssetApprove, TypeOK, shareVars, control, TotalAssets
  <2> QED
    BY <2>2, QuietStep
<1> QED
  BY <1>2, <1>3 DEF AssetNext

\* A reward pushed by any account, a contract included, is a gift.
LEMMA DistributeRewardsStep ==
  ASSUME IInv, NEW c \in Account, NEW n \in Nat, DistributeRewards(c, n)
  PROVE  IInv' /\ PoolStep
<1>1. TypeOK
  BY DEF IInv
<1>2. PullAsset(c, n) /\ UNCHANGED <<shares, totalSupply, shareAllowance, paused, roles>>
  BY DEF DistributeRewards, shareVars, control
<1>3. /\ asset' \in [Holder -> Nat]
      /\ assetAllowance' \in [Account -> Allowance]
      /\ TotalAssets' = TotalAssets + n
  BY <1>1, <1>2, PullAssetFacts
<1>4. IInv'
  BY <1>1, <1>2, <1>3, Zenon DEF IInv, TypeOK, SupplyIsSum
<1>5. PoolStep
  BY <1>2, <1>3, PoolGains, Zenon
<1> QED
  BY <1>4, <1>5

\* The entry points of the vault.
LEMMA EntrySteps ==
  ASSUME IInv, NEW c \in EOA, EntryNext(c)
  PROVE  IInv' /\ PoolStep
<1>1. TypeOK /\ c \in Account /\ c \in Holder /\ Account \subseteq Holder
  BY HolderFacts DEF IInv
<1>2. /\ TotalAssets \in Nat /\ totalSupply \in Nat
      /\ \A h \in Holder : shares[h] \in Nat /\ MaxWithdraw(h) \in Nat
  BY <1>1, LedgerFacts, PreviewBounds DEF TypeOK, MaxWithdraw
<1>3. ASSUME NEW n \in AssetAmounts, NEW r \in Holder, Deposit(c, n, r)
      PROVE  IInv' /\ PoolStep
  <2>1. n \in Nat
    BY AmountsAssumption
  <2>2. /\ PreviewDeposit(n, TotalAssets, totalSupply) \in Nat
        /\ PreviewDeposit(n, TotalAssets, totalSupply) * Pool(TotalAssets)
             <= n * Supply(totalSupply)
    BY <1>2, <2>1, PreviewBounds
  <2> QED
    BY <1>1, <1>3, <2>1, <2>2, EnterStep, Zenon DEF Deposit
<1>4. ASSUME NEW n \in ShareAmounts, NEW r \in Holder, Mint(c, n, r)
      PROVE  IInv' /\ PoolStep
  <2>1. n \in Nat
    BY AmountsAssumption
  <2>2. /\ PreviewMint(n, TotalAssets, totalSupply) \in Nat
        /\ n * Pool(TotalAssets)
             <= PreviewMint(n, TotalAssets, totalSupply) * Supply(totalSupply)
    BY <1>2, <2>1, PreviewBounds
  <2> QED
    BY <1>1, <1>4, <2>1, <2>2, EnterStep, Zenon DEF Mint
<1>5. ASSUME NEW o \in Account, NEW r \in Holder, NEW n \in WithdrawAmounts(o),
             Withdraw(c, n, r, o)
      PROVE  IInv' /\ PoolStep
  <2>1. n \in Nat
    BY <1>1, <1>2, AmountsAssumption DEF WithdrawAmounts
  <2>2. /\ PreviewWithdraw(n, TotalAssets, totalSupply) \in Nat
        /\ n * Supply(totalSupply)
             <= PreviewWithdraw(n, TotalAssets, totalSupply) * Pool(TotalAssets)
    BY <1>2, <2>1, PreviewBounds
  <2> QED
    BY <1>1, <1>5, <2>1, <2>2, ExitStep, Zenon DEF Withdraw
<1>6. ASSUME NEW o \in Account, NEW n \in RedeemAmounts(o)
      PROVE  /\ n \in Nat
             /\ PreviewRedeem(n, TotalAssets, totalSupply) \in Nat
             /\ PreviewRedeem(n, TotalAssets, totalSupply) * Supply(totalSupply)
                  <= n * Pool(TotalAssets)
  <2>1. n \in Nat
    BY <1>1, <1>2, AmountsAssumption DEF RedeemAmounts
  <2> QED
    BY <1>2, <2>1, PreviewBounds
<1>7. ASSUME NEW o \in Account, NEW r \in Holder, NEW n \in RedeemAmounts(o),
             Redeem(c, n, r, o)
      PROVE  IInv' /\ PoolStep
  BY <1>1, <1>6, <1>7, ExitStep, Zenon DEF Redeem
<1>8. ASSUME NEW n \in RedeemAmounts(c), EmergencyWithdraw(c, n)
      PROVE  IInv' /\ PoolStep
  <2>1. /\ BurnShares(c, n)
        /\ PushAsset(c, PreviewRedeem(n, TotalAssets, totalSupply))
        /\ UNCHANGED control
    BY <1>8, Zenon DEF EmergencyWithdraw, control
  <2>2. shareAllowance' \in [Account \X Account -> Allowance]
    BY <1>1, <1>8 DEF EmergencyWithdraw, TypeOK
  <2> QED
    BY <1>1, <1>6, <2>1, <2>2, PayOut, Zenon
<1>9. ASSUME NEW n \in AssetAmounts, DistributeRewards(c, n)
      PROVE  IInv' /\ PoolStep
  <2>1. n \in Nat
    BY AmountsAssumption
  <2> QED
    BY <1>1, <1>9, <2>1, DistributeRewardsStep
<1> QED
  BY <1>3, <1>4, <1>5, <1>7, <1>8, <1>9, Zenon DEF EntryNext

\* Shares change hands.
LEMMA MoveSharesStep ==
  ASSUME IInv, NEW from \in Holder, NEW to \in Holder, NEW n \in Nat,
         Holds(shares, from, n), shares' = Move(shares, from, to, n),
         shareAllowance' \in [Account \X Account -> Allowance],
         UNCHANGED <<tokens, totalSupply, control>>
  PROVE  IInv' /\ PoolStep
<1>1. TypeOK /\ shares \in Ledger(Holder) /\ TotalOf(shares) = totalSupply /\ n <= shares[from]
  BY LedgerFacts DEF IInv, SupplyIsSum, Holds
<1>2. shares' \in [Holder -> Nat] /\ TotalOf(shares') = TotalOf(shares)
  BY <1>1, HolderFacts, MoveTotal DEF Ledger
<1>3. UNCHANGED <<asset, assetAllowance, totalSupply, paused, roles>>
  BY DEF tokens, control
<1>4. IInv'
  BY <1>1, <1>2, <1>3, Zenon DEF IInv, TypeOK, SupplyIsSum
<1>5. PoolStep
  BY <1>3, Zenon DEF PoolStep, SP!vars, TotalAssets
<1> QED
  BY <1>4, <1>5

\* A transfer of shares by any account, a contract included.
LEMMA TransferStep ==
  ASSUME IInv, NEW c \in Account, NEW to \in Holder, NEW n \in Nat, Transfer(c, to, n)
  PROVE  IInv' /\ PoolStep
<1>1. c \in Holder
  BY HolderFacts
<1>2. shareAllowance' \in [Account \X Account -> Allowance]
  BY DEF Transfer, IInv, TypeOK
<1> QED
  BY <1>1, <1>2, MoveSharesStep, Zenon DEF Transfer, tokens, control

\* Share transfers and approvals.
LEMMA ShareSteps ==
  ASSUME IInv, NEW c \in EOA, ShareNext(c)
  PROVE  IInv' /\ PoolStep
<1>1. TypeOK /\ c \in Account /\ Account \subseteq Holder /\ ShareAmounts \subseteq Nat
  BY HolderFacts, AmountsAssumption DEF IInv
<1>2. ASSUME NEW n \in ShareAmounts, NEW to \in Holder, Transfer(c, to, n)
      PROVE  IInv' /\ PoolStep
  BY <1>1, <1>2, TransferStep
<1>3. ASSUME NEW from \in Account, NEW to \in Holder, NEW n \in ShareAmounts,
             TransferFrom(c, from, to, n)
      PROVE  IInv' /\ PoolStep
  <2>1. n \in Nat /\ from \in Holder /\ SpendShareAllowance(from, c, n)
    BY <1>1, <1>3 DEF TransferFrom
  <2>2. shareAllowance' \in [Account \X Account -> Allowance]
    BY <1>1, <2>1, SpendShareAllowanceFacts
  <2> QED
    BY <1>3, <2>1, <2>2, MoveSharesStep, Zenon DEF TransferFrom
<1>4. ASSUME NEW s \in Account, NEW n \in ShareApprovals, Approve(c, s, n)
      PROVE  IInv' /\ PoolStep
  <2>1. n \in Allowance
    BY AmountsAssumption
  <2>2. TypeOK' /\ UNCHANGED <<shares, totalSupply>> /\ UNCHANGED TotalAssets
    BY <1>1, <1>4, <2>1 DEF Approve, TypeOK, tokens, control, TotalAssets
  <2> QED
    BY <2>2, QuietStep
<1> QED
  BY <1>2, <1>3, <1>4, Zenon DEF ShareNext

\* A step that only pauses, unpauses or changes roles.
LEMMA ControlStep ==
  ASSUME IInv, paused' \in BOOLEAN, roles' \subseteq Account \X Role,
         UNCHANGED <<tokens, shareVars>>
  PROVE  IInv' /\ PoolStep
<1>1. UNCHANGED <<asset, assetAllowance, shares, totalSupply, shareAllowance>>
  BY Zenon DEF tokens, shareVars
<1>2. TypeOK' /\ UNCHANGED <<shares, totalSupply>> /\ UNCHANGED TotalAssets
  BY <1>1, Zenon DEF IInv, TypeOK, TotalAssets
<1> QED
  BY <1>2, QuietStep

\* A granted role.
LEMMA GrantRoleStep ==
  ASSUME IInv, NEW c, NEW a \in Account, NEW role \in Role, GrantRole(c, a, role)
  PROVE  IInv' /\ PoolStep
<1>1. paused' \in BOOLEAN /\ roles' \subseteq Account \X Role
  BY DEF GrantRole, IInv, TypeOK
<1> QED
  BY <1>1, ControlStep, Zenon DEF GrantRole

\* Pause and roles.
LEMMA ControlSteps ==
  ASSUME IInv, NEW c \in EOA, ControlNext(c)
  PROVE  IInv' /\ PoolStep
<1>1. TypeOK
  BY DEF IInv
<1>2. UNCHANGED <<tokens, shareVars>>
  BY Zenon DEF ControlNext, Pause, Unpause, GrantRole, RevokeRole, RenounceRole
<1>3. paused' \in BOOLEAN
  BY <1>1, Zenon DEF ControlNext, Pause, Unpause, GrantRole, RevokeRole, RenounceRole, TypeOK
<1>4. roles' \subseteq Account \X Role
  <2>1. ASSUME NEW p \in Grantable
        PROVE  p = <<p[1], p[2]>> /\ p \in Account \X Role
    BY GrantableAssumption
  <2> QED
    BY <1>1, <2>1
    DEF ControlNext, Pause, Unpause, GrantRole, RevokeRole, RenounceRole, TypeOK
<1> QED
  BY <1>2, <1>3, <1>4, ControlStep

\* Every step keeps the invariant and is a step of the pool or a stutter.
LEMMA VaultStep ==
  ASSUME IInv, [Next]_vars
  PROVE  IInv' /\ PoolStep
<1>1. CASE Next
  <2>1. PICK c \in EOA : Call(c)
    BY <1>1, Zenon DEF Next
  <2> QED
    BY <2>1, AssetSteps, EntrySteps, ShareSteps, ControlSteps DEF Call
<1>2. CASE UNCHANGED vars
  <2>1. UNCHANGED <<asset, assetAllowance, shares, totalSupply, shareAllowance, paused, roles>>
    BY <1>2 DEF vars, tokens, shareVars, control
  <2>2. TypeOK' /\ UNCHANGED <<shares, totalSupply>> /\ UNCHANGED TotalAssets
    BY <2>1, Zenon DEF IInv, TypeOK, TotalAssets
  <2> QED
    BY <2>2, QuietStep
<1> QED
  BY <1>1, <1>2

\* The invariant holds after the constructor, whatever was approved before.
LEMMA VaultInit ==
  ASSUME NEW approved \in [Account -> Allowance], InitWith(approved)
  PROVE  IInv
<1>1. asset \in [Holder -> Nat]
  <2>1. ASSUME NEW h \in Holder
        PROVE  (IF h = Vault THEN 0 ELSE InitialAssets[h]) \in Nat
    BY AmountsAssumption DEF Holder
  <2> QED
    BY <2>1 DEF InitWith
<1>2. shares \in [Holder -> Nat] /\ totalSupply \in Nat /\ TotalOf(shares) = totalSupply
  BY TotalOfEmpty DEF InitWith
<1>3. shareAllowance \in [Account \X Account -> Allowance]
  BY DEF InitWith, Allowance
<1>4. roles \subseteq Account \X Role
  BY AccountAssumption DEF InitWith, Role
<1> QED
  BY <1>1, <1>2, <1>3, <1>4 DEF InitWith, IInv, TypeOK, SupplyIsSum

\* Nobody has approved anything when the vault is deployed alone.
LEMMA SpecInit == Init => IInv
<1>1. [a \in Account |-> 0] \in [Account -> Allowance]
  BY DEF Allowance
<1> QED
  BY <1>1, VaultInit DEF Init

-----------------------------------------------------------------------------
(* The theorems.                                                           *)

\* The inductive invariant: the state is well-typed and every share of the
\* supply is in somebody's balance.
THEOREM VaultInvariant == Spec => []IInv
<1>1. Init => IInv
  BY SpecInit
<1>2. IInv /\ [Next]_vars => IInv'
  BY VaultStep
<1> QED
  BY <1>1, <1>2, PTL DEF Spec

\* The state is well-typed; totalSupply never underflows.
THEOREM VaultTypeCorrect == Spec => []TypeOK
<1>1. IInv => TypeOK
  BY DEF IInv
<1> QED
  BY <1>1, VaultInvariant, PTL

\* The supply that prices shares is the sum of the balances: the emergency
\* exit's own burn does not let them drift apart.
THEOREM VaultSupplyIsSum == Spec => []SupplyIsSum
<1>1. IInv => SupplyIsSum
  BY DEF IInv
<1> QED
  BY <1>1, VaultInvariant, PTL

\* A round trip through maxWithdraw and previewWithdraw is covered.
LEMMA MaxWithdrawFits ==
  ASSUME TypeOK
  PROVE  MaxWithdrawBurnable
BY LedgerFacts, WithdrawBackBounded DEF MaxWithdrawBurnable, MaxWithdraw, Ledger

\* withdraw(maxWithdraw(owner)) never burns more than the owner has.
THEOREM VaultMaxWithdrawBurnable == Spec => []MaxWithdrawBurnable
<1>1. TypeOK => MaxWithdrawBurnable
  BY MaxWithdrawFits
<1> QED
  BY <1>1, VaultTypeCorrect, PTL

\* A sum of claims C with C * (q + v) <= q * (p + 1) is at most p.
LEMMA CoverArith ==
  \A C, p, q, v \in Nat : v # 0 /\ C * (q + v) <= q * (p + 1) => C <= p
<1> SUFFICES ASSUME NEW C \in Nat, NEW p \in Nat, NEW q \in Nat, NEW v \in Nat,
                    v # 0, C * (q + v) <= q * (p + 1), C >= p + 1
             PROVE  FALSE
  OBVIOUS
<1>1. (p + 1) * (q + v) <= C * (q + v)
  BY SMT
<1>2. (p + 1) * (q + v) = q * (p + 1) + (p + 1) * v
  BY SMT
<1>3. (p + 1) * v >= 1
  BY SMT
<1>4. q * (p + 1) \in Nat /\ (p + 1) * v \in Nat /\ C * (q + v) \in Nat
  BY SMT
<1> QED
  BY <1>1, <1>2, <1>3, <1>4

\* Claims rounded down from parts of the pool fit into the pool.
LEMMA ClaimsFit ==
  ASSUME IInv
  PROVE  ClaimsCovered
<1> DEFINE p == TotalAssets
           q == totalSupply
           a == Pool(p)
           b == Supply(q)
<1>1. /\ p \in Nat /\ q \in Nat /\ shares \in Ledger(Holder) /\ TotalOf(shares) = q
      /\ IsFiniteSet(Holder)
  BY LedgerFacts, HolderFacts DEF IInv, SupplyIsSum
<1>2. a \in Nat \ {0} /\ b \in Nat
  BY <1>1, PositivePool DEF Positive
<1>3. /\ Claims \in Ledger(Holder)
      /\ \A h \in Holder : Claims[h] * b <= shares[h] * a
  BY <1>1, PreviewBounds DEF Claims, Ledger
<1>4. TotalOf(Claims) * b <= TotalOf(shares) * a
  <2> HIDE DEF a, b
  <2> QED
    BY <1>1, <1>2, <1>3, ScaledTotal, Zenon
<1>5. TotalOf(Claims) \in Nat
  BY <1>1, <1>3, TotalType
<1>6. TotalOf(Claims) * (q + VirtualShares) <= q * (p + 1)
  BY <1>1, <1>4, Zenon DEF Pool, Supply
<1>7. TotalOf(Claims) <= p
  <2> HIDE DEF p, q
  <2> QED
    BY <1>1, <1>5, <1>6, CoverArith, VirtualSharesAssumption
<1> QED
  BY <1>7 DEF ClaimsCovered

\* What all holders together could redeem is in the vault: each claim is
\* rounded down from a part of the pool, and the parts add up to it.
THEOREM VaultClaimsCovered == Spec => []ClaimsCovered
<1>1. IInv => ClaimsCovered
  BY ClaimsFit
<1> QED
  BY <1>1, VaultInvariant, PTL

-----------------------------------------------------------------------------
(* The emergency exit.                                                     *)

\* The shares of one holder are worth no more than the vault holds.
LEMMA RedeemFits ==
  ASSUME IInv, NEW h \in Holder, NEW n \in Nat, n <= shares[h]
  PROVE  /\ PreviewRedeem(n, TotalAssets, totalSupply) \in Nat
         /\ PreviewRedeem(n, TotalAssets, totalSupply) <= TotalAssets
<1> DEFINE p    == TotalAssets
           q    == totalSupply
           pays == PreviewRedeem(n, p, q)
<1>1. p \in Nat /\ q \in Nat /\ VirtualShares \in Nat /\ VirtualShares # 0
  BY LedgerFacts, VirtualSharesAssumption DEF IInv
<1>2. n <= q
  <2>1. shares[h] \in Nat /\ shares[h] <= q
    BY LedgerFacts, HolderFacts, BalanceInTotal DEF IInv, SupplyIsSum, Ledger
  <2> QED
    BY <1>1, <2>1
<1>3. pays \in Nat /\ pays * (q + VirtualShares) <= n * (p + 1)
  <2>1. pays \in Nat /\ pays * Supply(q) <= n * Pool(p)
    BY <1>1, PreviewBounds
  <2> QED
    BY <2>1, Zenon DEF Pool, Supply
<1> HIDE DEF p, q, pays
<1>4. n * (p + 1) <= q * (p + 1)
  <2>1. p + 1 \in Nat
    BY <1>1
  <2> QED
    BY <1>1, <1>2, <2>1, ProductMonotone
<1>5. pays * (q + VirtualShares) <= q * (p + 1)
  <2>1. pays * (q + VirtualShares) \in Nat /\ n * (p + 1) \in Nat /\ q * (p + 1) \in Nat
    BY <1>1, <1>3, SMT
  <2> QED
    BY <1>3, <1>4, <2>1
<1>6. pays <= p
  BY <1>1, <1>3, <1>5, CoverArith
<1> QED
  BY <1>3, <1>6 DEF p, q, pays

\* No revert of emergencyWithdraw can meet a holder who asks for any part of
\* the balance: the burn is covered by the balance, the payment by the vault.
ExitUnobstructed ==
    \A c \in EOA : \A n \in 1..shares[c] :
        /\ n # 0
        /\ Holds(shares, c, n)
        /\ Holds(asset, Vault, PreviewRedeem(n, TotalAssets, totalSupply))

\* Those are all the guards: with them, the values emergencyWithdraw assigns
\* make a step of it, whatever the pause and the roles are.
LEMMA ExitGuards ==
  ASSUME ExitUnobstructed, NEW c \in EOA, NEW n \in 1..shares[c],
         shares' = Debit(shares, c, n), totalSupply' = totalSupply - n,
         asset' = Move(asset, Vault, c, PreviewRedeem(n, TotalAssets, totalSupply)),
         UNCHANGED <<assetAllowance, shareAllowance, control>>
  PROVE  EmergencyWithdraw(c, n)
BY Zenon DEF ExitUnobstructed, EmergencyWithdraw, BurnShares, PushAsset

\* A holder's balance covers the burn, the pool the payment.
LEMMA ExitOpen ==
  ASSUME IInv
  PROVE  ExitUnobstructed
<1> SUFFICES ASSUME NEW c \in EOA, NEW n \in 1..shares[c]
             PROVE  /\ n # 0
                    /\ Holds(shares, c, n)
                    /\ Holds(asset, Vault, PreviewRedeem(n, TotalAssets, totalSupply))
  BY DEF ExitUnobstructed
<1>1. c \in Holder /\ shares[c] \in Nat
  BY HolderFacts, LedgerFacts DEF IInv, Ledger
<1>2. n \in Nat /\ n # 0 /\ n <= shares[c]
  BY <1>1
<1>3. PreviewRedeem(n, TotalAssets, totalSupply) <= TotalAssets
  BY <1>1, <1>2, RedeemFits
<1> QED
  BY <1>2, <1>3, Zenon DEF Holds, TotalAssets

\* "Always-callable": the emergency exit of any part of any balance is open in
\* every reachable state.
THEOREM VaultExitUnobstructed == Spec => []ExitUnobstructed
<1>1. IInv => ExitUnobstructed
  BY ExitOpen
<1> QED
  BY <1>1, VaultInvariant, PTL

-----------------------------------------------------------------------------
(* The vault implements the abstract pool.                                 *)

SPP == INSTANCE SharePoolProofs WITH pool <- TotalAssets, supply <- totalSupply

\* Every operation of the vault is a join, a leave, a gift or nothing to the
\* pool of assets and shares, at a rate never better than the current price.
THEOREM VaultImplementsSharePool == Spec => ImplementsSharePool
<1>1. Init => SP!Init
  BY HolderFacts DEF Init, InitWith, SP!Init, TotalAssets
<1>2. IInv /\ [Next]_vars => [SP!Next]_(SP!vars)
  BY VaultStep, Zenon DEF PoolStep
<1> QED
  BY <1>1, <1>2, VaultInvariant, PTL DEF Spec, ImplementsSharePool, SP!Spec

\* Whatever the pool sees of a step, the price of a share does not fall.
LEMMA PriceKept ==
  ASSUME IInv, PoolStep
  PROVE  SP!PriceStep
<1>1. TotalAssets \in Nat /\ totalSupply \in Nat /\ VirtualShares \in Nat
  BY LedgerFacts, VirtualSharesAssumption DEF IInv
<1>2. CASE SP!Next
  <2>1. SPP!TypeOK /\ SPP!Next
    BY <1>1, <1>2, Zenon DEF SPP!TypeOK, SPP!Next, SP!Next, SP!JoinStep, SP!Join,
       SP!LeaveStep, SP!Leave, SP!GiftStep, SP!Gift,
       SPP!JoinStep, SPP!Join, SPP!LeaveStep, SPP!Leave, SPP!GiftStep, SPP!Gift
  <2>2. SPP!PriceStep
    BY <2>1, SPP!SharePoolPriceStep, VirtualSharesAssumption, Zenon DEF SPP!VirtualSharesAssumption
  <2> QED
    BY <2>2, Zenon DEF SP!PriceStep, SPP!PriceStep
<1>3. CASE UNCHANGED SP!vars
  <2>1. TotalAssets' = TotalAssets /\ totalSupply' = totalSupply
    BY <1>3, Zenon DEF SP!vars
  <2>2. \A p, q, v \in Nat : (p + 1) * (q + v) >= (p + 1) * (q + v)
    BY SMT
  <2> QED
    BY <1>1, <2>1, <2>2, Zenon DEF SP!PriceStep
<1> QED
  BY <1>2, <1>3 DEF PoolStep

\* No operation of anybody lowers the price of a share.
THEOREM VaultPriceNeverFalls == Spec => SharePriceNeverFalls
<1>1. IInv /\ [Next]_vars => [SP!PriceStep]_vars
  BY VaultStep, PriceKept
<1> QED
  BY <1>1, VaultInvariant, PTL DEF Spec, SharePriceNeverFalls

\* A deposit of n that is minted s shares and could redeem r of it at once,
\* in a pool of price P / S.
LEMMA LossArith ==
  \A n, s, r, P, S \in Nat :
    /\ n * S < s * P + P
    /\ s * (P + n) < r * (S + s) + (S + s)
    => (n - r - 1) * (S + s) < P - 1
<1> SUFFICES ASSUME NEW n \in Nat, NEW s \in Nat, NEW r \in Nat, NEW P \in Nat, NEW S \in Nat,
                    n * S < s * P + P, s * (P + n) < r * (S + s) + (S + s)
             PROVE  (n - r - 1) * (S + s) < P - 1
  OBVIOUS
<1>1. (n - r - 1) * (S + s) = n * (S + s) - r * (S + s) - (S + s)
  BY SMT
<1>2. n * (S + s) = n * S + n * s /\ s * (P + n) = s * P + n * s
  BY SMT
<1>3. /\ n * S \in Nat /\ n * s \in Nat /\ s * P \in Nat
      /\ r * (S + s) \in Nat /\ n * (S + s) \in Nat /\ s * (P + n) \in Nat
  BY SMT
<1> QED
  BY <1>1, <1>2, <1>3

\* One deposit, into any state of the invariant.
LEMMA DepositStep ==
  ASSUME IInv, NEW c \in EOA, NEW n \in AssetAmounts, NEW r \in Holder, Deposit(c, n, r)
  PROVE  (DepositLoss(n) - 1) * Supply(totalSupply') < TotalAssets
<1> DEFINE p  == TotalAssets
           q  == totalSupply
           P  == Pool(p)
           S  == Supply(q)
           s  == PreviewDeposit(n, p, q)
           back == PreviewRedeem(s, p + n, q + s)
<1>1. TypeOK /\ c \in Account /\ p \in Nat /\ q \in Nat /\ n \in Nat
  BY LedgerFacts, HolderFacts, AmountsAssumption DEF IInv
<1>2. P \in Positive /\ S \in Positive /\ P = p + 1 /\ S = q + VirtualShares
  BY <1>1, PositivePool DEF Pool, Supply
<1>3. P \in Nat /\ S \in Nat /\ P - 1 = p
  BY <1>1, <1>2 DEF Positive
<1>4. s \in Nat /\ n * S < s * P + P
  BY <1>1, <1>2, <1>3, MulDivDownBounds, Zenon DEF PreviewDeposit
<1>5. p + n \in Nat /\ q + s \in Nat /\ Pool(p + n) = P + n /\ Supply(q + s) = S + s
  <2> HIDE DEF s
  <2> QED
    BY <1>1, <1>4, VirtualSharesAssumption DEF Pool, Supply
<1>6. P + n \in Positive /\ P + n \in Nat /\ S + s \in Positive
  <2>1. P + n \in Nat
    BY <1>1, <1>3
  <2> QED
    BY <1>5, <2>1, PositivePool, Zenon
<1>7. back \in Nat /\ s * (P + n) < back * (S + s) + (S + s)
  BY <1>4, <1>5, <1>6, MulDivDownBounds, Zenon DEF PreviewRedeem
<1>8. (n - back - 1) * (S + s) < p
  <2> HIDE DEF p, q, P, S, s, back
  <2> QED
    BY <1>1, <1>3, <1>4, <1>7, LossArith, Zenon
<1>9. TotalAssets' = p + n /\ totalSupply' = q + s
  <2>1. PullAsset(c, n) /\ MintShares(r, s)
    BY Zenon DEF Deposit, Enter
  <2> QED
    BY <1>1, <1>4, <2>1, PullAssetFacts, MintSharesFacts, Zenon
<1>10. totalSupply' - totalSupply = s
  <2> HIDE DEF s
  <2>1. (q + s) - q = s
    BY <1>1, <1>4
  <2> QED
    BY <1>9, <2>1, Zenon
<1>11. DepositLoss(n) = n - back
  BY <1>9, <1>10, Zenon DEF DepositLoss
<1> QED
  BY <1>5, <1>8, <1>9, <1>11, Zenon

\* The virtual-share defence: what a depositor loses to rounding, whatever was
\* donated before, is less than one unit plus a fraction of the pool.
THEOREM VaultDepositLossBounded == Spec => DepositLossBounded
<1> DEFINE Bounded ==
      \A c \in EOA, n \in AssetAmounts, r \in Holder :
        Deposit(c, n, r)
          => (DepositLoss(n) - 1) * Supply(totalSupply') < TotalAssets
<1>1. IInv /\ [Next]_vars => [Bounded]_vars
  BY DepositStep, Zenon
<1> QED
  BY <1>1, VaultInvariant, PTL DEF Spec, DepositLossBounded

-----------------------------------------------------------------------------
(* What a transaction does to everybody else.                              *)

\* The part of Leaves that is about shares and allowances.
SharesLeft(c, o) ==
    LET taken   == shares[o] - shares'[o]
        allowed == shareAllowance[<<o, c>>]
    IN  taken > 0 => /\ Allows(allowed, taken)
                     /\ shareAllowance'[<<o, c>>] = SpendFrom(allowed, taken)

\* A balance that is neither debited nor moved from does not shrink.
LEMMA OtherBalance ==
  ASSUME NEW H, NEW bal \in Ledger(H), NEW h \in H, NEW g \in H, NEW to \in H, NEW n \in Nat
  PROVE  /\ Credit(bal, g, n)[h] >= bal[h]
         /\ g # h => Debit(bal, g, n)[h] = bal[h]
         /\ g # h => Move(bal, g, to, n)[h] >= bal[h]
         /\ h = to => Move(bal, h, to, n)[h] = bal[h]
         /\ h # to => Move(bal, h, to, n)[h] = bal[h] - n
         /\ Debit(bal, h, n)[h] = bal[h] - n
<1>1. bal[h] \in Nat /\ \A x \in H : bal[x] \in Nat
  BY DEF Ledger
<1>2. bal[h] + n >= bal[h] /\ bal[h] >= bal[h] /\ (bal[h] - n) + n = bal[h]
  BY <1>1
<1> QED
  BY <1>1, <1>2 DEF Credit, Debit, Move, Ledger

\* Shares that are not taken ask for no allowance.
LEMMA SharesNotTaken ==
  ASSUME TypeOK, TypeOK', NEW c, NEW o \in Account, shares'[o] >= shares[o]
  PROVE  SharesLeft(c, o)
<1>1. shares[o] \in Nat /\ shares'[o] \in Nat
  BY HolderFacts DEF TypeOK
<1>2. ~(shares[o] - shares'[o] > 0)
  BY <1>1
<1> QED
  BY <1>2, Zenon DEF SharesLeft

\* Shares that are taken are taken out of the allowance.
LEMMA SharesTaken ==
  ASSUME TypeOK, NEW c \in Account, NEW o \in Account, NEW n \in Nat,
         SpendShareAllowance(o, c, n), shares'[o] = shares[o] - n
  PROVE  SharesLeft(c, o)
<1>1. shares[o] \in Nat
  BY HolderFacts DEF TypeOK
<1>2. shares[o] - shares'[o] = n
  BY <1>1
<1>3. shareAllowance'[<<o, c>>] = SpendFrom(shareAllowance[<<o, c>>], n)
  BY DEF SpendShareAllowance, TypeOK
<1> QED
  BY <1>2, <1>3, Zenon DEF SharesLeft, SpendShareAllowance

\* The asset and the shares of somebody else, through the entry points.
LEMMA EntryLeaves ==
  ASSUME IInv, IInv', NEW c \in EOA, NEW o \in Account \ {c}, EntryNext(c)
  PROVE  asset'[o] >= asset[o] /\ SharesLeft(c, o)
<1>1. /\ TypeOK /\ TypeOK' /\ c \in Account /\ c \in Holder /\ Account \subseteq Holder
      /\ o \in Holder /\ o # Vault /\ Vault \in Holder
      /\ asset \in Ledger(Holder) /\ shares \in Ledger(Holder)
  BY HolderFacts, AccountAssumption, LedgerFacts DEF IInv
<1>2. /\ TotalAssets \in Nat /\ totalSupply \in Nat
      /\ \A h \in Holder : shares[h] \in Nat /\ MaxWithdraw(h) \in Nat
      /\ \A h \in Account : RedeemAmounts(h) \subseteq Nat /\ WithdrawAmounts(h) \subseteq Nat
  <2>1. \A h \in Holder : shares[h] \in Nat /\ MaxWithdraw(h) \in Nat
    BY <1>1, LedgerFacts, PreviewBounds DEF TypeOK, MaxWithdraw
  <2> QED
    BY <1>1, <2>1, LedgerFacts, AmountsAssumption DEF RedeemAmounts, WithdrawAmounts
<1>3. \A n \in Nat : /\ PreviewDeposit(n, TotalAssets, totalSupply) \in Nat
                    /\ PreviewMint(n, TotalAssets, totalSupply) \in Nat
                    /\ PreviewWithdraw(n, TotalAssets, totalSupply) \in Nat
                    /\ PreviewRedeem(n, TotalAssets, totalSupply) \in Nat
  BY <1>2, PreviewBounds
<1>4. ASSUME NEW n \in Nat, PullAsset(c, n)
      PROVE  asset'[o] >= asset[o]
  BY <1>1, <1>4, OtherBalance DEF PullAsset
<1>5. ASSUME NEW n \in Nat, NEW r \in Holder, PushAsset(r, n)
      PROVE  asset'[o] >= asset[o]
  BY <1>1, <1>5, OtherBalance DEF PushAsset
<1>6. ASSUME NEW a \in Nat, NEW n \in Nat, NEW r \in Holder, Enter(c, r, a, n)
      PROVE  asset'[o] >= asset[o] /\ SharesLeft(c, o)
  <2>1. shares'[o] >= shares[o]
    BY <1>1, <1>6, OtherBalance DEF Enter, MintShares
  <2> QED
    BY <1>1, <1>4, <1>6, <2>1, SharesNotTaken DEF Enter
<1>7. ASSUME NEW a \in Nat, NEW n \in Nat, NEW r \in Holder, NEW h \in Account,
             Exit(c, r, h, a, n)
      PROVE  asset'[o] >= asset[o] /\ SharesLeft(c, o)
  <2>1. asset'[o] >= asset[o] /\ shares' = Debit(shares, h, n)
    BY <1>5, <1>7, Zenon DEF Exit, BurnShares
  <2>2. CASE h = o
    <3>1. SpendShareAllowance(o, c, n)
      BY <1>7, <2>2 DEF Exit, SpendIfThirdParty
    <3>2. shares'[o] = shares[o] - n
      BY <1>1, <2>1, <2>2, OtherBalance
    <3> QED
      BY <1>1, <2>1, <3>1, <3>2, SharesTaken
  <2>3. CASE h # o
    <3>1. shares'[o] = shares[o] /\ shares[o] \in Nat
      BY <1>1, <1>2, <2>1, <2>3, OtherBalance
    <3> QED
      BY <1>1, <2>1, <3>1, SharesNotTaken
  <2> QED
    BY <2>2, <2>3
<1>8. ASSUME NEW n \in Nat, EmergencyWithdraw(c, n)
      PROVE  asset'[o] >= asset[o] /\ SharesLeft(c, o)
  <2>1. asset'[o] >= asset[o]
    BY <1>1, <1>3, <1>5, <1>8, Zenon DEF EmergencyWithdraw
  <2>2. shares' = Debit(shares, c, n)
    BY <1>8, Zenon DEF EmergencyWithdraw, BurnShares
  <2>3. shares'[o] = shares[o] /\ shares[o] \in Nat
    BY <1>1, <1>2, <2>2, OtherBalance
  <2> QED
    BY <1>1, <2>1, <2>3, SharesNotTaken
<1>9. ASSUME NEW n \in Nat, DistributeRewards(c, n)
      PROVE  asset'[o] >= asset[o] /\ SharesLeft(c, o)
  <2>1. UNCHANGED shares /\ shares[o] \in Nat
    BY <1>1, <1>2, <1>9 DEF DistributeRewards, shareVars
  <2> QED
    BY <1>1, <1>4, <1>9, <2>1, SharesNotTaken DEF DistributeRewards
<1>10. ASSUME NEW n \in AssetAmounts, NEW r \in Holder, Deposit(c, n, r)
       PROVE  asset'[o] >= asset[o] /\ SharesLeft(c, o)
  <2>1. n \in Nat
    BY AmountsAssumption
  <2> QED
    BY <1>3, <1>6, <1>10, <2>1, Zenon DEF Deposit
<1>11. ASSUME NEW n \in ShareAmounts, NEW r \in Holder, Mint(c, n, r)
       PROVE  asset'[o] >= asset[o] /\ SharesLeft(c, o)
  <2>1. n \in Nat
    BY AmountsAssumption
  <2> QED
    BY <1>3, <1>6, <1>11, <2>1, Zenon DEF Mint
<1>12. ASSUME NEW h \in Account, NEW r \in Holder, NEW n \in WithdrawAmounts(h),
              Withdraw(c, n, r, h)
       PROVE  asset'[o] >= asset[o] /\ SharesLeft(c, o)
  <2>1. n \in Nat
    BY <1>2
  <2> QED
    BY <1>3, <1>7, <1>12, <2>1, Zenon DEF Withdraw
<1>13. ASSUME NEW h \in Account, NEW r \in Holder, NEW n \in RedeemAmounts(h),
              Redeem(c, n, r, h)
       PROVE  asset'[o] >= asset[o] /\ SharesLeft(c, o)
  <2>1. n \in Nat
    BY <1>2
  <2> QED
    BY <1>3, <1>7, <1>13, <2>1, Zenon DEF Redeem
<1>14. RedeemAmounts(c) \subseteq Nat /\ AssetAmounts \subseteq Nat
  BY <1>1, <1>2, AmountsAssumption
<1> QED
  BY <1>8, <1>9, <1>10, <1>11, <1>12, <1>13, <1>14 DEF EntryNext

\* The same through the asset's and the share token's own operations.
LEMMA TokenLeaves ==
  ASSUME IInv, IInv', NEW c \in EOA, NEW o \in Account \ {c}, AssetNext(c) \/ ShareNext(c)
  PROVE  asset'[o] >= asset[o] /\ SharesLeft(c, o)
<1>1. /\ TypeOK /\ TypeOK' /\ c \in Account /\ c \in Holder /\ Account \subseteq Holder
      /\ o \in Holder /\ asset \in Ledger(Holder) /\ shares \in Ledger(Holder)
      /\ asset[o] \in Nat /\ shares[o] \in Nat
      /\ asset[o] >= asset[o] /\ shares[o] >= shares[o]
  BY HolderFacts, LedgerFacts DEF IInv, Ledger
<1>2. ASSUME asset'[o] >= asset[o], UNCHANGED shares
      PROVE  asset'[o] >= asset[o] /\ SharesLeft(c, o)
  BY <1>1, <1>2, SharesNotTaken
<1>3. ASSUME NEW n \in AssetAmounts, NEW to \in Holder, AssetTransfer(c, to, n)
      PROVE  asset'[o] >= asset[o] /\ SharesLeft(c, o)
  <2>1. n \in Nat
    BY AmountsAssumption
  <2>2. asset'[o] >= asset[o]
    BY <1>1, <1>3, <2>1, OtherBalance DEF AssetTransfer
  <2> QED
    BY <1>2, <1>3, <2>2 DEF AssetTransfer, shareVars
<1>4. ASSUME NEW n \in AssetApprovals, AssetApprove(c, n)
      PROVE  asset'[o] >= asset[o] /\ SharesLeft(c, o)
  BY <1>1, <1>2, <1>4 DEF AssetApprove, shareVars
<1>5. ASSUME NEW n \in ShareAmounts, NEW to \in Holder, Transfer(c, to, n)
      PROVE  asset'[o] >= asset[o] /\ SharesLeft(c, o)
  <2>1. n \in Nat
    BY AmountsAssumption
  <2>2. shares'[o] >= shares[o]
    BY <1>1, <1>5, <2>1, OtherBalance DEF Transfer
  <2> QED
    BY <1>1, <1>5, <2>2, SharesNotTaken DEF Transfer, tokens
<1>6. ASSUME NEW from \in Account, NEW to \in Holder, NEW n \in ShareAmounts,
             TransferFrom(c, from, to, n)
      PROVE  asset'[o] >= asset[o] /\ SharesLeft(c, o)
  <2>1. n \in Nat /\ from \in Holder
    BY <1>1, AmountsAssumption
  <2>2. UNCHANGED asset /\ SpendShareAllowance(from, c, n) /\ shares' = Move(shares, from, to, n)
    BY <1>6, Zenon DEF TransferFrom, tokens
  <2>3. CASE from = o /\ to # o
    <3>1. shares'[o] = shares[o] - n
      BY <1>1, <2>1, <2>2, <2>3, OtherBalance
    <3> QED
      BY <1>1, <2>1, <2>2, <2>3, <3>1, SharesTaken
  <2>4. CASE from # o \/ to = o
    <3>1. shares'[o] >= shares[o]
      BY <1>1, <2>1, <2>2, <2>4, OtherBalance
    <3> QED
      BY <1>1, <2>2, <3>1, SharesNotTaken
  <2> QED
    BY <2>3, <2>4
<1>7. ASSUME NEW s \in Account, NEW n \in ShareApprovals, Approve(c, s, n)
      PROVE  asset'[o] >= asset[o] /\ SharesLeft(c, o)
  BY <1>1, <1>2, <1>7 DEF Approve, tokens
<1> QED
  BY <1>3, <1>4, <1>5, <1>6, <1>7 DEF AssetNext, ShareNext

\* At a price that does not fall, the shares that are left are worth no less.
LEMMA ClaimKept ==
  ASSUME TypeOK, TypeOK', SP!PriceStep, NEW o \in Account
  PROVE  ConvertToAssets(shares'[o], TotalAssets', totalSupply')
           >= ConvertToAssets(shares'[o], TotalAssets, totalSupply)
<1> DEFINE P  == Pool(TotalAssets)
           S  == Supply(totalSupply)
           P2 == Pool(TotalAssets')
           S2 == Supply(totalSupply')
           a  == MulDivDown(shares'[o], P, S)
           b  == MulDivDown(shares'[o], P2, S2)
<1>1. /\ shares'[o] \in Nat /\ TotalAssets \in Nat /\ totalSupply \in Nat
      /\ TotalAssets' \in Nat /\ totalSupply' \in Nat
  BY HolderFacts DEF TypeOK, TotalAssets
<1>2. P \in Positive /\ S \in Positive /\ P2 \in Positive /\ S2 \in Positive
  BY <1>1, PositivePool
<1>3. P2 * S >= P * S2
  BY Zenon DEF SP!PriceStep, Pool, Supply
<1> HIDE DEF P, S, P2, S2
<1>4. P \in Nat /\ S \in Nat /\ P2 \in Nat /\ S2 \in Nat
  BY <1>2 DEF Positive
<1>5. P * S2 <= P2 * S
  <2>1. P * S2 \in Nat /\ P2 * S \in Nat
    BY <1>4, SMT
  <2> QED
    BY <1>3, <2>1
<1>6. a <= b
  BY <1>1, <1>2, <1>4, <1>5, FloorMonotone, Zenon
<1>7. a \in Nat /\ b \in Nat
  BY <1>1, <1>2, <1>4, MulDivDownBounds
<1> HIDE DEF a, b
<1>8. b >= a
  BY <1>6, <1>7
<1> QED
  BY <1>8, Zenon DEF a, b, P, S, P2, S2, ConvertToAssets

\* One transaction of c, in any state of the invariant.
LEMMA CallLeaves ==
  ASSUME IInv, NEW c \in EOA, Call(c), NEW o \in Account \ {c}
  PROVE  Leaves(c, o)
<1>1. Next
  BY Zenon DEF Next
<1>2. IInv' /\ SP!PriceStep
  BY <1>1, VaultStep, PriceKept
<1>3. TypeOK /\ TypeOK'
  BY <1>2 DEF IInv
<1>4. asset'[o] >= asset[o] /\ SharesLeft(c, o)
  <2>1. CASE ControlNext(c)
    <3>1. UNCHANGED <<asset, shares>>
      BY <2>1, Zenon
      DEF ControlNext, Pause, Unpause, GrantRole, RevokeRole, RenounceRole, tokens, shareVars
    <3>2. asset[o] \in Nat /\ shares[o] \in Nat
      BY <1>3, HolderFacts DEF TypeOK
    <3>3. asset'[o] >= asset[o] /\ shares'[o] >= shares[o]
      BY <3>1, <3>2
    <3> QED
      BY <1>3, <3>3, SharesNotTaken
  <2> QED
    BY <1>2, <2>1, EntryLeaves, TokenLeaves DEF Call
<1> QED
  BY <1>2, <1>3, <1>4, ClaimKept, Zenon DEF Leaves, SharesLeft

\* Nobody but an owner and those he allowed takes his shares, nobody takes his
\* assets, and nobody lowers what his remaining shares redeem for.
THEOREM VaultOthersKept == Spec => OthersKept
<1> DEFINE Kept == \A c \in EOA : \A o \in Account \ {c} : ~Leaves(c, o) => ~Call(c)
<1>1. IInv /\ [Next]_vars => [Kept]_vars
  BY CallLeaves
<1> QED
  BY <1>1, VaultInvariant, PTL DEF Spec, OthersKept

-----------------------------------------------------------------------------
(* The backend's estimate.                                                 *)

\* The price is never below the one of the empty pool.
PriceFloor == totalSupply <= VirtualShares * TotalAssets

\* A price that does not fall stays above the floor.
LEMMA FloorArith ==
  \A p, q, p2, q2, v \in Nat :
    /\ v # 0 /\ q <= v * p
    /\ (p2 + 1) * (q + v) >= (p + 1) * (q2 + v)
    => q2 <= v * p2
<1> SUFFICES ASSUME NEW p \in Nat, NEW q \in Nat, NEW p2 \in Nat, NEW q2 \in Nat, NEW v \in Nat,
                    v # 0, q <= v * p, (p + 1) * (q2 + v) <= (p2 + 1) * (q + v)
             PROVE  q2 <= v * p2
  OBVIOUS
<1>1. /\ q + v \in Nat /\ q2 + v \in Nat /\ p + 1 \in Nat /\ p2 + 1 \in Nat
      /\ v * p \in Nat /\ v * p2 \in Nat /\ (p + 1) * v \in Nat
  BY SMT
<1>2. q + v <= (p + 1) * v
  <2>1. (p + 1) * v = v * p + v
    BY SMT
  <2> QED
    BY <1>1, <2>1
<1>3. (p2 + 1) * (q + v) <= ((p2 + 1) * v) * (p + 1)
  <2>1. (q + v) * (p2 + 1) <= ((p + 1) * v) * (p2 + 1)
    BY <1>1, <1>2, ProductMonotone
  <2>2. (q + v) * (p2 + 1) = (p2 + 1) * (q + v)
    BY SMT
  <2>3. ((p + 1) * v) * (p2 + 1) = ((p2 + 1) * v) * (p + 1)
    BY SMT
  <2> QED
    BY <2>1, <2>2, <2>3
<1>4. (q2 + v) * (p + 1) <= ((p2 + 1) * v) * (p + 1)
  <2>1. (q2 + v) * (p + 1) = (p + 1) * (q2 + v)
    BY SMT
  <2>2. (p + 1) * (q2 + v) \in Nat /\ (p2 + 1) * (q + v) \in Nat /\ ((p2 + 1) * v) * (p + 1) \in Nat
    BY SMT
  <2> QED
    BY <1>3, <2>1, <2>2
<1>5. q2 + v <= (p2 + 1) * v
  <2>1. (p2 + 1) * v \in Nat /\ p + 1 # 0
    BY SMT
  <2> QED
    BY <1>1, <1>4, <2>1, ProductMonotone
<1>6. (p2 + 1) * v = v * p2 + v
  BY SMT
<1> QED
  BY <1>1, <1>5, <1>6

\* The vault starts on the floor, whatever was approved before.
LEMMA FloorInit ==
  ASSUME NEW approved, InitWith(approved)
  PROVE  PriceFloor
<1>1. totalSupply = 0 /\ TotalAssets = 0
  BY HolderFacts DEF InitWith, TotalAssets
<1>2. \A v \in Nat : 0 <= v * 0
  BY SMT
<1> QED
  BY <1>1, <1>2, VirtualSharesAssumption DEF PriceFloor

\* Deposits, exits, rewards and donations keep the floor.
LEMMA FloorStep ==
  ASSUME IInv, IInv', PriceFloor, SP!PriceStep
  PROVE  PriceFloor'
<1>1. /\ TotalAssets \in Nat /\ totalSupply \in Nat
      /\ TotalAssets' \in Nat /\ totalSupply' \in Nat
      /\ VirtualShares \in Nat /\ VirtualShares # 0
  <2>1. TotalAssets \in Nat /\ totalSupply \in Nat
    BY LedgerFacts DEF IInv
  <2>2. TotalAssets' \in Nat /\ totalSupply' \in Nat
    BY HolderFacts DEF IInv, TypeOK, TotalAssets
  <2> QED
    BY <2>1, <2>2, VirtualSharesAssumption
<1>2. (TotalAssets' + 1) * (totalSupply + VirtualShares)
        >= (TotalAssets + 1) * (totalSupply' + VirtualShares)
  BY Zenon DEF SP!PriceStep
<1>3. totalSupply <= VirtualShares * TotalAssets
  BY DEF PriceFloor
<1>4. totalSupply' <= VirtualShares * TotalAssets'
  BY <1>1, <1>2, <1>3, FloorArith, Zenon
<1> QED
  BY <1>4, Zenon DEF PriceFloor

\* So the price is on or above it in every state.
LEMMA PriceFloorHolds == Spec => []PriceFloor
<1>1. Init => PriceFloor
  BY FloorInit DEF Init
<1>2. IInv /\ IInv' /\ PriceFloor /\ [Next]_vars => PriceFloor'
  BY VaultStep, PriceKept, FloorStep
<1> QED
  BY <1>1, <1>2, VaultInvariant, PTL DEF Spec

\* One estimate, in any state of the invariant on or above the floor.
LEMMA EstimateOf ==
  ASSUME IInv, PriceFloor, NEW h \in Holder
  PROVE  LET claim == PreviewRedeem(shares[h], TotalAssets, totalSupply)
         IN  /\ (Estimate(h) - claim) * Supply(totalSupply) < VirtualShares * Pool(TotalAssets)
             /\ claim <= Estimate(h) + shares[h] \div RateScale + 1
<1> DEFINE p == TotalAssets
           q == totalSupply
           v == VirtualShares
           s == shares[h]
           z == RateScale
           rate == RateE27(p, q)
           e == Estimate(h)
           c == PreviewRedeem(s, p, q)
           t == s \div z
<1>1. p \in Nat /\ q \in Nat /\ s \in Nat /\ v \in Nat /\ v # 0 /\ z \in Positive /\ z \in Nat /\ z # 0
  BY LedgerFacts, VirtualSharesAssumption, RateScaleAssumption DEF IInv, Ledger, Positive
<1>2. s <= q
  BY LedgerFacts, HolderFacts, BalanceInTotal DEF IInv, SupplyIsSum
<1>3. q <= v * p
  BY DEF PriceFloor
<1>4. c \in Nat /\ c * (q + v) <= s * (p + 1) /\ s * (p + 1) < c * (q + v) + (q + v)
  <2>1. Pool(p) \in Nat /\ Supply(q) \in Positive
    BY <1>1, PositivePool DEF Positive
  <2> QED
    BY <1>1, <2>1, MulDivDownBounds, Zenon DEF PreviewRedeem, Pool, Supply
<1>5. t \in Nat /\ s < t * z + z
  BY <1>1, DivBounds, Zenon
<1>6. CASE q = 0
  <2>1. s = 0 /\ rate = 0
    BY <1>1, <1>2, <1>6 DEF RateE27
  <2>2. e = 0
    <3>1. e = (s * rate) \div z
      BY Zenon DEF Estimate, EstimatedUnderlying
    <3>2. \A d \in Positive : (0 * 0) \div d = 0
      BY SMT DEF Positive
    <3> HIDE DEF e, s, rate
    <3> QED
      BY <1>1, <2>1, <3>1, <3>2, Zenon
  <2>3. c = 0
    <3>1. \A cc, pp, vv \in Nat : vv # 0 /\ cc * (0 + vv) <= 0 * (pp + 1) => cc = 0
      BY SMT
    <3> HIDE DEF c, p, v, s
    <3> QED
      BY <1>1, <1>4, <1>6, <2>1, <3>1, Zenon
  <2>4. (0 - 0) * (0 + v) < v * (p + 1)
    <3>1. \A pp, vv \in Nat : vv # 0 => (0 - 0) * (0 + vv) < vv * (pp + 1)
      BY SMT
    <3> QED
      BY <1>1, <3>1, Zenon
  <2> HIDE DEF c, e, t, p, q, v, s, z
  <2>5. c <= e + t + 1
    BY <1>5, <2>2, <2>3
  <2> QED
    BY <1>6, <2>2, <2>3, <2>4, <2>5, Zenon DEF c, e, t, p, q, v, s, z, Pool, Supply
<1>7. CASE q # 0
  <2>1. rate \in Nat /\ rate * q <= p * z /\ p * z < rate * q + q
    <3>1. p * z \in Nat /\ q \in Positive
      BY <1>1, <1>7, SMT DEF Positive
    <3>2. rate = (p * z) \div q
      BY <1>7 DEF RateE27
    <3> HIDE DEF p, q, z, rate
    <3> QED
      BY <3>1, <3>2, DivBounds, Zenon
  <2>2. e \in Nat /\ e * z <= s * rate /\ s * rate < e * z + z
    <3>1. s * rate \in Nat
      <4> HIDE DEF s, rate
      <4> QED
        BY <1>1, <2>1, SMT
    <3>2. e = (s * rate) \div z
      BY Zenon DEF Estimate, EstimatedUnderlying
    <3> HIDE DEF s, rate, e, z
    <3> QED
      BY <1>1, <3>1, <3>2, DivBounds, Zenon
  <2>3. e * q <= s * p
    <3> HIDE DEF s, p, q, z, rate, e
    <3>1. (e * z) * q <= (s * rate) * q
      <4>1. e * z \in Nat /\ s * rate \in Nat
        BY <1>1, <2>1, <2>2, SMT
      <4> QED
        BY <1>1, <2>2, <4>1, ProductMonotone
    <3>2. (rate * q) * s <= (p * z) * s
      <4>1. rate * q \in Nat /\ p * z \in Nat
        BY <1>1, <2>1, SMT
      <4> QED
        BY <1>1, <2>1, <4>1, ProductMonotone
    <3>3. /\ (e * z) * q = (e * q) * z
          /\ (s * rate) * q = (rate * q) * s
          /\ (p * z) * s = (s * p) * z
      <4>1. \A a, b, d \in Nat : (a * b) * d = (a * d) * b /\ (a * b) * d = (b * d) * a
                                /\ (a * b) * d = (d * a) * b
        BY SMT
      <4> QED
        BY <1>1, <2>1, <2>2, <4>1
    <3>4. e * q \in Nat /\ s * p \in Nat /\ (e * q) * z \in Nat /\ (s * p) * z \in Nat
          /\ (rate * q) * s \in Nat
      BY <1>1, <2>1, <2>2, SMT
    <3>5. (e * q) * z <= (s * p) * z
      BY <3>1, <3>2, <3>3, <3>4
    <3> QED
      BY <1>1, <3>4, <3>5, ProductMonotone
  <2> HIDE DEF c, e, t, p, q, v, s, z, rate
  <2>4. (e - c) * (q + v) < v * (p + 1)
    BY <1>1, <1>2, <1>3, <1>4, <1>7, <2>2, <2>3, EstimateAbove, Zenon
  <2>5. c <= e + t + 1
    BY <1>1, <1>3, <1>4, <1>5, <1>7, <2>1, <2>2, EstimateBelow, Zenon
  <2> QED
    BY <2>4, <2>5, Zenon DEF c, e, t, p, q, v, s, z, Pool, Supply
<1> QED
  BY <1>6, <1>7

\* The estimate is as good as its roundings: never short of what redeem pays
\* by more than a unit per RateScale shares, and never above it by as much as
\* the virtual shares hold.
THEOREM VaultEstimateNearClaim == Spec => []EstimateNearClaim
<1>1. IInv /\ PriceFloor => EstimateNearClaim
  BY EstimateOf DEF EstimateNearClaim
<1> QED
  BY <1>1, VaultInvariant, PriceFloorHolds, PTL
=============================================================================
