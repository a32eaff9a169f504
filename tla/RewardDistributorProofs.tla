---------------------- MODULE RewardDistributorProofs ----------------------
(***************************************************************************)
(* Proofs about RewardDistributor beside the vault.  The distributor's     *)
(* operations change the asset ledger, its own allowances and roles; what  *)
(* they do to the vault is a vault operation or a transfer of the asset,   *)
(* so the invariant is the vault's with the types of the new variables.    *)
(* Liveness, at the end, rests on the invariants that speak of ENABLED.    *)
(***************************************************************************)
EXTENDS RewardDistributor, StakingVaultProofs

DInv == IInv /\ DistTypeOK

\* A step leaves the reward funds alone or moves all it takes to the vault.
FundsStep ==
    asset'[Distributor] < asset[Distributor]
      => asset'[Vault] - asset[Vault] = asset[Distributor] - asset'[Distributor]

\* The distributor is an account, and no transaction is sent by it.
LEMMA DistributorFacts ==
  /\ Distributor \in Account /\ Distributor \in Holder
  /\ Distributor \notin EOA /\ Distributor # Vault
  /\ Admin \in Account
BY DistributorAssumption, AccountAssumption, HolderFacts

-----------------------------------------------------------------------------
(* Steps of the vault itself.                                              *)

\* A move by somebody else does not lower the distributor's balance.
LEMMA MoveByOther ==
  ASSUME TypeOK, NEW from \in Holder, NEW to \in Holder, NEW n \in Nat,
         n <= asset[from], from # Distributor, asset' = Move(asset, from, to, n)
  PROVE  FundsStep
<1>1. asset[Distributor] \in Nat /\ asset \in [Holder -> Nat]
  BY DistributorFacts DEF TypeOK
<1>2. asset'[Distributor] = IF to = Distributor THEN asset[Distributor] + n ELSE asset[Distributor]
  BY <1>1, DistributorFacts DEF Move, Credit, Debit
<1>3. \A x, k \in Nat : ~(x + k < x) /\ ~(x < x)
  OBVIOUS
<1> QED
  BY <1>1, <1>2, <1>3, Zenon DEF FundsStep

\* The asset is not touched at all.
LEMMA AssetKept ==
  ASSUME TypeOK, UNCHANGED asset
  PROVE  FundsStep
<1>1. asset[Distributor] \in Nat
  BY DistributorFacts DEF TypeOK
<1>2. \A x \in Nat : ~(x < x)
  OBVIOUS
<1> QED
  BY <1>1, <1>2, Zenon DEF FundsStep

\* No vault operation of an account that sends transactions takes from the
\* distributor: it moves the caller's assets, or the vault's.
LEMMA VaultFunds ==
  ASSUME IInv, NEW c \in EOA, Call(c)
  PROVE  FundsStep
<1>1. /\ TypeOK /\ c \in Account /\ c \in Holder /\ c # Distributor
      /\ Vault \in Holder /\ Vault # Distributor /\ Account \subseteq Holder
  BY HolderFacts, DistributorFacts DEF IInv
<1>2. /\ TotalAssets \in Nat /\ totalSupply \in Nat
      /\ \A h \in Holder : shares[h] \in Nat /\ MaxWithdraw(h) \in Nat
  BY <1>1, LedgerFacts, PreviewBounds DEF TypeOK, MaxWithdraw
<1>3. ASSUME NEW n \in Nat, PullAsset(c, n)
      PROVE  FundsStep
  BY <1>1, <1>3, MoveByOther, Zenon DEF PullAsset, Holds
<1>4. ASSUME NEW n \in Nat, NEW r \in Holder, PushAsset(r, n)
      PROVE  FundsStep
  BY <1>1, <1>4, MoveByOther, Zenon DEF PushAsset, Holds
<1>5. CASE AssetNext(c)
  <2>1. ASSUME NEW n \in AssetAmounts, NEW to \in Holder, AssetTransfer(c, to, n)
        PROVE  FundsStep
    <3>1. n \in Nat
      BY AmountsAssumption
    <3> QED
      BY <1>1, <2>1, <3>1, MoveByOther, Zenon DEF AssetTransfer, Holds
  <2>2. ASSUME NEW n \in AssetApprovals, AssetApprove(c, n)
        PROVE  FundsStep
    BY <1>1, <2>2, AssetKept DEF AssetApprove
  <2> QED
    BY <1>5, <2>1, <2>2, Zenon DEF AssetNext
<1>6. CASE EntryNext(c)
  <2>1. ASSUME NEW n \in AssetAmounts, NEW r \in Holder, Deposit(c, n, r)
        PROVE  FundsStep
    <3>1. n \in Nat
      BY AmountsAssumption
    <3> QED
      BY <1>3, <2>1, <3>1, Zenon DEF Deposit, Enter
  <2>2. ASSUME NEW n \in ShareAmounts, NEW r \in Holder, Mint(c, n, r)
        PROVE  FundsStep
    <3>1. n \in Nat
      BY AmountsAssumption
    <3>2. PreviewMint(n, TotalAssets, totalSupply) \in Nat
      BY <1>2, <3>1, PreviewBounds
    <3> QED
      BY <1>3, <2>2, <3>2, Zenon DEF Mint, Enter
  <2>3. ASSUME NEW o \in Account, NEW r \in Holder, NEW n \in WithdrawAmounts(o),
               Withdraw(c, n, r, o)
        PROVE  FundsStep
    <3>1. n \in Nat
      BY <1>1, <1>2, AmountsAssumption DEF WithdrawAmounts
    <3> QED
      BY <1>4, <2>3, <3>1, Zenon DEF Withdraw, Exit
  <2>4. ASSUME NEW o \in Account, NEW n \in RedeemAmounts(o)
        PROVE  PreviewRedeem(n, TotalAssets, totalSupply) \in Nat
    <3>1. n \in Nat
      BY <1>1, <1>2, AmountsAssumption DEF RedeemAmounts
    <3> QED
      BY <1>2, <3>1, PreviewBounds
  <2>5. ASSUME NEW o \in Account, NEW r \in Holder, NEW n \in RedeemAmounts(o),
               Redeem(c, n, r, o)
        PROVE  FundsStep
    BY <1>4, <2>4, <2>5, Zenon DEF Redeem, Exit
  <2>6. ASSUME NEW n \in RedeemAmounts(c), EmergencyWithdraw(c, n)
        PROVE  FundsStep
    BY <1>1, <1>4, <2>4, <2>6, Zenon DEF EmergencyWithdraw
  <2>7. ASSUME NEW n \in AssetAmounts, DistributeRewards(c, n)
        PROVE  FundsStep
    <3>1. n \in Nat
      BY AmountsAssumption
    <3> QED
      BY <1>3, <2>7, <3>1, Zenon DEF DistributeRewards
  <2> QED
    BY <1>6, <2>1, <2>2, <2>3, <2>5, <2>6, <2>7, Zenon DEF EntryNext
<1>7. CASE ShareNext(c)
  <2>1. UNCHANGED asset
    BY <1>7, Zenon DEF ShareNext, Transfer, TransferFrom, Approve, tokens
  <2> QED
    BY <1>1, <2>1, AssetKept
<1>8. CASE ControlNext(c)
  <2>1. UNCHANGED asset
    BY <1>8, Zenon
    DEF ControlNext, Pause, Unpause, GrantRole, RevokeRole, RenounceRole, tokens
  <2> QED
    BY <1>1, <2>1, AssetKept
<1> QED
  BY <1>5, <1>6, <1>7, <1>8 DEF Call

-----------------------------------------------------------------------------
(* Steps of the distributor.                                               *)

\* The whole vault state but the asset ledger is left alone.
LEMMA AssetMoved ==
  ASSUME IInv, NEW from \in Holder, NEW n \in Nat, n <= asset[from], from # Vault,
         asset' = Move(asset, from, Distributor, n),
         UNCHANGED <<assetAllowance, shareVars, control>>
  PROVE  IInv' /\ PoolStep
<1>1. TypeOK /\ asset \in Ledger(Holder)
  BY LedgerFacts DEF IInv
<1>2. asset' \in [Holder -> Nat]
  BY <1>1, HolderFacts, DistributorFacts, MoveTotal DEF Ledger
<1>3. UNCHANGED <<shares, totalSupply, shareAllowance, paused, roles>>
  BY DEF shareVars, control
<1>4. UNCHANGED TotalAssets
  BY <1>1, HolderFacts, DistributorFacts DEF TotalAssets, Move, Credit, Debit, Ledger
<1>5. TypeOK'
  BY <1>1, <1>2, <1>3, Zenon DEF TypeOK
<1> QED
  BY <1>3, <1>4, <1>5, QuietStep

\* fund: the caller's assets go to the distributor.
LEMMA FundStep ==
  ASSUME DInv, NEW c \in EOA, NEW n \in Nat, Fund(c, n)
  PROVE  DInv' /\ FundsStep /\ PoolStep
<1>1. TypeOK /\ c \in Account /\ c \in Holder /\ c # Distributor /\ c # Vault
  BY HolderFacts, DistributorFacts, AccountAssumption DEF DInv, IInv
<1>2. /\ n <= asset[c] /\ asset' = Move(asset, c, Distributor, n)
      /\ UNCHANGED <<assetAllowance, shareVars, control>> /\ UNCHANGED distRoles
  BY Zenon DEF Fund, Holds
<1>3. IInv' /\ PoolStep
  BY <1>1, <1>2, AssetMoved DEF DInv
<1>4. fundAllowance' \in [Account -> Allowance]
  <2>1. SpendFrom(fundAllowance[c], n) \in Allowance
    BY <1>1, SpendFromType DEF Fund, DInv, DistTypeOK
  <2> QED
    BY <2>1 DEF Fund, DInv, DistTypeOK
<1>5. DInv'
  BY <1>2, <1>3, <1>4, Zenon DEF DInv, DistTypeOK, IInv
<1>6. FundsStep
  BY <1>1, <1>2, DistributorFacts, MoveByOther
<1> QED
  BY <1>3, <1>5, <1>6

\* distribute and distributeAll: what is taken arrives in the vault.
LEMMA PushStep ==
  ASSUME DInv, NEW n \in Nat, DistributeRewards(Distributor, n), UNCHANGED distVars
  PROVE  DInv' /\ FundsStep /\ PoolStep
<1>1. TypeOK /\ asset \in [Holder -> Nat] /\ Distributor \in Account
  BY DistributorFacts DEF DInv, IInv, TypeOK
<1>2. IInv' /\ PoolStep
  BY <1>1, DistributeRewardsStep, Zenon DEF DInv
<1>3. DInv'
  BY <1>2, Zenon DEF DInv, DistTypeOK, IInv, distVars
<1>4. n <= asset[Distributor] /\ asset' = Move(asset, Distributor, Vault, n)
  BY Zenon DEF DistributeRewards, PullAsset, Holds
<1>5. /\ asset'[Distributor] = asset[Distributor] - n
      /\ asset'[Vault] = asset[Vault] + n
  BY <1>1, <1>4, HolderFacts, DistributorFacts DEF Move, Credit, Debit
<1>6. \A x, y, k \in Nat : (y + k) - y = x - (x - k)
  OBVIOUS
<1>7. asset[Distributor] \in Nat /\ asset[Vault] \in Nat
  BY <1>1, HolderFacts, DistributorFacts
<1>8. (asset[Vault] + n) - asset[Vault] = asset[Distributor] - (asset[Distributor] - n)
  BY <1>6, <1>7, Zenon
<1> QED
  BY <1>2, <1>3, <1>5, <1>8, Zenon DEF FundsStep

\* rescue: shares of the distributor, never the asset.
LEMMA RescueStep ==
  ASSUME DInv, NEW c, NEW to \in Holder, NEW n \in Nat, Rescue(c, to, n)
  PROVE  DInv' /\ FundsStep /\ PoolStep
<1>1. IInv' /\ PoolStep
  BY DistributorFacts, TransferStep, Zenon DEF Rescue, DInv
<1>2. DInv'
  BY <1>1, Zenon DEF Rescue, DInv, DistTypeOK, IInv, distVars
<1>3. UNCHANGED asset
  BY Zenon DEF Rescue, Transfer, tokens
<1> QED
  BY <1>1, <1>2, <1>3, AssetKept DEF DInv, IInv

\* A step that leaves the vault alone, with the distributor's own allowances
\* and roles well-typed.
LEMMA OwnStep ==
  ASSUME DInv, UNCHANGED vars,
         fundAllowance' \in [Account -> Allowance], distRoles' \subseteq Account \X Role
  PROVE  DInv' /\ FundsStep /\ PoolStep
<1>1. UNCHANGED asset
  BY DEF vars, tokens
<1>2. IInv' /\ PoolStep
  BY VaultStep DEF DInv
<1>3. DInv'
  BY <1>2, Zenon DEF DInv, DistTypeOK, IInv
<1> QED
  BY <1>1, <1>2, <1>3, AssetKept DEF DInv, IInv

-----------------------------------------------------------------------------
(* The next-state relation.                                                *)

\* Every step keeps the invariant and the promise about the reward funds,
\* and is a step of the abstract pool or a stutter.
LEMMA DistStep ==
  ASSUME DInv, [DistNext]_allVars
  PROVE  DInv' /\ FundsStep /\ PoolStep
<1>1. IInv /\ TypeOK /\ EOA \subseteq Account
  BY HolderFacts DEF DInv, IInv
<1>2. CASE Next /\ UNCHANGED distVars
  <2>1. PICK c \in EOA : Call(c)
    BY <1>2, Zenon DEF Next
  <2>2. IInv' /\ PoolStep
    BY <1>1, <1>2, VaultStep
  <2>3. DInv'
    BY <1>2, <2>2, Zenon DEF DInv, DistTypeOK, IInv, distVars
  <2> QED
    BY <1>1, <2>1, <2>2, <2>3, VaultFunds
<1>3. CASE WireDistributor
  <2>1. GrantRole(Admin, Distributor, "OPERATOR_ROLE") /\ "OPERATOR_ROLE" \in Role
    BY <1>3 DEF WireDistributor, Role
  <2>2. IInv' /\ PoolStep
    BY <1>1, <2>1, DistributorFacts, GrantRoleStep
  <2>3. UNCHANGED distVars /\ UNCHANGED asset
    BY <1>3, <2>1, Zenon DEF WireDistributor, GrantRole, tokens
  <2>4. DInv'
    BY <2>2, <2>3, Zenon DEF DInv, DistTypeOK, IInv, distVars
  <2> QED
    BY <1>1, <2>2, <2>3, <2>4, AssetKept
<1>4. ASSUME NEW c \in EOA, FundsNext(c)
      PROVE  DInv' /\ FundsStep /\ PoolStep
  <2>1. ASSUME NEW n \in AssetAmounts, Fund(c, n)
        PROVE  DInv' /\ FundsStep /\ PoolStep
    BY <2>1, AmountsAssumption, FundStep
  <2>2. ASSUME NEW n \in AssetAmounts, Distribute(c, n)
        PROVE  DInv' /\ FundsStep /\ PoolStep
    <3>1. n \in Nat
      BY AmountsAssumption
    <3> QED
      BY <2>2, <3>1, PushStep, Zenon DEF Distribute
  <2>3. CASE DistributeAll(c)
    <3>1. pendingRewards \in Nat
      BY <1>1, DistributorFacts DEF pendingRewards, TypeOK
    <3> QED
      BY <2>3, <3>1, PushStep, Zenon DEF DistributeAll
  <2>4. ASSUME NEW to \in Holder, NEW n \in ShareAmounts, Rescue(c, to, n)
        PROVE  DInv' /\ FundsStep /\ PoolStep
    BY <2>4, AmountsAssumption, RescueStep
  <2>5. ASSUME NEW n \in AssetApprovals, ApproveFund(c, n)
        PROVE  DInv' /\ FundsStep /\ PoolStep
    <3>1. n \in Allowance
      BY AmountsAssumption
    <3>2. /\ fundAllowance' \in [Account -> Allowance]
          /\ distRoles' \subseteq Account \X Role
          /\ UNCHANGED vars
      BY <1>1, <2>5, <3>1 DEF ApproveFund, DInv, DistTypeOK
    <3> QED
      BY <3>2, OwnStep
  <2> QED
    BY <1>4, <2>1, <2>2, <2>3, <2>4, <2>5, Zenon DEF FundsNext
<1>5. ASSUME NEW c \in EOA, DistRolesNext(c)
      PROVE  DInv' /\ FundsStep /\ PoolStep
  <2>1. PICK p \in Grantable : \/ GrantDistRole(c, p[1], p[2])
                               \/ RevokeDistRole(c, p[1], p[2])
                               \/ c = p[1] /\ RenounceDistRole(c, p[2])
    BY <1>5, Zenon DEF DistRolesNext
  <2>2. p = <<p[1], p[2]>> /\ p \in Account \X Role
    BY GrantableAssumption
  <2>3. UNCHANGED vars /\ UNCHANGED fundAllowance
    BY <2>1, Zenon DEF GrantDistRole, RevokeDistRole, RenounceDistRole
  <2>4. distRoles' \subseteq Account \X Role
    BY <2>1, <2>2 DEF GrantDistRole, RevokeDistRole, RenounceDistRole, DInv, DistTypeOK
  <2>5. fundAllowance' \in [Account -> Allowance]
    BY <2>3 DEF DInv, DistTypeOK
  <2> QED
    BY <2>3, <2>4, <2>5, OwnStep
<1>6. CASE UNCHANGED allVars
  BY <1>6, OwnStep, Zenon DEF allVars, distVars, DInv, DistTypeOK
<1> QED
  BY <1>2, <1>3, <1>4, <1>5, <1>6, Zenon DEF DistNext

\* The invariant holds once both contracts are deployed.
LEMMA DistInitInvariant == DistInit => DInv
<1> SUFFICES ASSUME DistInit PROVE DInv
  OBVIOUS
<1> DEFINE approved == [a \in Account |-> IF a = Distributor THEN Unlimited ELSE 0]
<1>1. approved \in [Account -> Allowance]
  BY DEF Allowance
<1>2. InitWith(approved)
  BY DEF DistInit
<1>3. IInv
  BY <1>1, <1>2, VaultInit
<1>4. fundAllowance \in [Account -> Allowance] /\ distRoles \subseteq Account \X Role
  BY AccountAssumption DEF DistInit, Allowance, Role
<1> QED
  BY <1>3, <1>4 DEF DInv, DistTypeOK, IInv

\* Vault and distributor together keep the vault's invariant and their types.
THEOREM DistInvariant == DistSpec => []DInv
<1>1. DInv /\ [DistNext]_allVars => DInv'
  BY DistStep
<1> QED
  BY <1>1, DistInitInvariant, PTL DEF DistSpec

\* The state of the two contracts is well-typed.
THEOREM DistTypeCorrect == DistSpec => []DistTypeOK
<1>1. DInv => DistTypeOK
  BY DEF DInv
<1> QED
  BY <1>1, DistInvariant, PTL

\* Reward funds leave the distributor only for the vault, in full: neither
\* rescue nor any allowance or role is a way around it.
THEOREM DistRewardsOnlyToVault == DistSpec => RewardsOnlyToVault
<1>1. DInv /\ [DistNext]_allVars => [FundsStep]_allVars
  BY DistStep
<1> QED
  BY <1>1, DistInvariant, PTL DEF DistSpec, RewardsOnlyToVault, FundsStep

-----------------------------------------------------------------------------
(* The vault beside its distributor.                                       *)

\* What the distributor does to the vault is what anybody may do to the pool
\* of assets and shares: a gift, or nothing.
THEOREM DistImplementsSharePool == DistSpec => ImplementsSharePool
<1>1. DistInit => SP!Init
  BY HolderFacts DEF DistInit, InitWith, SP!Init, TotalAssets
<1>2. DInv /\ [DistNext]_allVars => [SP!Next]_(SP!vars)
  BY DistStep, Zenon DEF PoolStep
<1> QED
  BY <1>1, <1>2, DistInvariant, PTL DEF DistSpec, ImplementsSharePool, SP!Spec

\* Nobody's share loses value, the distributor's own operations included.
THEOREM DistPriceNeverFalls == DistSpec => SharePriceNeverFalls
<1>1. DInv /\ [DistNext]_allVars => [SP!PriceStep]_vars
  BY DistStep, PriceKept DEF DInv
<1> QED
  BY <1>1, DistInvariant, PTL DEF DistSpec, SharePriceNeverFalls

\* A depositor is as well protected when the donations that came before were
\* rewards pushed by the distributor.
THEOREM DistDepositLossBounded == DistSpec => DepositLossBounded
<1> DEFINE Bounded ==
      \A c \in EOA, n \in AssetAmounts, r \in Holder :
        Deposit(c, n, r)
          => (DepositLoss(n) - 1) * Supply(totalSupply') < TotalAssets
<1>1. DInv /\ [DistNext]_allVars => [Bounded]_vars
  BY DepositStep, Zenon DEF DInv
<1> QED
  BY <1>1, DistInvariant, PTL DEF DistSpec, DepositLossBounded

\* What a transaction to the vault leaves everybody else, the distributor's
\* reward funds and stray shares included, is the same beside a distributor.
THEOREM DistOthersKept == DistSpec => OthersKept
<1> DEFINE Kept == \A c \in EOA : \A o \in Account \ {c} : ~Leaves(c, o) => ~Call(c)
<1>1. DInv /\ [DistNext]_allVars => [Kept]_vars
  BY CallLeaves DEF DInv
<1> QED
  BY <1>1, DistInvariant, PTL DEF DistSpec, OthersKept

\* With reward funds held outside the vault, the shares still add up to the
\* supply, all claims are in the vault, and maxWithdraw can be withdrawn.
THEOREM DistVaultSafe ==
  DistSpec => [](SupplyIsSum /\ ClaimsCovered /\ MaxWithdrawBurnable /\ ExitUnobstructed)
<1>1. DInv => SupplyIsSum /\ ClaimsCovered /\ MaxWithdrawBurnable /\ ExitUnobstructed
  BY ClaimsFit, MaxWithdrawFits, ExitOpen DEF DInv, IInv
<1> QED
  BY <1>1, DistInvariant, PTL

\* The estimate of the backend is as good when rewards come through the
\* distributor.
THEOREM DistEstimateNearClaim == DistSpec => []EstimateNearClaim
<1>1. DistInit => PriceFloor
  BY FloorInit DEF DistInit
<1>2. DInv /\ DInv' /\ PriceFloor /\ [DistNext]_allVars => PriceFloor'
  BY DistStep, PriceKept, FloorStep DEF DInv
<1>3. DInv /\ PriceFloor => EstimateNearClaim
  BY EstimateOf DEF EstimateNearClaim, DInv
<1> QED
  BY <1>1, <1>2, <1>3, DistInvariant, PTL DEF DistSpec

-----------------------------------------------------------------------------
(* Pending rewards can be pushed.                                          *)

\* The approval the constructor gave the vault.
Approved == assetAllowance[Distributor] = Unlimited

\* No vault operation of an account that sends transactions changes it.
LEMMA ApprovalOfOthers ==
  ASSUME TypeOK, NEW c \in EOA, Call(c)
  PROVE  assetAllowance'[Distributor] = assetAllowance[Distributor]
<1>1. c \in Account /\ c # Distributor /\ Distributor \in Account
  BY HolderFacts, DistributorFacts
<1>2. ASSUME NEW w, assetAllowance' = [assetAllowance EXCEPT ![c] = w]
      PROVE  assetAllowance'[Distributor] = assetAllowance[Distributor]
  BY <1>1, <1>2 DEF TypeOK
<1>3. \/ UNCHANGED assetAllowance
      \/ \E w : assetAllowance' = [assetAllowance EXCEPT ![c] = w]
  <2>1. CASE AssetNext(c)
    BY <2>1, Zenon DEF AssetNext, AssetTransfer, AssetApprove
  <2>2. CASE EntryNext(c)
    <3>1. ASSUME NEW n, PullAsset(c, n)
          PROVE  \E w : assetAllowance' = [assetAllowance EXCEPT ![c] = w]
      BY <3>1, Zenon DEF PullAsset
    <3> QED
      BY <2>2, <3>1, Zenon DEF EntryNext, Deposit, Mint, Enter, Withdraw, Redeem, Exit,
         PushAsset, EmergencyWithdraw, DistributeRewards
  <2>3. CASE ShareNext(c)
    BY <2>3, Zenon DEF ShareNext, Transfer, TransferFrom, Approve, tokens
  <2>4. CASE ControlNext(c)
    BY <2>4, Zenon
    DEF ControlNext, Pause, Unpause, GrantRole, RevokeRole, RenounceRole, tokens
  <2> QED
    BY <2>1, <2>2, <2>3, <2>4 DEF Call
<1> QED
  BY <1>2, <1>3

\* An unlimited approval is not spent by a distribution either, and nothing
\* else in the distributor touches it.
LEMMA ApprovalStep ==
  ASSUME TypeOK, Approved, [DistNext]_allVars
  PROVE  Approved'
<1>1. Distributor \in Account /\ assetAllowance \in [Account -> Allowance]
  BY DistributorFacts DEF TypeOK
<1>2. ASSUME NEW n, DistributeRewards(Distributor, n)
      PROVE  Approved'
  <2>1. assetAllowance' = [assetAllowance EXCEPT ![Distributor] = SpendFrom(@, n)]
    BY <1>2, Zenon DEF DistributeRewards, PullAsset
  <2>2. SpendFrom(Unlimited, n) = Unlimited
    BY DEF SpendFrom
  <2> QED
    BY <1>1, <2>1, <2>2 DEF Approved
<1>3. ASSUME UNCHANGED assetAllowance
      PROVE  Approved'
  BY <1>3 DEF Approved
<1>4. CASE Next /\ UNCHANGED distVars
  <2>1. PICK c \in EOA : Call(c)
    BY <1>4, Zenon DEF Next
  <2> QED
    BY <2>1, ApprovalOfOthers DEF Approved
<1>5. CASE WireDistributor
  BY <1>3, <1>5, Zenon DEF WireDistributor, GrantRole, tokens
<1>6. ASSUME NEW c \in EOA, FundsNext(c)
      PROVE  Approved'
  <2>1. ASSUME NEW n, Fund(c, n)
        PROVE  Approved'
    BY <1>3, <2>1, Zenon DEF Fund
  <2>2. ASSUME NEW to, NEW n, Rescue(c, to, n)
        PROVE  Approved'
    BY <1>3, <2>2, Zenon DEF Rescue, Transfer, tokens
  <2>3. ASSUME NEW n, ApproveFund(c, n)
        PROVE  Approved'
    BY <1>3, <2>3, Zenon DEF ApproveFund, vars, tokens
  <2> QED
    BY <1>2, <1>6, <2>1, <2>2, <2>3, Zenon DEF FundsNext, Distribute, DistributeAll
<1>7. ASSUME NEW c \in EOA, DistRolesNext(c)
      PROVE  Approved'
  BY <1>3, <1>7, Zenon
  DEF DistRolesNext, GrantDistRole, RevokeDistRole, RenounceDistRole, vars, tokens
<1>8. CASE UNCHANGED allVars
  BY <1>3, <1>8, Zenon DEF allVars, vars, tokens
<1> QED
  BY <1>4, <1>5, <1>6, <1>7, <1>8, Zenon DEF DistNext

\* No revert of distributeAll, the vault's part included, can meet an operator
\* of a wired distributor: neither a pause nor a spent allowance is in the way.
DistributeUnobstructed ==
    pendingRewards # 0
      => /\ Allows(assetAllowance[Distributor], pendingRewards)
         /\ Holds(asset, Distributor, pendingRewards)

\* With the two grants, those are all the guards: the values the two contracts
\* assign make a step of distributeAll.
LEMMA DistributeGuards ==
  ASSUME DistributeUnobstructed, pendingRewards # 0, NEW c \in EOA,
         HasDistRole(c, "OPERATOR_ROLE"), HasRole(Distributor, "OPERATOR_ROLE"),
         asset' = Move(asset, Distributor, Vault, pendingRewards),
         assetAllowance' =
           [assetAllowance EXCEPT ![Distributor] = SpendFrom(@, pendingRewards)],
         UNCHANGED <<shareVars, control>>, UNCHANGED distVars
  PROVE  DistributeAll(c)
BY Zenon DEF DistributeUnobstructed, DistributeAll, DistributeRewards, PullAsset

\* The distributor's approval of the vault outlasts every distribution, so
\* what is pending can be pushed in every reachable state.
THEOREM DistDistributeUnobstructed == DistSpec => []DistributeUnobstructed
<1>1. DistInit => Approved
  BY DistributorFacts DEF DistInit, InitWith, Approved
<1>2. DInv /\ Approved /\ [DistNext]_allVars => Approved'
  BY ApprovalStep DEF DInv, IInv
<1>3. DInv /\ Approved => DistributeUnobstructed
  <2> SUFFICES ASSUME DInv, Approved
               PROVE  /\ Allows(assetAllowance[Distributor], pendingRewards)
                      /\ Holds(asset, Distributor, pendingRewards)
    BY DEF DistributeUnobstructed
  <2>1. pendingRewards \in Nat
    BY DistributorFacts DEF DInv, IInv, TypeOK, pendingRewards
  <2>2. pendingRewards <= asset[Distributor]
    BY <2>1 DEF pendingRewards
  <2> QED
    BY <2>2, Zenon DEF Approved, Allows, Holds
<1> QED
  BY <1>1, <1>2, <1>3, DistInvariant, PTL DEF DistSpec

-----------------------------------------------------------------------------
(* Liveness.  ENABLED is opaque to the provers: that the two exits are     *)
(* enabled is a hypothesis here, the very invariant the run checks; what   *)
(* it stands on, their guards, is ExitGuards and DistributeGuards above.   *)

\* The exit of the whole balance leaves none.
LEMMA ExitAllEmpties ==
  ASSUME DInv, NEW c \in EOA, ExitAll(c)
  PROVE  shares'[c] = 0
<1>1. c \in Holder /\ shares \in [Holder -> Nat]
  BY HolderFacts DEF DInv, IInv, TypeOK
<1>2. shares' = Debit(shares, c, shares[c])
  BY Zenon DEF ExitAll, EmergencyWithdraw, BurnShares
<1>3. shares[c] \in Nat /\ shares[c] - shares[c] = 0
  BY <1>1
<1> QED
  BY <1>1, <1>2, <1>3 DEF Debit

\* distributeAll leaves nothing pending.
LEMMA DistributeAllEmpties ==
  ASSUME DInv, NEW c \in EOA, DistributeAll(c)
  PROVE  pendingRewards' = 0
<1>1. asset \in [Holder -> Nat] /\ Distributor \in Holder /\ Vault \in Holder /\ Distributor # Vault
  BY HolderFacts, DistributorFacts DEF DInv, IInv, TypeOK
<1>2. asset' = Move(asset, Distributor, Vault, asset[Distributor])
  BY Zenon DEF DistributeAll, DistributeRewards, PullAsset, pendingRewards
<1>3. asset[Distributor] \in Nat /\ asset[Distributor] - asset[Distributor] = 0
  BY <1>1
<1> QED
  BY <1>1, <1>2, <1>3 DEF Move, Credit, Debit, pendingRewards

\* As long as the exit stays open, a staker who keeps trying it is out again
\* and again, whatever the admin, the operator and the other stakers do.
THEOREM DistPauseCannotTrap == DistSpec /\ []ExitAlwaysOpen => PauseCannotTrap
<1>1. ASSUME NEW c \in EOA
      PROVE  DistSpec /\ []ExitAlwaysOpen => []<>(shares[c] = 0)
  <2>1. Fairness => ExitFairness(c)
    BY DEF Fairness
  <2>2. ExitFairness(c) => WF_allVars(ExitAll(c) /\ UNCHANGED distVars)
    BY PTL DEF ExitFairness
  <2>3. ExitAlwaysOpen => shares[c] = 0 \/ ENABLED <<ExitAll(c) /\ UNCHANGED distVars>>_allVars
    BY DEF ExitAlwaysOpen
  <2>4. DInv /\ <<ExitAll(c) /\ UNCHANGED distVars>>_allVars => (shares[c] = 0)'
    BY ExitAllEmpties
  <2> QED
    BY <2>1, <2>2, <2>3, <2>4, DistInvariant, PTL DEF DistSpec
<1> QED
  BY <1>1 DEF PauseCannotTrap

\* As long as a wired distributor can push what is pending, an operator who
\* keeps pushing empties it again and again, until a grant goes.
THEOREM DistPendingRewardsReachVault ==
  ASSUME Operator \in EOA
  PROVE  DistSpec /\ []DistributeAllAvailable => PendingRewardsReachVault
<1>1. Fairness => PushFairness(Operator)
  BY DEF Fairness
<1>2. PushFairness(Operator) => WF_allVars(DistributeAll(Operator))
  BY PTL DEF PushFairness
<1>3. DistributeAllAvailable => CanDistributeAll(Operator)
  BY DEF DistributeAllAvailable
<1>4. CanDistributeAll(Operator)
        => pendingRewards = 0 \/ ~Wired(Operator) \/ ENABLED <<DistributeAll(Operator)>>_allVars
  BY DEF CanDistributeAll
<1>5. DInv /\ <<DistributeAll(Operator)>>_allVars => (pendingRewards = 0)'
  BY DistributeAllEmpties
<1> QED
  BY <1>1, <1>2, <1>3, <1>4, <1>5, DistInvariant, PTL DEF DistSpec, PendingRewardsReachVault
=============================================================================
