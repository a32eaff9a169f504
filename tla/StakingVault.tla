---------------------------- MODULE StakingVault ----------------------------
(***************************************************************************)
(* contracts/src/StakingVault.sol: the ERC-4626 staking vault with roles,  *)
(* pause and the emergency exit, together with the ERC20, ERC4626,         *)
(* AccessControl and Pausable code it inherits and the ERC20 asset it      *)
(* holds.  A transaction is atomic: an operation is one action, a revert   *)
(* is an action that is not enabled.                                       *)
(***************************************************************************)
EXTENDS Rates, Balances

CONSTANTS
    Account,        \* addresses other than the vault
    EOA,            \* accounts that send transactions
    Vault,          \* address(this) of the vault
    InitialAssets,  \* the asset every account owns at deployment
    Admin, Operator,\* admin_ and operator_ of the constructor
    AssetAmounts,   \* amounts of the asset used as arguments
    ShareAmounts,   \* amounts of shares used as arguments
    AssetApprovals, \* allowances on the asset an account may give the vault
    ShareApprovals, \* allowances on its shares an account may give another
    Grantable       \* <<account, role>> pairs that grantRole may be called with

ASSUME AccountAssumption ==
    /\ IsFiniteSet(Account)
    /\ Vault \notin Account
    /\ EOA \subseteq Account
    /\ {Admin, Operator} \subseteq Account

ASSUME AmountsAssumption ==
    /\ InitialAssets \in [Account -> Nat]
    /\ AssetAmounts \subseteq Nat
    /\ ShareAmounts \subseteq Nat
    /\ AssetApprovals \subseteq Allowance
    /\ ShareApprovals \subseteq Allowance

Holder == Account \cup {Vault}
Role   == {"DEFAULT_ADMIN_ROLE", "OPERATOR_ROLE"}

ASSUME GrantableAssumption == Grantable \subseteq Account \X Role

VARIABLES
    asset,          \* balances of the underlying token
    assetAllowance, \* allowance each account gave the vault on the asset
    shares,         \* balances of the vault's own share token
    totalSupply,
    shareAllowance, \* allowances on shares, by <<owner, spender>>
    paused,
    roles           \* <<account, role>> pairs granted

tokens    == <<asset, assetAllowance>>
shareVars == <<shares, totalSupply, shareAllowance>>
control   == <<paused, roles>>
vars      == <<tokens, shareVars, control>>

TypeOK ==
    /\ asset \in [Holder -> Nat]
    /\ assetAllowance \in [Account -> Allowance]
    /\ shares \in [Holder -> Nat]
    /\ totalSupply \in Nat
    /\ shareAllowance \in [Account \X Account -> Allowance]
    /\ paused \in BOOLEAN
    /\ roles \subseteq Account \X Role

-----------------------------------------------------------------------------
(* Views.                                                                  *)

TotalAssets == asset[Vault]
HasRole(a, role) == <<a, role>> \in roles

MaxWithdraw_Up(owner) ==     \* mutant: rounded up
    MulDivUp(shares[owner], Pool(TotalAssets), Supply(totalSupply))

\* ERC4626.maxWithdraw: not overridden, so it does not look at the pause.
MaxWithdraw(owner) == ConvertToAssets(shares[owner], TotalAssets, totalSupply)

-----------------------------------------------------------------------------
InitWith(approved) ==
    /\ asset = [h \in Holder |-> IF h = Vault THEN 0 ELSE InitialAssets[h]]
    /\ assetAllowance = approved
    /\ shares = [h \in Holder |-> 0]
    /\ totalSupply = 0
    /\ shareAllowance = [p \in Account \X Account |-> 0]
    /\ paused = FALSE
    /\ roles = {<<Admin, "DEFAULT_ADMIN_ROLE">>, <<Operator, "OPERATOR_ROLE">>}

\* The constructor; nobody has approved the vault yet.
Init == InitWith([a \in Account |-> 0])

-----------------------------------------------------------------------------
(* The building blocks the entry points share.                             *)

\* safeTransferFrom(caller, vault, n): the caller's allowance is spent.
PullAsset(caller, n) ==
    /\ Allows(assetAllowance[caller], n)
    /\ Holds(asset, caller, n)
    /\ asset' = Move(asset, caller, Vault, n)
    /\ assetAllowance' = [assetAllowance EXCEPT ![caller] = SpendFrom(@, n)]

\* safeTransfer(receiver, n) out of the vault, which may be the receiver.
PushAsset(receiver, n) ==
    /\ Holds(asset, Vault, n)
    /\ asset' = Move(asset, Vault, receiver, n)
    /\ UNCHANGED assetAllowance

MintShares(receiver, n) ==
    /\ shares' = Credit(shares, receiver, n)
    /\ totalSupply' = totalSupply + n

BurnShares_SupplyKept(owner, n) ==     \* mutant: the supply is not reduced
    /\ Holds(shares, owner, n)
    /\ shares' = Debit(shares, owner, n)
    /\ UNCHANGED totalSupply

BurnShares_BalanceKept(owner, n) ==     \* mutant: the balance is not reduced
    /\ Holds(shares, owner, n)
    /\ UNCHANGED shares
    /\ totalSupply' = totalSupply - n

BurnShares(owner, n) ==
    /\ Holds(shares, owner, n)
    /\ shares' = Debit(shares, owner, n)
    /\ totalSupply' = totalSupply - n

SpendShareAllowance(owner, spender, n) ==
    /\ Allows(shareAllowance[<<owner, spender>>], n)
    /\ shareAllowance' = [shareAllowance EXCEPT ![<<owner, spender>>] = SpendFrom(@, n)]

SpendIfThirdParty_Never(caller, owner, n) == UNCHANGED shareAllowance     \* mutant

\* ERC4626._withdraw spends an allowance only when a third party calls.
SpendIfThirdParty(caller, owner, n) ==
    IF caller = owner THEN UNCHANGED shareAllowance
                      ELSE SpendShareAllowance(owner, caller, n)

Enter(caller, receiver, assets, n) ==
    /\ PullAsset(caller, assets)
    /\ MintShares(receiver, n)
    /\ UNCHANGED <<shareAllowance, control>>

Exit(caller, receiver, owner, assets, n) ==
    /\ SpendIfThirdParty(caller, owner, n)
    /\ BurnShares(owner, n)
    /\ PushAsset(receiver, assets)
    /\ UNCHANGED control

-----------------------------------------------------------------------------
(* ERC-4626 entry points, all of them whenNotPaused.                       *)

Deposit(caller, assets, receiver) ==
    /\ ~paused
    /\ assets # 0
    /\ Enter(caller, receiver, assets, PreviewDeposit(assets, TotalAssets, totalSupply))

Mint(caller, n, receiver) ==
    /\ ~paused
    /\ n # 0
    /\ Enter(caller, receiver, PreviewMint(n, TotalAssets, totalSupply), n)

Withdraw(caller, assets, receiver, owner) ==
    /\ ~paused
    /\ assets # 0
    /\ assets <= MaxWithdraw(owner)
    /\ Exit(caller, receiver, owner, assets,
            PreviewWithdraw(assets, TotalAssets, totalSupply))

\* maxRedeem(owner) is the balance; _burn checks the same bound again.
Redeem(caller, n, receiver, owner) ==
    /\ ~paused
    /\ n # 0
    /\ Exit(caller, receiver, owner, PreviewRedeem(n, TotalAssets, totalSupply), n)

-----------------------------------------------------------------------------
(* Rewards, pause, the emergency exit.                                     *)

DistributeRewards_WhenNotPaused(caller, amount) ==     \* mutant
    /\ ~paused
    /\ HasRole(caller, "OPERATOR_ROLE")
    /\ amount # 0
    /\ PullAsset(caller, amount)
    /\ UNCHANGED <<shareVars, control>>

\* Not whenNotPaused: rewards can be distributed to a paused vault.
DistributeRewards(caller, amount) ==
    /\ HasRole(caller, "OPERATOR_ROLE")
    /\ amount # 0
    /\ PullAsset(caller, amount)
    /\ UNCHANGED <<shareVars, control>>

Pause(caller) ==
    /\ HasRole(caller, "DEFAULT_ADMIN_ROLE")
    /\ ~paused
    /\ paused' = TRUE
    /\ UNCHANGED <<tokens, shareVars, roles>>

Unpause(caller) ==
    /\ HasRole(caller, "DEFAULT_ADMIN_ROLE")
    /\ paused
    /\ paused' = FALSE
    /\ UNCHANGED <<tokens, shareVars, roles>>

EmergencyWithdraw_WhenNotPaused(caller, n) ==     \* mutant
    /\ ~paused
    /\ n # 0
    /\ BurnShares(caller, n)
    /\ PushAsset(caller, PreviewRedeem(n, TotalAssets, totalSupply))
    /\ UNCHANGED <<shareAllowance, control>>

EmergencyWithdraw(caller, n) ==
    /\ n # 0
    /\ BurnShares(caller, n)
    /\ PushAsset(caller, PreviewRedeem(n, TotalAssets, totalSupply))
    /\ UNCHANGED <<shareAllowance, control>>

-----------------------------------------------------------------------------
(* Share token and access control operations the vault inherits, none of   *)
(* them pause-guarded, and the asset token's own operations.               *)

Transfer(caller, to, n) ==
    /\ Holds(shares, caller, n)
    /\ shares' = Move(shares, caller, to, n)
    /\ UNCHANGED <<tokens, totalSupply, shareAllowance, control>>

TransferFrom(caller, from, to, n) ==
    /\ SpendShareAllowance(from, caller, n)
    /\ Holds(shares, from, n)
    /\ shares' = Move(shares, from, to, n)
    /\ UNCHANGED <<tokens, totalSupply, control>>

Approve(caller, spender, n) ==
    /\ shareAllowance' = [shareAllowance EXCEPT ![<<caller, spender>>] = n]
    /\ UNCHANGED <<tokens, shares, totalSupply, control>>

\* The admin of both roles is DEFAULT_ADMIN_ROLE.
GrantRole(caller, a, role) ==
    /\ HasRole(caller, "DEFAULT_ADMIN_ROLE")
    /\ roles' = roles \cup {<<a, role>>}
    /\ UNCHANGED <<tokens, shareVars, paused>>

RevokeRole(caller, a, role) ==
    /\ HasRole(caller, "DEFAULT_ADMIN_ROLE")
    /\ roles' = roles \ {<<a, role>>}
    /\ UNCHANGED <<tokens, shareVars, paused>>

RenounceRole(caller, role) ==
    /\ roles' = roles \ {<<caller, role>>}
    /\ UNCHANGED <<tokens, shareVars, paused>>

\* To the vault, this is a donation.
AssetTransfer(caller, to, n) ==
    /\ Holds(asset, caller, n)
    /\ asset' = Move(asset, caller, to, n)
    /\ UNCHANGED <<assetAllowance, shareVars, control>>

AssetApprove(caller, n) ==
    /\ assetAllowance' = [assetAllowance EXCEPT ![caller] = n]
    /\ UNCHANGED <<asset, shareVars, control>>

-----------------------------------------------------------------------------
(* What a caller may ask for: an amount of the list, or all that is there. *)

RedeemAmounts(owner)   == ShareAmounts \cup {shares[owner]}
WithdrawAmounts(owner) == AssetAmounts \cup {MaxWithdraw(owner)}

AssetNext(c) ==
    \/ \E n \in AssetAmounts, to \in Holder : AssetTransfer(c, to, n)
    \/ \E n \in AssetApprovals : AssetApprove(c, n)

EntryNext(c) ==
    \/ \E n \in AssetAmounts, r \in Holder : Deposit(c, n, r)
    \/ \E n \in ShareAmounts, r \in Holder : Mint(c, n, r)
    \/ \E o \in Account, r \in Holder :
        \/ \E n \in WithdrawAmounts(o) : Withdraw(c, n, r, o)
        \/ \E n \in RedeemAmounts(o) : Redeem(c, n, r, o)
    \/ \E n \in RedeemAmounts(c) : EmergencyWithdraw(c, n)
    \/ \E n \in AssetAmounts : DistributeRewards(c, n)

ShareNext(c) ==
    \/ \E n \in ShareAmounts, to \in Holder : Transfer(c, to, n)
    \/ \E from \in Account, to \in Holder, n \in ShareAmounts : TransferFrom(c, from, to, n)
    \/ \E s \in Account, n \in ShareApprovals : Approve(c, s, n)

ControlNext(c) ==
    \/ Pause(c)
    \/ Unpause(c)
    \/ \E p \in Grantable : GrantRole(c, p[1], p[2]) \/ RevokeRole(c, p[1], p[2])
    \/ \E p \in Grantable : c = p[1] /\ RenounceRole(c, p[2])

\* Everything a transaction of c can do.
Call(c) == AssetNext(c) \/ EntryNext(c) \/ ShareNext(c) \/ ControlNext(c)

Next == \E c \in EOA : Call(c)

Spec == Init /\ [][Next]_vars
-----------------------------------------------------------------------------
(* Safety.                                                                 *)

\* Every share in existence is in somebody's balance: the supply that prices
\* shares is the supply that can be redeemed.
SupplyIsSum == TotalOf(shares) = totalSupply

\* What every holder could redeem now, added up, is in the vault
\* (docs/security.md: totalAssets >= sum(userBalances) after any sequence).
Claims == [h \in Holder |-> ConvertToAssets(shares[h], TotalAssets, totalSupply)]
ClaimsCovered == TotalOf(Claims) <= TotalAssets

\* withdraw(maxWithdraw(owner)) rounds the shares it burns up, maxWithdraw
\* rounds the assets down: the burn never exceeds the owner's balance.
MaxWithdrawBurnable ==
    \A h \in Holder :
        PreviewWithdraw(MaxWithdraw(h), TotalAssets, totalSupply) <= shares[h]

-----------------------------------------------------------------------------
(* What a step may never do.                                               *)

SP == INSTANCE SharePool WITH pool <- TotalAssets, supply <- totalSupply

\* The vault exchanges shares and assets at a rate never better than the
\* current one and otherwise only receives gifts.
ImplementsSharePool == SP!Spec

\* The price of a share never falls, so nobody's holding is diluted by
\* deposits, exits, transfers, rewards or donations of others.
SharePriceNeverFalls == [][SP!PriceStep]_vars

\* What c leaves o: no asset is taken, shares are taken only out of what o
\* allowed c, which is spent by as much, and the shares that are left redeem
\* for no less than before.
Leaves(c, o) ==
    LET taken   == shares[o] - shares'[o]
        allowed == shareAllowance[<<o, c>>]
    IN  /\ asset'[o] >= asset[o]
        /\ taken > 0 => /\ Allows(allowed, taken)
                       /\ shareAllowance'[<<o, c>>] = SpendFrom(allowed, taken)
        /\ ConvertToAssets(shares'[o], TotalAssets', totalSupply')
             >= ConvertToAssets(shares'[o], TotalAssets, totalSupply)

\* What takes more than that from another account is no transaction of c, an
\* admin or operator included.
OthersKept == [][\A c \in EOA : \A o \in Account \ {c} : ~Leaves(c, o) => ~Call(c)]_vars

\* The virtual-share defence: whatever was donated before, a depositor loses
\* less than one asset unit plus totalAssets / (supply + virtual shares).
DepositLoss(assets) ==
    assets - PreviewRedeem(totalSupply' - totalSupply, TotalAssets', totalSupply')

DepositLossBounded ==
    [][\A c \in EOA, n \in AssetAmounts, r \in Holder :
        Deposit(c, n, r)
          => (DepositLoss(n) - 1) * Supply(totalSupply') < TotalAssets]_vars

-----------------------------------------------------------------------------
(* Liveness, for the specifications that assume a staker who keeps         *)
(* submitting emergencyWithdraw for the whole balance.                     *)

ExitAll(c) == EmergencyWithdraw(c, shares[c])

\* "Admin pause cannot lock user funds" (README): a staker who keeps trying
\* holds no share again and again.
PauseCannotTrap == \A c \in EOA : []<>(shares[c] = 0)
=============================================================================
