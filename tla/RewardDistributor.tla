------------------------- MODULE RewardDistributor -------------------------
(***************************************************************************)
(* contracts/src/RewardDistributor.sol beside the vault it feeds, wired as *)
(* contracts/script/Deploy.s.sol wires them.  The distributor is one more  *)
(* account of the vault: it holds reward funds, and perhaps stray shares,  *)
(* and calls the vault's distributeRewards as msg.sender.                  *)
(***************************************************************************)
EXTENDS StakingVault

CONSTANT Distributor    \* address(this) of the distributor

ASSUME DistributorAssumption == Distributor \in Account \ EOA

VARIABLES
    fundAllowance,  \* allowance each account gave the distributor on the asset
    distRoles       \* <<account, role>> pairs granted on the distributor

distVars == <<fundAllowance, distRoles>>
allVars  == <<vars, distVars>>

DistTypeOK ==
    /\ TypeOK
    /\ fundAllowance \in [Account -> Allowance]
    /\ distRoles \subseteq Account \X Role

HasDistRole(a, role) == <<a, role>> \in distRoles

pendingRewards == asset[Distributor]

-----------------------------------------------------------------------------
DistInit_NotApproved ==     \* mutant: the constructor's approval is missing
    /\ Init
    /\ fundAllowance = [a \in Account |-> 0]
    /\ distRoles = {<<Admin, "DEFAULT_ADMIN_ROLE">>, <<Operator, "OPERATOR_ROLE">>}

\* Both constructors have run: the distributor has approved the vault for
\* good, but the vault has not granted it OPERATOR_ROLE yet.
DistInit ==
    /\ InitWith([a \in Account |-> IF a = Distributor THEN Unlimited ELSE 0])
    /\ fundAllowance = [a \in Account |-> 0]
    /\ distRoles = {<<Admin, "DEFAULT_ADMIN_ROLE">>, <<Operator, "OPERATOR_ROLE">>}

\* The deployment script's last transaction.
WireDistributor ==
    /\ GrantRole(Admin, Distributor, "OPERATOR_ROLE")
    /\ UNCHANGED distVars

-----------------------------------------------------------------------------
Fund_NoAllowance(caller, n) ==     \* mutant: the allowance is not checked
    /\ n # 0
    /\ Holds(asset, caller, n)
    /\ asset' = Move(asset, caller, Distributor, n)
    /\ fundAllowance' = [fundAllowance EXCEPT ![caller] = SpendFrom(@, n)]
    /\ UNCHANGED <<assetAllowance, shareVars, control, distRoles>>

Fund(caller, n) ==
    /\ n # 0
    /\ Allows(fundAllowance[caller], n)
    /\ Holds(asset, caller, n)
    /\ asset' = Move(asset, caller, Distributor, n)
    /\ fundAllowance' = [fundAllowance EXCEPT ![caller] = SpendFrom(@, n)]
    /\ UNCHANGED <<assetAllowance, shareVars, control, distRoles>>

Distribute(caller, n) ==
    /\ HasDistRole(caller, "OPERATOR_ROLE")
    /\ n # 0
    /\ Holds(asset, Distributor, n)
    /\ DistributeRewards(Distributor, n)
    /\ UNCHANGED distVars

DistributeAll(caller) ==
    /\ HasDistRole(caller, "OPERATOR_ROLE")
    /\ pendingRewards # 0
    /\ DistributeRewards(Distributor, pendingRewards)
    /\ UNCHANGED distVars

Rescue_AnyToken(caller, to, n) ==     \* mutant: the asset can be rescued too
    /\ HasDistRole(caller, "DEFAULT_ADMIN_ROLE")
    /\ Transfer(Distributor, to, n) \/ AssetTransfer(Distributor, to, n)
    /\ UNCHANGED distVars

\* rescue(token, to, amount): it reverts for the asset; the vault's share is
\* the other token this model has.
Rescue(caller, to, n) ==
    /\ HasDistRole(caller, "DEFAULT_ADMIN_ROLE")
    /\ Transfer(Distributor, to, n)
    /\ UNCHANGED distVars

\* The asset's approve(distributor, n).
ApproveFund(caller, n) ==
    /\ fundAllowance' = [fundAllowance EXCEPT ![caller] = n]
    /\ UNCHANGED <<vars, distRoles>>

GrantDistRole(caller, a, role) ==
    /\ HasDistRole(caller, "DEFAULT_ADMIN_ROLE")
    /\ distRoles' = distRoles \cup {<<a, role>>}
    /\ UNCHANGED <<vars, fundAllowance>>

RevokeDistRole(caller, a, role) ==
    /\ HasDistRole(caller, "DEFAULT_ADMIN_ROLE")
    /\ distRoles' = distRoles \ {<<a, role>>}
    /\ UNCHANGED <<vars, fundAllowance>>

RenounceDistRole(caller, role) ==
    /\ distRoles' = distRoles \ {<<caller, role>>}
    /\ UNCHANGED <<vars, fundAllowance>>

-----------------------------------------------------------------------------
FundsNext(c) ==
    \/ \E n \in AssetAmounts : Fund(c, n) \/ Distribute(c, n)
    \/ DistributeAll(c)
    \/ \E to \in Holder, n \in ShareAmounts : Rescue(c, to, n)
    \/ \E n \in AssetApprovals : ApproveFund(c, n)

DistRolesNext(c) ==
    \E p \in Grantable :
        \/ GrantDistRole(c, p[1], p[2])
        \/ RevokeDistRole(c, p[1], p[2])
        \/ c = p[1] /\ RenounceDistRole(c, p[2])

DistNext ==
    \/ Next /\ UNCHANGED distVars
    \/ WireDistributor
    \/ \E c \in EOA : FundsNext(c) \/ DistRolesNext(c)

\* The operator keeps pushing what is pending and the stakers keep trying to
\* get out; nothing is assumed of the admin.
PushFairness(c) == WF_allVars(DistributeAll(c))
ExitFairness(c) == WF_allVars(ExitAll(c) /\ UNCHANGED distVars)

Fairness == PushFairness(Operator) /\ \A c \in EOA : ExitFairness(c)

DistSpec == DistInit /\ [][DistNext]_allVars /\ Fairness
-----------------------------------------------------------------------------
(* Properties.                                                             *)

\* Reward funds leave the distributor only for the vault, in full: rescue
\* and every other path leave them alone.
RewardsOnlyToVault ==
    [][asset'[Distributor] < asset[Distributor]
        => asset'[Vault] - asset[Vault] = asset[Distributor] - asset'[Distributor]]_allVars

\* Whatever the pause, the roles and the rounding, no share is stuck: each
\* holder can exit with any part of the balance ("always-callable"), and with
\* all of it in a transaction that leaves the distributor alone.
ExitAlwaysOpen ==
    \A c \in EOA :
        /\ \A n \in 1..shares[c] : ENABLED EmergencyWithdraw(c, n)
        /\ shares[c] = 0 \/ ENABLED <<ExitAll(c) /\ UNCHANGED distVars>>_allVars

\* The two grants that let c push rewards into the vault.
Wired(c) == HasRole(Distributor, "OPERATOR_ROLE") /\ HasDistRole(c, "OPERATOR_ROLE")

CanDistributeAll(c) ==
    pendingRewards = 0 \/ ~Wired(c) \/ ENABLED <<DistributeAll(c)>>_allVars

\* An operator of a wired distributor can always push what is pending: no
\* pause of the vault and no spent allowance is in the way.
DistributeAllAvailable == \A c \in EOA : CanDistributeAll(c)

\* While both OPERATOR_ROLE grants stand, funded rewards do not stay in the
\* distributor; without them, "use distribute / distributeAll" is no way out.
PendingRewardsReachVault == []<>(pendingRewards = 0 \/ ~Wired(Operator))
=============================================================================
