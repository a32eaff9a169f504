------------------------------ MODULE Balances ------------------------------
(***************************************************************************)
(* Token ledgers as OpenZeppelin's ERC20 keeps them (external code): a     *)
(* balance per holder and an allowance per spender.  The vault's shares    *)
(* and the staked asset are two such ledgers.                              *)
(***************************************************************************)
EXTENDS Integers, FiniteSets

CONSTANT
    \* type(uint256).max: an allowance that is never spent down.
    Unlimited

ASSUME UnlimitedAssumption == Unlimited \notin Nat

Allowance == Nat \cup {Unlimited}

-----------------------------------------------------------------------------
(* _update: the balance changes of a transfer, a mint and a burn.  The     *)
(* guards are the reverts on insufficient balance or allowance.            *)

Holds_Unchecked(bal, h, n) == TRUE     \* mutant: unchecked subtraction

Holds(bal, h, n) == n <= bal[h]

Credit(bal, h, n) == [bal EXCEPT ![h] = @ + n]
Debit(bal, h, n)  == [bal EXCEPT ![h] = @ - n]
Move(bal, from, to, n) == Credit(Debit(bal, from, n), to, n)

Allows(allowance, n)    == allowance # Unlimited => n <= allowance
SpendFrom(allowance, n) == IF allowance = Unlimited THEN allowance ELSE allowance - n

-----------------------------------------------------------------------------
(* The sum of the balances of a ledger: one unit <<h, i>> for each of the  *)
(* bal[h] tokens of each holder h.                                         *)

UnitsOf(bal, h) == {h} \X (1..bal[h])
Units(bal)      == UNION {UnitsOf(bal, h) : h \in DOMAIN bal}
TotalOf(bal)    == Cardinality(Units(bal))
=============================================================================
