------------------------------ MODULE Subgraph ------------------------------
(***************************************************************************)
(* subgraph/src/mapping.ts: the handlers of the vault's events, run by     *)
(* graph-node block by block on the canonical chain.  graph-node undoes    *)
(* them when a block is replaced, so the entities at a block are a         *)
(* function of the chain up to it.  A transaction moves Shares[t] shares   *)
(* from one holder to another, a deposit from Nobody, an exit to Nobody,   *)
(* and pays Assets[t] assets for them, or gets so many.                    *)
(***************************************************************************)
EXTENDS Chain, FiniteSetsExt

CONSTANTS
    Account, Nobody,
    Deposits, Withdrawals,      \* the transactions that emit these events
    From, To,
    Shares, Assets              \* the amounts of an event

ASSUME SubgraphAssumption ==
    /\ Deposits \cup Withdrawals \subseteq Indexed
    /\ Deposits \cap Withdrawals = {}
    /\ Nobody \notin Account
    /\ From \in [Tx -> Account \cup {Nobody}]
    /\ To \in [Tx -> Account \cup {Nobody}]
    /\ Shares \in [Tx -> Nat]
    /\ Assets \in [Tx -> Nat]

ASSUME FiniteAssumption == IsFiniteSet(Tx)

Sum(amount, S) == MapThenSumSet(LAMBDA t : amount[t], S)

DepositsOf(o)    == {t \in Deposits : To[t] = o}
WithdrawalsOf(o) == {t \in Withdrawals : From[t] = o}

\* The vault's ledger after block n.
Balance(o, n) ==
    Sum(Shares, {t \in IncludedUpTo(n) : To[t] = o}) - Sum(Shares, {t \in IncludedUpTo(n) : From[t] = o})

-----------------------------------------------------------------------------
NewUser == [totalDeposited |-> 0, totalWithdrawn |-> 0, depositCount |-> 0, withdrawCount |-> 0]

handleDeposit(user, t) ==
    [user EXCEPT !.totalDeposited = @ + Assets[t], !.depositCount = @ + 1]

handleWithdraw(user, t) ==
    [user EXCEPT !.totalWithdrawn = @ + Assets[t], !.withdrawCount = @ + 1]

handle(t, user) ==
    IF t \in Deposits THEN handleDeposit(user, t) ELSE handleWithdraw(user, t)

\* The entity of holder o after block n.  Handlers of one entity commute, so
\* the order of its events does not matter.
User(o, n) ==
    FoldSet(handle, NewUser, IncludedUpTo(n) \cap (DepositsOf(o) \cup WithdrawalsOf(o)))
=============================================================================
