-------------------------------- MODULE Api --------------------------------
(***************************************************************************)
(* backend/internal/handlers over the tables the indexer writes: a request *)
(* for /users/{addr}/position is three queries without a transaction, and  *)
(* the indexer may write between any two of them.  A transaction of the    *)
(* vault moves shares from one holder to another, from nobody (a deposit)  *)
(* or to nobody (a withdrawal, an emergency exit).                         *)
(***************************************************************************)
EXTENDS Subgraph, Indexer

VARIABLE request    \* the position request in progress

apiVars == <<vars, request>>

-----------------------------------------------------------------------------
(* The answers.                                                            *)

Stored == {t \in Indexed : rows[t] # None}

\* SELECT SUM(shares) ... WHERE owner = o, over each table.  The sums of the
\* assets, which the same queries select, are served as they are.
Withdrawn_AnyOwner(o) == Sum(Shares, Withdrawals \cap Stored)     \* mutant: no WHERE

Deposited(o) == Sum(Shares, DepositsOf(o) \cap Stored)
Withdrawn(o) == Sum(Shares, WithdrawalsOf(o) \cap Stored)

Tables_Swapped == <<"withdrawals", "deposits">>     \* mutant

\* GetUserPosition sums up the tables in this order.
Tables == <<"deposits", "withdrawals">>

NoRequest == [done |-> 0, owner |-> None, deposits |-> 0, withdrawals |-> 0, since |-> None]

\* The next query of request r; it fails before the migration.
Query(r) ==
    LET table == Tables[r.done + 1]
    IN  /\ "tables" \in schema
        /\ request' = [r EXCEPT !.done = @ + 1,
                               ![table] = IF table = "deposits" THEN Deposited(r.owner)
                                                                ELSE Withdrawn(r.owner)]

\* A request arrives.  "since" is history: the checkpoint at this moment.
GetUserPosition(o) ==
    /\ request = NoRequest
    /\ Query([NoRequest EXCEPT !.owner = o, !.since = last])

SecondQuery == request.done = 1 /\ Query(request)

\* The answer, scaled by the newest rate (see VaultEstimates); an error of
\* this third query is ignored.
Answer == request.done = 2 /\ request' = NoRequest

\* A query fails, the request times out or its client goes away: no answer.
Fail == request.done = 1 /\ request' = NoRequest

Serve ==
    \/ \E o \in Account : GetUserPosition(o)
    \/ SecondQuery \/ Answer \/ Fail

-----------------------------------------------------------------------------
ApiInit == Init /\ request = NoRequest

\* The vault lets nobody spend shares he does not have.
Solvent == \A o \in Account : Balance(o, head) >= 0

ApiNext ==
    \/ Next /\ (chain' # chain => Solvent') /\ UNCHANGED request
    \/ Serve /\ UNCHANGED vars

ApiSpec == ApiInit /\ [][ApiNext]_apiVars /\ WF_vars(Process)
-----------------------------------------------------------------------------
(* Properties, the first two on a chain without reorgs.                    *)

NetShares == request.deposits - request.withdrawals

\* The net shares computed from two separate queries are never more than the
\* tables say when the second one runs, although the indexer may store a
\* deposit and a withdrawal in between: the order of the queries sees to it.
PositionNotOverstated ==
    [][request.done = 1 /\ request'.done = 2
        => NetShares' <= Deposited(request.owner) - Withdrawn(request.owner)]_apiVars

\* The net shares count every deposit saved before the request and no
\* withdrawal that is not on the chain, and the other way round.  Once the
\* indexer has caught up with a chain at rest the bounds meet: the answer is
\* the balance plus what left it in ways no table records.
Saved(n) == IF n = None THEN 0 ELSE n

PositionWithinWindow ==
    request.done = 2 =>
        LET o     == request.owner
            saved == IncludedUpTo(Saved(request.since))
            now   == Included
        IN  /\ Sum(Shares, saved \cap DepositsOf(o)) - Sum(Shares, now \cap WithdrawalsOf(o)) <= NetShares
            /\ NetShares <= Sum(Shares, now \cap DepositsOf(o)) - Sum(Shares, saved \cap WithdrawalsOf(o))

\* What the tables hold of a user up to block n.
TableTotals(o, n) ==
    LET upTo == {t \in Stored : rows[t].number <= n}
    IN  [totalDeposited |-> Sum(Assets, DepositsOf(o) \cap upTo),
         totalWithdrawn |-> Sum(Assets, WithdrawalsOf(o) \cap upTo),
         depositCount   |-> Cardinality(DepositsOf(o) \cap upTo),
         withdrawCount  |-> Cardinality(WithdrawalsOf(o) \cap upTo)]

\* The two mirrors of the chain agree: at every block up to the checkpoint and
\* below the lowest reorg, what the tables hold up to it is what the
\* subgraph's entity of a user says at that block.
TablesAgreeWithSubgraph ==
    last # None =>
        \A n \in 0..head : n <= last /\ n < minFork =>
            \A o \in Account : User(o, n) = TableTotals(o, n)
=============================================================================
