-------------------------------- MODULE Chain --------------------------------
(***************************************************************************)
(* The chain the off-chain services read over RPC (external code, modelled *)
(* from how backend/internal/chain uses it): the canonical blocks 0..head, *)
(* which grow at the head and may be replaced from some height on.  A      *)
(* block is known by its height and the fork that created it; that pair    *)
(* stands for its hash.  A transaction stands for one call of the vault,   *)
(* which may emit one of the three events the log filter asks for, or none *)
(* of them (an emergency exit, a transfer of shares).  An event is known   *)
(* by what the tables know it by, its transaction and its log index in the *)
(* block: a member of Tx is that pair.  A reorg may drop a transaction,    *)
(* and a later block may include it again: as the same member of Tx at the *)
(* same log index, as another one at a different index.                    *)
(***************************************************************************)
EXTENDS Integers, FiniteSets

CONSTANTS
    Tx,             \* transactions of the vault, each with the log index of its event
    Indexed,        \* those that emit Deposit, Withdraw or RewardsDistributed
    MaxHeight,      \* bound on the height of the chain
    MaxReorgs,      \* bound on the number of reorgs
    MaxReorgLen     \* bound on the number of blocks a reorg replaces

ASSUME ChainAssumption ==
    /\ Indexed \subseteq Tx
    /\ MaxHeight \in Nat
    /\ MaxReorgs \in Nat
    /\ MaxReorgLen \in Nat

VARIABLES
    head,       \* height of the canonical head
    chain,      \* the canonical blocks, by height
    fork,       \* number of reorgs so far
    minFork     \* history: no block below this height was ever replaced

chainVars == <<head, chain, fork, minFork>>

Height == 0..MaxHeight
Block  == [id : 0..MaxReorgs, txs : SUBSET Tx]

ChainTypeOK ==
    /\ head \in Height
    /\ chain \in [0..head -> Block]
    /\ fork \in 0..MaxReorgs
    /\ minFork \in 1..(MaxHeight + 1)

\* The transactions of the canonical blocks up to height n.
IncludedUpTo(n) == UNION {chain[m].txs : m \in 0..n}
Included == IncludedUpTo(head)

ChainInit ==
    /\ head = 0
    /\ chain = [n \in 0..0 |-> [id |-> 0, txs |-> {}]]
    /\ fork = 0
    /\ minFork = MaxHeight + 1

MineBlock(S) ==
    /\ head < MaxHeight
    /\ S \cap Included = {}
    /\ head' = head + 1
    /\ chain' = [n \in 0..(head + 1) |->
                    IF n <= head THEN chain[n] ELSE [id |-> fork, txs |-> S]]
    /\ UNCHANGED <<fork, minFork>>

\* The branch from height k on is replaced by a new block, on which mining
\* goes on; a reader may see the head below its former height.
Reorg(k, S) ==
    /\ fork < MaxReorgs
    /\ k \in 1..head
    /\ head - k < MaxReorgLen
    /\ S \cap IncludedUpTo(k - 1) = {}
    /\ fork' = fork + 1
    /\ head' = k
    /\ chain' = [n \in 0..k |-> IF n < k THEN chain[n] ELSE [id |-> fork + 1, txs |-> S]]
    /\ minFork' = IF k < minFork THEN k ELSE minFork

ChainNext == \E S \in SUBSET Tx : MineBlock(S) \/ \E k \in 1..head : Reorg(k, S)
=============================================================================
