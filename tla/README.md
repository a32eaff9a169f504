# Verification of the staking platform

TLA+ models of the ERC-4626 staking vault, the reward distributor, the event
indexer with its migration, the position request of the API, the subgraph's user
entities, the reward bot and the dApp's staking form, the TLC runs that check
them on small instances, and TLAPS proofs, for every value of the constants, of
their safety and of the contracts' liveness. `PROJECT.json` lists the components, the runs,
the mutants each property is tested against, the lines each definition models,
the findings, the hazards and the theorems.

    tlc -config vault_core.cfg MCStakingVault     # one run
    tlapm StakingVaultProofs.tla                  # one proof module

## The system

| Component | State | Operations | Talks to |
|---|---|---|---|
| StakingVault (`contracts/src/StakingVault.sol`) | share balances, supply, share allowances, pause flag, roles; its balance of the asset | deposit, mint, withdraw, redeem, distributeRewards, pause, unpause, emergencyWithdraw; transfer, transferFrom, approve; grantRole, revokeRole, renounceRole | the asset (an ERC20) |
| RewardDistributor (`contracts/src/RewardDistributor.sol`) | its roles; its balance of the asset, its unlimited approval of the vault | fund, distribute, distributeAll, rescue, role operations | calls the vault's distributeRewards as an account that needs OPERATOR_ROLE there |
| Indexer (`backend/cmd/indexer`, `backend/internal/indexer`, `backend/internal/db`) | `schema_migrations`; the tables `deposits`, `withdrawals`, `reward_distributions`, `block_trail`, `indexer_state`, `exchange_rate_snapshots`; the local cursor of `Run` | Migrate once, then detectReorg, processRange, snapshotExchangeRate in an endless loop | an Ethereum node over RPC, Postgres |
| Reward bot (`backend/cmd/rewardbot`, `chain.TxSender`) | running jobs; nothing persistent | cron tick: simulate, estimate, price, nonce, sign, send, wait | an Ethereum node; calls the vault directly |
| REST API (`backend/internal/handlers`) | none | read-only queries over the indexer's tables | Postgres |
| Subgraph (`subgraph/src/mapping.ts`) | its entities (users, totals) | handlers of the vault's events | graph-node |
| dApp (`frontend`) | React state, a pending deposit in a ref | approve, deposit, redeem; display | wallet, API |
| Configuration (`backend/internal/config`) | environment variables | read once | - |

What is hard about it, component by component (the full list, with the line where
each hazard bites and the properties aimed at it, is `hazards` in `PROJECT.json`):

- **Vault.** Rounding. Every conversion rounds, in four different directions, at
  a price that is almost never a whole number; a unit lost in the wrong direction
  is another holder's. Donations move the price. `emergencyWithdraw` burns and
  pays by hand beside the inherited entry points, ignores the pause and must
  still be possible for the last holder. Correct means: supply and balances
  agree, all claims together are covered, the price never falls, a deposit loses
  no more than the virtual shares allow, a transaction takes from others no more
  than they allowed, and no pause, role change or order of exits traps a staker.
- **Distributor.** Two contracts wired by two grants and an approval, in several
  transactions; the asset cannot be rescued from it, so every other exit must
  work or the funds are stuck. Correct means: funds leave only for the vault, and
  do leave while the wiring stands.
- **Indexer.** Every statement is a network call; between any two of them the
  chain may grow or reorganise, a call may fail after it took effect, and the
  process may die. Correct means: the tables are the chain up to the saved block
  wherever no reorg reached, no retry loop is endless, stale blocks are detected.
- **Reward bot.** Money is sent by a job whose every step may fail or time out
  with the outcome unknown, and which may overlap the next job. Correct means:
  one tick pays at most once, a report of success is true, no nonce is skipped.
- **REST API.** A position is put together from three queries without a
  transaction, while the indexer writes. What it counts are events; what a share
  is worth it takes from a snapshot that was rounded twice and leaves out the
  virtual shares. Correct means: the answer stays between what was on record
  when the request came and what is on the chain now, and the estimate is off by
  its roundings only.
- **Subgraph.** It derives the same totals as the tables in another way, handler
  by handler. Correct means: the two agree at the checkpoint.
- **dApp.** The form is written against hooks that report on the latest write
  only, with an effect that awaits refetches while the user clicks on. Correct
  means: one approval leads to one deposit of its amount, nothing else does, and
  the button comes back.

## Modules

| Module | Models | Notes |
|---|---|---|
| `Rates` | OpenZeppelin's `mulDiv` and the ERC4626 previews, with the vault's virtual offset as the constant `VirtualShares` | pure operators |
| `Balances` | ERC20 ledgers: credit, debit, move, allowances, the sum of the balances | pure operators |
| `SharePool` | abstract: a pool and a supply, exchanged at a rate never better than the price | no accounts, pause or roles |
| `StakingVault` | the vault with everything it inherits, and the asset it holds | extends `Rates`, `Balances`; implements `SharePool` |
| `RewardDistributor` | the distributor as one more account of the vault, and the deployment's wiring | extends `StakingVault` |
| `Chain` | the chain as a reader sees it: canonical blocks, growth, reorgs | environment |
| `Indexer` | the indexer process and its tables, one action per RPC or database call | extends `Chain`; implements `EventMirror` when there is no reorg |
| `Detection` | what reorg detection has still to find, as history beside the indexer | extends `Indexer` |
| `EventMirror` | abstract: each event stored once under its block, a checkpoint that moves only past stored blocks | |
| `VaultEstimates` | the stored rate (`snapshot.go`) and `estimatedUnderlyingNow` (`handlers.go`) beside the vault whose price they estimate | extends `StakingVault` |
| `Subgraph` | the handlers of `mapping.ts` as a fold over the canonical chain, and the vault's ledger of the same chain | extends `Chain` |
| `Api` | `GetUserPosition`, query by query, between the steps of the indexer | composes `Indexer` and `Subgraph` |
| `RewardBot` | the cron jobs, one action per RPC call, with the mempool and fees as environment | |
| `StakeCard` | the form of `StakeCard.tsx`, one action per event between two awaits, with wallet, hooks and chain as environment | |
| `MCStakingVault`, `MCRewardDistributor`, `MCIndexer`, `MCApi` | the accounts, balances and events of the small instances | |
| `ArithmeticProofs`, `SharePoolProofs`, `StakingVaultProofs`, `RewardDistributorProofs`, `IndexerProofs`, `ApiProofs`, `RewardBotProofs`, `StakeCardProofs` | proofs | see below |

**Contracts.** A transaction is atomic, so an entry point is one action; a revert
is an action that is not enabled. Modifiers and `require`s are the first
conjuncts, the token movements the primed ones; `Enter` and `Exit` are ERC4626's
`_deposit` and `_withdraw`. `nonReentrant` has no counterpart: the asset is a
plain ERC20 without hooks. Any account may call anything with an amount of a
small set, or with all it has (`redeem` of the balance, `withdraw` of
`maxWithdraw`, as the dApp does). Receivers include the vault itself.

**Indexer.** `Track`, `Pending` and `Apply` are `Migrate`: the tracking table, the
question what is recorded, and the file with its entry in one transaction; any
error there is `log.Fatal`, hence `Exit`. Then `pc` names the next call. `ReadCall(Ok, Err)` and
`WriteCall(Write, Ok, Err)` say what follows a success and an error; a failed
write may or may not have been committed. Code between two calls is part of the
action of the call before it. `Crash` may come before any call and leaves only
the database. A block's hash is its fork number, its transactions are vault
events; the timestamp stored with a row is taken from whatever block is
canonical at that height when the header is read, as in the code. An event is
known by the key of its row, `(tx_hash, log_index)`, and a member of `Tx` is such
a key: a transaction that a reorg moves to another block is the same member if
its event keeps its log index, so that the insert does nothing while the old row
is there, and another member if not, so that it gets a second row. Either may
happen in the runs with two events and a reorg. `Detection` adds two history variables,
`suspect` and `fresh`, which no step of the process reads: the lowest block
replaced that no complete walk has covered since, and the lowest one replaced
since the walk in progress began. The three
event tables are one, since `ingestLog` treats them alike. Of the snapshots, the
row that `/tvl` reads is kept.

**Reward bot.** A job is a record with its next call, fees and nonce. `Abort` is
every error return: a failed call, the two-minute context, SIGTERM, a crash. A
send whose answer is lost is an `Abort` after the send. The node refuses a used
nonce, a known transaction, and a replacement that does not raise both fees; it
mines the lowest nonce if it pays the base fee, and the call reverts if the
operator cannot pay at that moment. The base fee may rise above what a job
offered, which then gives up after two minutes and leaves its transaction, and
all later nonces, waiting.

**API.** `request` is the request in progress with the sums it has so far. A
query reads all of a table at one moment; between two queries the indexer may do
anything. Transactions carry shares from one holder to another (a deposit from
nobody, an exit to nobody), for an amount of assets of its own, and those that are not `Indexed`, transfers of shares
and emergency exits, move shares that no table sees. `Solvent` keeps the chain to
what the vault allows: nobody spends shares he does not have.

**Subgraph.** graph-node undoes the handlers of replaced blocks, so an entity at a
block is a function of the chain up to it: the handlers are a fold, and there is
no action of their own. `totalDeposited` and `totalWithdrawn` sum assets, as
the `assets` column of the tables does; the API's net shares sum its `shares`.

**StakeCard.** `writes` is the history of `writeContractAsync` calls, each with the
status the wallet, the chain and the receipt give it. `observed` is the one
wagmi's hooks report on. The effect on a receipt is two actions, its start
(`Receipt`) and what follows the awaited refetches (`Continue`), between which
the user may click. `mode` and the input field are not variables: the user may
change both before any click, so a click takes any mode and amount.

## Runs

| Run | Checks | Instance and why it is enough |
|---|---|---|
| `vault_core` | `TypeOK`, `SupplyIsSum`, `ClaimsCovered`, `MaxWithdrawBurnable`, `EstimateNearClaim`, `SharePriceNeverFalls`, `DepositLossBounded`, `ImplementsSharePool`, `OthersKept` | two accounts, three asset units, two virtual shares: prices such as 2/3 and 3/5 arise, so each rounding direction matters; 0 is among the asset amounts for the zero checks; a third party may spend an allowance of two shares, wholly or by one; a `RateScale` of 3 makes the roundings of the estimate as large as they get |
| `distributor` | `DistTypeOK`, `ExitAlwaysOpen`, `DistributeAllAvailable`, `RewardsOnlyToVault`, and under fairness `PauseCannotTrap`, `PendingRewardsReachVault` | an admin, an operator and the distributor; all three grants that matter can be granted, revoked and renounced in any order, also the admin's own while paused |
| `indexer_mirror` | `TypeOK`, `SnapshotNotOlderThanLabel`, `PositionWithinWindow`, `TablesAgreeWithSubgraph`, `PositionNotOverstated`, `ImplementsEventMirror`, `EventuallyIndexed` | a deposit, a withdrawal and a transfer, three blocks, ranges of two: a range can hold zero, one or two events, be cut at the head, fail once anywhere from the migration on and be cut by a crash; a request may fall between any two writes, and one holder has shares no table knows of |
| `indexer_reorg` | `StablePrefixExact`, `CatchesUp` | the same with a reorg of one or two blocks between any two calls, one fault and one crash |
| `indexer_detect` | `StaleInWindow`, `StaleIsSuspect`, and under fairness `StaleTrailResolved` | no events (the trail does not depend on them), a reorg of up to two blocks, one failed call, one crash, ranges of one block, and the window of four blocks that these make necessary (below); eight blocks, enough for a stale block to leave a window of three |
| `reorg_not_reprocessed`, `reorg_undetected_at_start`, `reorg_orphan_row` | *violations* of `Reprocessed`, `StaleTrailResolved`, `OrphanRowsGo` | one event, no faults and no crashes: the reorg alone is enough. In the first and the last the start block is at `ReorgDepth`, so that detection runs from the first saved block on, and the reorg stays within the window: neither the second finding nor a narrow window is the cause |
| `rewardbot` | `BotTypeOK`, `PaidOncePerTick`, `EachReportIsAReward`, `NoNonceGap`, and under fairness `SendsSettle` | three ticks, two jobs at a time, two base fees and two tips: equal, better and worse fees, one that exceeds the cap, and one that the higher base fee leaves waiting |
| `dry_run` | *violation* of `SimulationIsOfTheOperator` | the same in dry-run mode |
| `stakecard` | `TypeOK`, `OneDepositPerApproval`, and under fairness `PendingEnds`, `ApprovalContinued` | two amounts, three clicks: two approvals can overlap with a deposit or a redemption, be turned down, revert, be cancelled, and be confirmed in any order |
| `stakecard_stale` | *violation* of `OnlyApprovalsContinue` | as `stakecard` |

Named bounds: `MaxHeight`, `MaxReorgs`, `MaxReorgLen` (chain), `MaxFaults`,
`MaxCrashes` (indexer), `MaxTicks`, `Overlap`, `MaxBudget` (bot), `MaxClicks`
(form); in the
contracts the fixed supply of the asset bounds everything. The deployed virtual
offset is 10^6 and the deployed `ReorgDepth` 64; the runs use small values, for
which rounding and window effects are largest, and the proofs cover every offset.

`indexer_detect` holds because its window is wide enough for its faults:

    MaxReorgs * MaxReorgLen + (MaxReorgs + MaxFaults) * BlockBatch <= ReorgDepth

with a start block that is not below the window's depth. A reorg may overtake a
walk, which then sees it only from the middle on, or not at all; a walk may fail,
which is logged and nothing else. Each time the loop goes on to add a range of up
to `BlockBatch` blocks, and the window moves on by as many. The run has equality
there: with a `ReorgDepth` of three TLC finds a stale block that leaves the window
and is never compared again. The default settings (`BLOCK_BATCH` 1000,
`REORG_DEPTH` 64, `START_BLOCK` 0) do not fulfil the condition: while the indexer
is behind, one range is longer than the window. So `StaleInWindow` and
`StaleTrailResolved` describe what settings would have to be, and nothing is
proved from the condition. `StaleIsSuspect` holds for any settings: what is stale
was replaced since the last complete walk that had it in its window, or has been
below the window of every walk since. It is the invariant of this run that also
holds with the defaults, and the one that is proved (`IndexerStaleIsSuspect`).

Every property of a passing run has a mutant: a definition changed the way a
plausible bug would change it (the operators commented "mutant" in the modules),
for which TLC finds the property violated.

### Fairness

- `RewardDistributor!DistSpec`: weak fairness of `DistributeAll(Operator)` and of
  each staker's `emergencyWithdraw` of the whole balance (`PushFairness`,
  `ExitFairness`). These are users who
  keep submitting a transaction, not a scheduler of the code; nothing is assumed
  of the admin or of other users. The claim is that then nobody else can stop it.
- `Indexer!FairSpec` and `Detection!DetectSpec`: weak fairness of the process,
  whose loop never exits. The chain need not grow. Faults and crashes are finite,
  by their bounds.
  `Api!ApiSpec` has the same; requests need not come, nor be answered.
- `RewardBot!Spec`: strong fairness of `Mine`, the node including the operator's
  next transaction: weak fairness would let the base fee rise above the offer
  before each block. That fees ever come down is no assumption of the
  specification but the premise of `SendsSettle`. Nothing is assumed of the jobs,
  of their deadline or of the ticks.
- `StakeCard!Spec`: weak fairness of the chain executing what was sent, of the
  receipt of the observed write, and of the end of the effect's awaits. None of
  the user or of the wallet, which may leave a prompt open for ever.

### Findings

1. After a rewind the running indexer goes on from its old cursor, so the blocks
   of the new branch below it are not read until a restart
   (`reorg_not_reprocessed`).
2. While the saved block is below `ReorgDepth`, no detection runs
   (`reorg_undetected_at_start`).
3. A reorg between `eth_getLogs` and the headers leaves a row of the old branch
   under a trail of the new one, which no later detection can see
   (`reorg_orphan_row`).
4. The dry run simulates a call of the zero address, which has no role: it always
   reverts (`dry_run`).
5. The amount stashed before an approval stays when the approval is rejected or
   reverts, so the effect of any later transaction, a redemption as well, opens a
   prompt for that deposit (`stakecard_stale`): TLC's user turns down the prompt
   for an approval, redeems, and when the redemption is mined is asked for the
   deposit. `OneDepositPerApproval` shows what holds: it is asked for once.

Besides, `docs/security.md:68` says that a pause has a maximum duration enforced on
chain; `pause` in the vault has none. `PauseCannotTrap` shows what holds instead:
the pause never keeps a staker in. `docs/audit-checklist.md:23` lists "Pausable
applied to all entry points except emergency exit", which, read to the letter,
covers `distributeRewards` (StakingVault.sol:115) too; it has no `whenNotPaused`
and stays open while the vault is paused. `DistributeAllAvailable` and
`PendingRewardsReachVault` are about the code as it is: with `whenNotPaused` there,
the mutant of the first, a pause for good would hold the rewards in the
distributor.

## Proofs

All for arbitrary accounts, amounts, approvals, grants and `VirtualShares >= 1`,
under the `ASSUME`s of the modules (accounts are finite and do not include the
vault; amounts are natural numbers).

- `ArithmeticProofs`: each preview rounds against the caller, and
  `previewWithdraw(convertToAssets(s)) <= s`. A credit adds to the sum of the
  balances, a debit takes from it, a move leaves it alone, no balance exceeds
  it. The sum is the cardinality of a set with one element per token unit, so
  these are facts about unions and intersections and need no induction over the
  holders. `ScaledTotal`: if every balance of one ledger times `b` is at most
  that of another times `a`, so are the sums; the proof is an injection from the
  units of the one, `b` times each, into those of the other, `a` times each.
- `SharePoolProofs`: `PriceNeverFalls` for the abstract pool.
- `StakingVaultProofs`: the inductive invariant is `IInv == TypeOK /\
  SupplyIsSum`. `TypeOK` alone is not inductive: a burn takes from `totalSupply`
  what the owner's balance covers, and only because the supply is the sum of the
  balances does it stay a natural number. One lemma per group of operations
  shows that a step keeps `IInv` and is a join, a leave, a gift or a stutter of
  `SharePool` (`VaultStep`). From it follow `VaultTypeCorrect`,
  `VaultSupplyIsSum`, `VaultMaxWithdrawBurnable`, `VaultClaimsCovered` (with
  `ScaledTotal`), `VaultImplementsSharePool`, `VaultPriceNeverFalls` (through
  the pool's lemma) and `VaultDepositLossBounded`. `VaultEstimateNearClaim`
  needs one more invariant, `PriceFloor`: the supply is at most `VirtualShares *
  totalAssets`, as at the start, since the price never falls. Without it the
  estimate, which leaves the virtual shares out, could be too low by more than
  its roundings. `VaultExitUnobstructed`: every guard of `emergencyWithdraw`
  holds for every holder and every part of the balance, because the supply that
  prices the exit is at least the balance (`RedeemFits`). `ExitGuards` shows
  that there is no other guard: given `ExitUnobstructed`, the values the code
  assigns make a step of `EmergencyWithdraw`. `VaultOthersKept` is about what a
  transaction of one account does to the others (`Leaves`). Shares: one lemma per
  entry point says whose balance it debits, and that the allowance pays for it
  (`SharesTaken`) or the caller is the owner. Value: whatever balance is left to
  another account, it is worth as much after the step as before, because the
  price has not fallen and `convertToAssets` is monotone in it (`FloorMonotone`).
- `RewardDistributorProofs`: the vault's invariant with the distributor's types
  (`DInv`), and `DistRewardsOnlyToVault`. A step of either contract is a join, a
  leave, a gift or a stutter of `SharePool` (`DistStep`), so what was proved of
  the vault alone is proved of the two together: `DistImplementsSharePool`,
  `DistPriceNeverFalls`, `DistDepositLossBounded`, `DistVaultSafe`,
  `DistEstimateNearClaim`. The lemmas about states and single steps
  (`PriceKept`, `ClaimsFit`, `DepositStep`, `FloorStep`, ...) are those of
  `StakingVaultProofs`. `DistDistributeUnobstructed` needs one more invariant,
  that the approval of the vault stays unlimited: spending an unlimited
  allowance does not lower it, and no other operation of the distributor touches
  it. `DistributeGuards` shows that with the two grants these are all the
  guards. `DistOthersKept` carries `OthersKept` over, with the distributor as one
  of the others. `DistPauseCannotTrap` and `DistPendingRewardsReachVault` are the
  two liveness properties, from the invariants `ExitAlwaysOpen` and
  `DistributeAllAvailable`: a step of the action under fairness leaves no share,
  or nothing pending (`ExitAllEmpties`, `DistributeAllEmpties`), whatever
  happened before it, so that weak fairness is all the progress they need.
- `IndexerProofs`, for any chain, batch size, window, number of faults and
  crashes. `StablePrefixExact` speaks of the blocks below `minFork`, the lowest
  reorg so far. It is not inductive: a row may come from logs read long before,
  the saved block moves under a cursor that does not, a prune may cut anywhere.
  `IInv` adds three things. *Known*: what a row, a log in hand or a recorded
  hash says of a stable block is what the block says, and what it says of
  another height concerns no transaction of a stable block. *Covered*: the
  stable blocks up to the cursor and up to the saved block have all their rows;
  at each call, which part of the range in progress has them too. *Walk*: a
  recorded hash that differs is at `minFork` or above, so pruning takes no row
  of a stable block. Each database write and each outcome of a call is a lemma
  (`...Write`, `IterateStep`, `ExitStep`, ...), each action combines them. From
  `IInv` follow `IndexerTypeCorrect` and `IndexerStablePrefixExact`. With
  `MaxReorgs = 0`, `Growing` says that the head only grows: a range stays below
  it and the saved block is never ahead of the next range. From both follow
  `IndexerSnapshotNotOlder` and the refinement `IndexerImplementsEventMirror`.
- `IndexerStaleIsSuspect`, in the same module, of `DetectSpec`, with no condition
  on the settings: a recorded hash that is no longer canonical is never below
  `suspect`. The invariant is `DetectInv`. *Suspected* extends the claim to
  the heights that the range in progress has recorded but not saved (`Reached`),
  and says of a walk that what it has passed is canonical but for what a reorg
  replaced since the walk began (`fresh`). *Unrecorded* says where the trail is
  empty, the gap that a rewind leaves between the saved block and a cursor that
  does not move, so that the save which closes the gap brings no old hash with it.
  *Places* says where each loop variable can be. One lemma per action; a walk ends
  in `DetectScan` or `DetectPrune`, which show that whatever was stale when it
  began has been met, lies below the window, or is above the head.
- `ApiProofs`. `ApiRefinesIndexer`: requests change no variable of the indexer,
  so the theorems about `Indexer!Spec` hold of `ApiSpec`, the specification of
  `indexer_mirror`. `ApiTablesAgreeWithSubgraph` holds for any holders, transactions and share
  amounts, and with reorgs, failures and crashes, of every block up to the
  checkpoint and below the lowest reorg: what `StablePrefixExact` says of rows
  makes their sums equal to the subgraph's entity. `ApiPositionNotOverstated` and
  `ApiPositionWithinWindow` need `MaxReorgs = 0`, as in the run, because an answer
  counts all rows; findings 1 and 3 say what a reorg does to those above it. The
  first and the last also need `DeployedAtStart`: no event below `StartBlock`,
  which the code would skip on purpose; `ApiDefaultStart` shows that the default
  of 0, or the 1 of the run, gives it. `SUM(shares)` is a
  cardinality once more (`SharesOf`, one element per unit), which makes sums
  monotone and additive. The subgraph's entity is a fold over the chain;
  `FoldIsTotals` computes it with `SubsetInduction`, an induction over the
  subsets of a finite set that is itself derived from the well-founded order of
  their inclusion, so that no theorem with an operator parameter is needed.
  Without reorgs rows are only added; `ReadInv` bounds the sums of a request in
  progress by what the tables hold now, `SinceInv` from below by what was saved
  when it came. As deposits are read first, an answer may miss a deposit, never
  a withdrawal stored by the time of the second query.
- `RewardBotProofs`, for any number of ticks, overlap, fees and budget. The
  nonces in use are `0..Total-1`, the mined ones first (`Nonces`); `Total` is at
  most the number of jobs past the send (`Jobs`), which gives
  `BotPaidOncePerTick` and `BotNoNonceGap`; two jobs that follow the same nonce
  have different fees, because a replacement must raise them (`Receipts`), which
  gives `BotEachReportIsAReward`.
- `StakeCardProofs`, for any amounts and any number of clicks:
  `OneDepositPerApproval` is inductive with the types.

Only model-checked: ENABLED, about which the provers know nothing, and liveness
that needs an induction over a measure. So `ExitAlwaysOpen` and
`DistributeAllAvailable` are invariants TLC checks in `distributor`; their
first-order content is proved, as said above: every guard holds, and nothing else
guards the action. The theorems `DistPauseCannotTrap`
and `DistPendingRewardsReachVault` take such an invariant as their
hypothesis, so they prove all but that step. `EventuallyIndexed`, `CatchesUp`,
`StaleTrailResolved`, `SendsSettle`, `PendingEnds` and `ApprovalContinued` need
the measure and are left to TLC. So is `StaleInWindow`, whose condition the
defaults do not meet. With reorgs, what is proved concerns the blocks below them and
the trail; findings 1 and 3 show that the rows above are neither complete nor
free of orphans. No module uses a RECURSIVE operator.

## Not modelled

- Of the REST API: the list endpoints and `/tvl`, one query each that changes
  nothing (the row `/tvl` serves is `snapshot` of `Indexer`), and `/apr`, which
  computes with floating-point numbers over timestamps.
- Of the subgraph: the vault's daily metric and the copies of the events.
- Of the dApp: the components that only display, and a change of account or of
  network while a transaction is pending.
- Configuration, metrics, logging, ABI encoding: no state that the properties
  depend on.
- Reentrancy and fee-on-transfer or rebasing assets: the asset is a plain ERC20.
- The mock asset's open `mint`: the asset's supply is fixed, donations come from
  what the accounts own.
- uint256 overflow: Solidity 0.8 reverts, and the supply of the asset bounds every
  sum far below it.
- Of the node: a mempool that forgets what it accepted, and reorgs under the
  reward bot.

## Order of the work, and what is left

The contracts came first, because everything else mirrors them; then the indexer
and the reward bot; then the proofs about all three, the API with the subgraph
beside the indexer, and the form; then the proofs about the two contracts together,
reorg detection and the API; last, the liveness of the
contracts, and what transactions leave to others. Left:

1. A node that forgets what is in its mempool, or reorganises, under the reward
   bot: the code has no answer to either, so the properties would be weaker ones.
2. The composition of the contracts with the chain that the indexer reads, so that
   `Api`'s transactions are those of `StakingVault` and not any solvent ones.
3. The vault metric of the subgraph, once the contracts are the chain's source.
