----------------------------- MODULE RewardBot -----------------------------
(***************************************************************************)
(* backend/cmd/rewardbot with chain.TxSender: a cron job that simulates,   *)
(* prices, signs, sends and awaits one distributeRewards transaction per   *)
(* tick, one action per RPC call.  Jobs overlap when the schedule is       *)
(* shorter than a job, which its two-minute context bounds.  The node with *)
(* its mempool, the base fee and the operator's funds are the environment. *)
(***************************************************************************)
EXTENDS Integers, FiniteSets

CONSTANTS
    MaxTicks,           \* bound on the number of cron ticks
    Overlap,            \* jobs that may run at the same time
    BaseFees, Tips,     \* what the node may answer
    Cap,                \* MaxGasGwei
    MaxBudget,          \* bound on the rewards the operator can pay for
    DryRun

ASSUME BotAssumption ==
    /\ MaxTicks \in Nat
    /\ Overlap \in Nat \ {0}
    /\ BaseFees \subseteq Nat /\ BaseFees # {}
    /\ Tips \subseteq Nat
    /\ Cap \in Nat
    /\ MaxBudget \in Nat
    /\ DryRun \in BOOLEAN

VARIABLES
    job,        \* the job of each tick
    fired,      \* number of ticks so far
    pool,       \* the operator's pending transactions, by nonce
    mined,      \* the operator's mined transactions, by nonce, with status
    baseFee,
    budget      \* rewards the operator's role, balance and allowance cover

vars == <<job, fired, pool, mined, baseFee, budget>>

Job == 1..MaxTicks

\* The calldata is the same at every tick: a transaction is known by nonce
\* and fees.
Fee == [cap : 0..Cap, tip : Tips \cup {0}]
NoFee == [cap |-> 0, tip |-> 0]

Running == {"simulate", "estimate", "fees", "nonce", "send", "wait"}
Ended   == {"distributed", "simulated", "reverted", "failed"}

BotTypeOK ==
    /\ job \in [Job -> [pc : {"idle"} \cup Running \cup Ended, fee : Fee, nonce : Nat]]
    /\ fired \in 0..MaxTicks
    /\ DOMAIN pool \subseteq 0..(MaxTicks - 1)
    /\ \A n \in DOMAIN pool : pool[n] \in Fee
    /\ DOMAIN mined \subseteq 0..(MaxTicks - 1)
    /\ \A n \in DOMAIN mined : mined[n] \in [fee : Fee, ok : BOOLEAN]
    /\ baseFee \in BaseFees
    /\ budget \in 0..MaxBudget

Init ==
    /\ job = [j \in Job |-> [pc |-> "idle", fee |-> NoFee, nonce |-> 0]]
    /\ fired = 0
    /\ pool = [n \in {} |-> NoFee]
    /\ mined = [n \in {} |-> [fee |-> NoFee, ok |-> FALSE]]
    /\ baseFee \in BaseFees
    /\ budget \in 0..MaxBudget

-----------------------------------------------------------------------------
(* The node's answers.                                                     *)

\* The operator's nonces are used from 0 on: how many are mined, and the
\* first that is neither mined nor pending.
Mined == Cardinality(DOMAIN mined)
PendingNonce == CHOOSE n \in Mined..(Mined + Cardinality(DOMAIN pool)) :
                    /\ n \notin DOMAIN pool
                    /\ \A m \in Mined..(n - 1) : m \in DOMAIN pool

\* eth_call and eth_estimateGas run distributeRewards for the signer; the
\* dry-run signer's address is zero, which has neither role nor funds.
CallSucceeds == ~DryRun /\ budget > 0

\* eth_sendRawTransaction refuses a used nonce, a known transaction, and a
\* replacement that does not raise both fees.
Refuses(nonce, fee) ==
    \/ nonce \in DOMAIN mined
    \/ /\ nonce \in DOMAIN pool
       /\ fee.cap <= pool[nonce].cap \/ fee.tip <= pool[nonce].tip

-----------------------------------------------------------------------------
(* The job.                                                                *)

At(j, label) == job[j].pc = label /\ UNCHANGED <<fired, baseFee, budget, mined>>
Goto(j, label) == job' = [job EXCEPT ![j].pc = label]

Live == {j \in Job : job[j].pc \in Running}

\* cron starts every job in a goroutine of its own.
Tick ==
    /\ fired < MaxTicks
    /\ Cardinality(Live) < Overlap
    /\ fired' = fired + 1
    /\ Goto(fired + 1, "simulate")
    /\ UNCHANGED <<pool, mined, baseFee, budget>>

Simulate(j) ==
    /\ At(j, "simulate")
    /\ Goto(j, IF CallSucceeds THEN "estimate" ELSE "reverted")
    /\ UNCHANGED pool

EstimateGas(j) ==
    /\ At(j, "estimate")
    /\ Goto(j, IF CallSucceeds THEN "fees" ELSE "reverted")
    /\ UNCHANGED pool

SuggestFees_NoCap(j) ==     \* mutant: the cap is not looked at
    /\ At(j, "fees")
    /\ \E tip \in Tips :
        IF DryRun THEN Goto(j, "simulated")
        ELSE job' = [job EXCEPT ![j].pc = "nonce",
                                ![j].fee = [cap |-> 2 * baseFee + tip, tip |-> tip]]
    /\ UNCHANGED pool

\* maxFee = 2 * baseFee + tip, within the cap.
SuggestFees(j) ==
    /\ At(j, "fees")
    /\ \E tip \in Tips :
        LET maxFee == 2 * baseFee + tip
        IN  IF maxFee > Cap THEN Goto(j, "failed")
            ELSE IF DryRun THEN Goto(j, "simulated")
            ELSE job' = [job EXCEPT ![j].pc = "nonce", ![j].fee = [cap |-> maxFee, tip |-> tip]]
    /\ UNCHANGED pool

PendingNonceAt_PerTick(j) ==     \* mutant: a nonce counted by the bot
    /\ At(j, "nonce")
    /\ job' = [job EXCEPT ![j].pc = "send", ![j].nonce = j - 1]
    /\ UNCHANGED pool

PendingNonceAt(j) ==
    /\ At(j, "nonce")
    /\ job' = [job EXCEPT ![j].pc = "send", ![j].nonce = PendingNonce]
    /\ UNCHANGED pool

SendTransaction_KnownIsSent(j) ==     \* mutant: "already known" is no error
    /\ At(j, "send")
    /\ IF Refuses(job[j].nonce, job[j].fee)
         THEN /\ Goto(j, IF job[j].nonce \in DOMAIN pool /\ pool[job[j].nonce] = job[j].fee
                           THEN "wait" ELSE "failed")
              /\ UNCHANGED pool
         ELSE /\ Goto(j, "wait")
              /\ pool' = [n \in DOMAIN pool \cup {job[j].nonce} |->
                            IF n = job[j].nonce THEN job[j].fee ELSE pool[n]]

\* Signed and sent once; an answer that is lost is an Abort after it.
SendTransaction(j) ==
    /\ At(j, "send")
    /\ IF Refuses(job[j].nonce, job[j].fee)
         THEN Goto(j, "failed") /\ UNCHANGED pool
         ELSE /\ Goto(j, "wait")
              /\ pool' = [n \in DOMAIN pool \cup {job[j].nonce} |->
                            IF n = job[j].nonce THEN job[j].fee ELSE pool[n]]

\* WaitForReceipt polls until there is a receipt for the hash it sent.
WaitForReceipt(j) ==
    /\ At(j, "wait")
    /\ job[j].nonce \in DOMAIN mined
    /\ mined[job[j].nonce].fee = job[j].fee
    /\ Goto(j, IF mined[job[j].nonce].ok THEN "distributed" ELSE "reverted")
    /\ UNCHANGED pool

Abort_Retries(j) ==     \* mutant: a tick that failed after sending is repeated
    /\ j \in Live
    /\ Goto(j, IF job[j].pc = "wait" THEN "nonce" ELSE "failed")
    /\ UNCHANGED <<fired, pool, mined, baseFee, budget>>

\* Any call may fail, and the context ends after two minutes or at SIGTERM;
\* a crash is an Abort of every live job.
Abort(j) ==
    /\ j \in Live
    /\ Goto(j, "failed")
    /\ UNCHANGED <<fired, pool, mined, baseFee, budget>>

Call(j) ==
    \/ Simulate(j) \/ EstimateGas(j) \/ SuggestFees(j) \/ PendingNonceAt(j)
    \/ SendTransaction(j) \/ WaitForReceipt(j)

-----------------------------------------------------------------------------
(* The chain: blocks take the lowest nonce if it pays the base fee, and    *)
(* distributeRewards reverts when the operator cannot pay.                 *)

Mine ==
    /\ Mined \in DOMAIN pool
    /\ pool[Mined].cap >= baseFee
    /\ mined' = [n \in DOMAIN mined \cup {Mined} |->
                    IF n = Mined THEN [fee |-> pool[n], ok |-> budget > 0] ELSE mined[n]]
    /\ pool' = [n \in DOMAIN pool \ {Mined} |-> pool[n]]
    /\ budget' = IF budget > 0 THEN budget - 1 ELSE 0
    /\ UNCHANGED <<job, fired, baseFee>>

\* Other blocks move the base fee; others fund, spend or revoke.
Market ==
    /\ baseFee' \in BaseFees
    /\ budget' \in 0..MaxBudget
    /\ UNCHANGED <<job, fired, pool, mined>>

Next ==
    \/ Tick
    \/ \E j \in Job : Call(j) \/ Abort(j)
    \/ Mine
    \/ Market

\* A network in which blocks come again and again at which the operator's
\* next transaction pays mines it.
Spec == Init /\ [][Next]_vars /\ SF_vars(Mine)
-----------------------------------------------------------------------------
(* Properties.                                                             *)

\* A tick pays at most one reward, whatever fails: a send that was reported
\* as failed but mined is not repeated.
Paid == {n \in DOMAIN mined : mined[n].ok}
PaidOncePerTick == Cardinality(Paid) <= fired

\* Two ticks that log "reward distributed" saw two rewards paid.
Distributed == {j \in Job : job[j].pc = "distributed"}
EachReportIsAReward ==
    /\ \A j \in Distributed : job[j].nonce \in Paid
    /\ \A i, j \in Distributed : i # j => job[i].nonce # job[j].nonce

\* The pending transactions have consecutive nonces: none waits for a nonce
\* that a failed tick took and never used.
NoNonceGap == DOMAIN pool = Mined..(Mined + Cardinality(DOMAIN pool) - 1)

\* If fees come down again and again, every nonce that a job sent a
\* transaction for is mined, with that transaction or a replacement, however
\* the job itself ends: the operator's account is never stuck behind a
\* transaction that nothing will mine.
LowestFee == \A fee \in BaseFees : baseFee <= fee
SentIsMined(j) == job[j].pc = "wait" ~> job[j].nonce \in DOMAIN mined
SendsSettle == []<>LowestFee => \A j \in Job : SentIsMined(j)

\* "dry-run mode where transactions are only simulated" (signer.go): the
\* simulation of a tick reverts only if the operator could not pay for it.
SimulationIsOfTheOperator ==
    [][\A j \in Job : job[j].pc = "simulate" /\ job'[j].pc = "reverted" => budget = 0]_vars
=============================================================================
