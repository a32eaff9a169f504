--------------------------- MODULE RewardBotProofs ---------------------------
(***************************************************************************)
(* Proofs about RewardBot: the operator's nonces are used without a gap,   *)
(* there are never more of them than jobs that got past the send, and two  *)
(* jobs that wait for the same nonce wait for different transactions.      *)
(***************************************************************************)
EXTENDS RewardBot, FiniteSetTheorems, TLAPS

Types ==
    /\ job \in [Job -> [pc : {"idle"} \cup Running \cup Ended, fee : Fee, nonce : Nat]]
    /\ fired \in 0..MaxTicks
    /\ \A n \in DOMAIN pool : pool[n] \in Fee
    /\ \A n \in DOMAIN mined : mined[n] \in [fee : Fee, ok : BOOLEAN]
    /\ baseFee \in BaseFees
    /\ budget \in 0..MaxBudget

Pending == Cardinality(DOMAIN pool)
Total   == Mined + Pending

\* The mined nonces are the first ones, the pending ones follow.
Nonces ==
    /\ Mined \in Nat /\ Pending \in Nat
    /\ DOMAIN mined = 0..(Mined - 1)
    /\ DOMAIN pool = Mined..(Total - 1)

\* Jobs that may have sent their transaction: one for each nonce at least.
Past == {"wait"} \cup Ended
Sent == {j \in Job : job[j].pc \in Past}

Jobs ==
    /\ \A j \in Job : j > fired => job[j].pc = "idle"
    /\ Total <= Cardinality(Sent)
    /\ \A j \in Job : job[j].pc = "send" => job[j].nonce <= Total

\* A job that sent its transaction: where that may be by now.
Followed == {j \in Job : job[j].pc \in {"wait", "distributed"}}

Receipts ==
    /\ \A j \in Followed :
          /\ job[j].nonce < Total
          /\ job[j].nonce \in DOMAIN pool => job[j].fee.cap <= pool[job[j].nonce].cap
          /\ job[j].pc = "distributed" => /\ job[j].nonce \in DOMAIN mined
                                          /\ mined[job[j].nonce].fee = job[j].fee
                                          /\ mined[job[j].nonce].ok
    /\ \A i, j \in Followed :
          i # j /\ job[i].nonce = job[j].nonce => job[i].fee.cap # job[j].fee.cap

IInv == Types /\ Nonces /\ Jobs /\ Receipts

-----------------------------------------------------------------------------
\* Finitely many jobs are past the send.
LEMMA SentFinite == IsFiniteSet(Sent) /\ Cardinality(Sent) \in Nat
<1>1. IsFiniteSet(Job)
  BY FS_Interval, BotAssumption DEF Job
<1>2. Sent \in SUBSET Job
  BY DEF Sent
<1> QED
  BY <1>1, <1>2, FS_Subset, FS_CardinalityType

\* A nonce in use belongs to a job past the send, and only ticks that fired
\* have one.
LEMMA TotalBelowFired ==
  ASSUME IInv
  PROVE  Total \in Nat /\ Total <= fired /\ fired <= MaxTicks
<1>1. fired \in Nat /\ fired <= MaxTicks /\ Total \in Nat
  BY BotAssumption DEF IInv, Types, Nonces, Total
<1>2. Sent \in SUBSET (1..fired)
  BY <1>1, BotAssumption DEF IInv, Jobs, Sent, Past, Ended, Job
<1>3. IsFiniteSet(1..fired) /\ Cardinality(1..fired) = fired
  BY <1>1, FS_Interval
<1>4. Cardinality(Sent) <= fired
  BY <1>2, <1>3, FS_Subset
<1> QED
  BY <1>1, <1>4, SentFinite DEF IInv, Jobs

\* eth_getTransactionCount answers the first nonce that is not in use.
LEMMA PendingNonceIsTotal ==
  ASSUME Nonces
  PROVE  PendingNonce = Total
<1>1. Mined \in Nat /\ Pending \in Nat /\ DOMAIN pool = Mined..(Total - 1) /\ Total \in Nat
  BY DEF Nonces, Total
<1>2. \A n \in Mined..(Mined + Pending) :
         (n \notin DOMAIN pool /\ \A m \in Mined..(n - 1) : m \in DOMAIN pool) <=> n = Total
  BY <1>1 DEF Total
<1>3. Total \in Mined..(Mined + Pending)
  BY <1>1 DEF Total
<1>4. PendingNonce = CHOOSE n \in Mined..(Mined + Pending) : n = Total
  BY <1>2 DEF PendingNonce, Pending
<1> QED
  BY <1>3, <1>4

-----------------------------------------------------------------------------
(* A step of one job that sends nothing.                                   *)

\* The job may go on to the next call or end.
LEMMA JobStep ==
  ASSUME IInv, UNCHANGED <<pool, mined>>, NEW j \in Job,
         baseFee' \in BaseFees, budget' \in 0..MaxBudget, fired' \in fired..MaxTicks,
         job' \in [Job -> [pc : {"idle"} \cup Running \cup Ended, fee : Fee, nonce : Nat]],
         \A i \in Job : i # j => job'[i] = job[i],
         j <= fired',
         job[j].pc \in Past => job'[j].pc \in Past,
         job'[j].pc = "send" => job'[j].nonce = Total,
         job'[j].pc \in {"wait", "distributed"} =>
            /\ job[j].pc = "wait" /\ job'[j].fee = job[j].fee /\ job'[j].nonce = job[j].nonce
            /\ job'[j].pc = "distributed" => /\ job[j].nonce \in DOMAIN mined
                                             /\ mined[job[j].nonce].fee = job[j].fee
                                             /\ mined[job[j].nonce].ok
  PROVE  IInv'
<1>1. /\ Mined' = Mined /\ Pending' = Pending /\ Total' = Total /\ Total \in Nat
      /\ fired \in Nat /\ fired' \in Nat /\ fired' >= fired /\ fired' <= MaxTicks /\ MaxTicks \in Nat
  BY BotAssumption DEF Mined, Pending, Total, IInv, Nonces, Types
<1>2. Types'
  BY <1>1 DEF IInv, Types
<1>3. Nonces'
  BY <1>1 DEF IInv, Nonces
<1>4. Jobs'
  <2>1. \A i \in Job : i > fired' => job'[i].pc = "idle"
    BY <1>1 DEF IInv, Jobs, Job
  <2>2. Total <= Cardinality(Sent')
    <3>1. Sent \in SUBSET Sent'
      BY DEF Sent
    <3>2. IsFiniteSet(Sent') /\ Cardinality(Sent') \in Nat
      <4>1. IsFiniteSet(Job) /\ Sent' \in SUBSET Job
        BY FS_Interval, BotAssumption DEF Job, Sent
      <4> QED
        BY <4>1, FS_Subset, FS_CardinalityType
    <3>3. Cardinality(Sent) <= Cardinality(Sent')
      BY <3>1, <3>2, FS_Subset
    <3> QED
      BY <1>1, <3>2, <3>3, SentFinite DEF IInv, Jobs
  <2>3. \A i \in Job : job'[i].pc = "send" => job'[i].nonce <= Total
    BY <1>1 DEF IInv, Jobs
  <2> QED
    BY <1>1, <2>1, <2>2, <2>3 DEF Jobs
<1>5. Receipts'
  <2>1. \A i \in Job : job'[i].pc \in {"wait", "distributed"} =>
           i \in Followed /\ job'[i].fee = job[i].fee /\ job'[i].nonce = job[i].nonce
    BY DEF Followed
  <2>2. ASSUME NEW i \in Followed'
        PROVE  /\ job'[i].nonce < Total
               /\ job'[i].nonce \in DOMAIN pool => job'[i].fee.cap <= pool[job'[i].nonce].cap
               /\ job'[i].pc = "distributed" => /\ job'[i].nonce \in DOMAIN mined
                                                /\ mined[job'[i].nonce].fee = job'[i].fee
                                                /\ mined[job'[i].nonce].ok
    <3>1. i \in Job /\ job'[i].pc \in {"wait", "distributed"}
      BY DEF Followed
    <3> QED
      BY <2>1, <3>1 DEF IInv, Receipts
  <2>3. \A i, k \in Followed' :
          i # k /\ job'[i].nonce = job'[k].nonce => job'[i].fee.cap # job'[k].fee.cap
    <3>1. \A i \in Followed' : i \in Followed /\ job'[i].fee = job[i].fee /\ job'[i].nonce = job[i].nonce
      BY <2>1 DEF Followed
    <3> QED
      BY <3>1 DEF IInv, Receipts
  <2> QED
    BY <1>1, <2>2, <2>3 DEF Receipts
<1> QED
  BY <1>2, <1>3, <1>4, <1>5 DEF IInv

\* A job that goes to another call, or ends, with the rest of it unchanged.
LEMMA GotoStep ==
  ASSUME IInv, UNCHANGED <<pool, mined>>, NEW j \in Job, NEW label \in Running \cup Ended,
         baseFee' \in BaseFees, budget' \in 0..MaxBudget, fired' \in fired..MaxTicks,
         j <= fired', Goto(j, label), job[j].pc \notin Ended,
         label \notin {"send", "wait"},
         job[j].pc = "wait" => label \in Ended,
         label = "distributed" => /\ job[j].pc = "wait" /\ job[j].nonce \in DOMAIN mined
                                  /\ mined[job[j].nonce].fee = job[j].fee
                                  /\ mined[job[j].nonce].ok
  PROVE  IInv'
<1>1. /\ job' \in [Job -> [pc : {"idle"} \cup Running \cup Ended, fee : Fee, nonce : Nat]]
      /\ \A i \in Job : i # j => job'[i] = job[i]
      /\ job'[j].pc = label /\ job'[j].fee = job[j].fee /\ job'[j].nonce = job[j].nonce
  BY DEF Goto, IInv, Types
<1>2. job[j].pc \in Past => job'[j].pc \in Past
  BY <1>1 DEF Past
<1>3. job'[j].pc \in {"wait", "distributed"} => label = "distributed"
  BY <1>1
<1> QED
  BY <1>1, <1>2, <1>3, JobStep

\* A job that runs has been fired.
LEMMA FiredJob ==
  ASSUME IInv, NEW j \in Job, job[j].pc \in Running
  PROVE  j <= fired /\ fired \in fired..MaxTicks /\ job[j].pc \notin Ended
BY BotAssumption DEF IInv, Jobs, Types, Running, Ended, Job

\* The calls of a job that send nothing.
LEMMA CallStep ==
  ASSUME IInv, NEW j \in Job, Simulate(j) \/ EstimateGas(j) \/ SuggestFees(j) \/ PendingNonceAt(j) \/ WaitForReceipt(j)
  PROVE  IInv'
<1>1. UNCHANGED <<fired, baseFee, budget, mined, pool>> /\ job[j].pc \in Running
  BY DEF Simulate, EstimateGas, SuggestFees, PendingNonceAt, WaitForReceipt, At, Running
<1>2. /\ j <= fired /\ fired' \in fired..MaxTicks /\ job[j].pc \notin Ended
      /\ baseFee' \in BaseFees /\ budget' \in 0..MaxBudget
  BY <1>1, FiredJob DEF IInv, Types
<1>3. CASE \E label \in {"estimate", "fees", "reverted", "failed", "simulated"} :
              Goto(j, label) /\ job[j].pc # "wait"
  BY <1>1, <1>2, <1>3, GotoStep DEF Running, Ended
<1>4. CASE \E tip \in Tips :
              /\ 2 * baseFee + tip <= Cap
              /\ job' = [job EXCEPT ![j].pc = "nonce", ![j].fee = [cap |-> 2 * baseFee + tip, tip |-> tip]]
              /\ job[j].pc = "fees"
  <2>1. PICK tip \in Tips :
              /\ 2 * baseFee + tip <= Cap
              /\ job' = [job EXCEPT ![j].pc = "nonce", ![j].fee = [cap |-> 2 * baseFee + tip, tip |-> tip]]
              /\ job[j].pc = "fees"
    BY <1>4
  <2>2. [cap |-> 2 * baseFee + tip, tip |-> tip] \in Fee
    BY <2>1, BotAssumption DEF Fee, IInv, Types
  <2>3. /\ job' \in [Job -> [pc : {"idle"} \cup Running \cup Ended, fee : Fee, nonce : Nat]]
        /\ \A i \in Job : i # j => job'[i] = job[i]
        /\ job'[j].pc = "nonce"
    BY <2>1, <2>2 DEF IInv, Types, Running
  <2> QED
    BY <1>1, <1>2, <2>1, <2>3, JobStep DEF Past, Ended
<1>5. CASE PendingNonceAt(j)
  <2>1. Total \in Nat /\ PendingNonce = Total
    BY PendingNonceIsTotal, TotalBelowFired DEF IInv
  <2>2. job[j].pc = "nonce" /\ job' = [job EXCEPT ![j].pc = "send", ![j].nonce = Total]
    BY <1>5, <2>1 DEF PendingNonceAt, At
  <2>3. /\ job' \in [Job -> [pc : {"idle"} \cup Running \cup Ended, fee : Fee, nonce : Nat]]
        /\ \A i \in Job : i # j => job'[i] = job[i]
        /\ job'[j].pc = "send" /\ job'[j].nonce = Total
    BY <2>1, <2>2 DEF IInv, Types, Running
  <2> QED
    BY <1>1, <1>2, <2>2, <2>3, JobStep DEF Past, Ended
<1>6. CASE WaitForReceipt(j)
  <2>1. /\ job[j].pc = "wait" /\ job[j].nonce \in DOMAIN mined
        /\ mined[job[j].nonce].fee = job[j].fee
        /\ \/ mined[job[j].nonce].ok /\ Goto(j, "distributed")
           \/ Goto(j, "reverted")
    BY <1>6 DEF WaitForReceipt, At
  <2> QED
    BY <1>1, <1>2, <2>1, GotoStep DEF Running, Ended
<1>7. CASE Simulate(j) \/ EstimateGas(j)
  <2>1. \E label \in {"estimate", "fees", "reverted"} : Goto(j, label) /\ job[j].pc # "wait"
    BY <1>7 DEF Simulate, EstimateGas, At
  <2> QED
    BY <2>1, <1>3
<1>8. CASE SuggestFees(j)
  <2>1. PICK tip \in Tips :
           IF 2 * baseFee + tip > Cap THEN Goto(j, "failed")
           ELSE IF DryRun THEN Goto(j, "simulated")
           ELSE job' = [job EXCEPT ![j].pc = "nonce", ![j].fee = [cap |-> 2 * baseFee + tip, tip |-> tip]]
    BY <1>8 DEF SuggestFees
  <2>2. job[j].pc = "fees" /\ 2 * baseFee + tip \in Int /\ Cap \in Int
    BY <1>8, BotAssumption DEF SuggestFees, At, IInv, Types
  <2> QED
    BY <1>3, <1>4, <2>1, <2>2
<1> QED
  BY <1>5, <1>6, <1>7, <1>8

\* A job fails at any call, or runs out of time.
LEMMA AbortStep ==
  ASSUME IInv, NEW j \in Job, Abort(j)
  PROVE  IInv'
<1>1. UNCHANGED <<fired, pool, mined, baseFee, budget>> /\ job[j].pc \in Running /\ Goto(j, "failed")
  BY DEF Abort, Live
<1>2. /\ j <= fired' /\ fired' \in fired..MaxTicks /\ job[j].pc \notin Ended
      /\ baseFee' \in BaseFees /\ budget' \in 0..MaxBudget
  BY <1>1, FiredJob DEF IInv, Types
<1> QED
  BY <1>1, <1>2, GotoStep DEF Running, Ended

\* A job is started.
LEMMA TickStep ==
  ASSUME IInv, Tick
  PROVE  IInv'
<1>1. /\ fired \in Nat /\ fired < MaxTicks /\ fired' = fired + 1 /\ Goto(fired + 1, "simulate")
      /\ UNCHANGED <<pool, mined, baseFee, budget>> /\ MaxTicks \in Nat
  BY BotAssumption DEF Tick, IInv, Types
<1>2. /\ fired + 1 \in Job /\ job[fired + 1].pc = "idle" /\ fired' \in fired..MaxTicks
      /\ baseFee' \in BaseFees /\ budget' \in 0..MaxBudget
  BY <1>1 DEF IInv, Jobs, Job, Types
<1> QED
  BY <1>1, <1>2, GotoStep DEF Running, Ended

-----------------------------------------------------------------------------
\* The send: it is refused, takes the first free nonce, or replaces a pending
\* transaction by one with a higher fee, on which no other job waits.
LEMMA SendStep ==
  ASSUME IInv, NEW j \in Job, SendTransaction(j)
  PROVE  IInv'
<1>1. UNCHANGED <<fired, baseFee, budget, mined>> /\ job[j].pc = "send" /\ job[j].pc \in Running
  BY DEF SendTransaction, At, Running
<1>2. /\ j <= fired' /\ fired' \in fired..MaxTicks /\ job[j].pc \notin Ended
      /\ baseFee' \in BaseFees /\ budget' \in 0..MaxBudget
  BY <1>1, FiredJob DEF IInv, Types
<1>3. CASE Goto(j, "failed") /\ UNCHANGED pool
  BY <1>1, <1>2, <1>3, GotoStep DEF Running, Ended
<1>4. CASE /\ ~Refuses(job[j].nonce, job[j].fee)
           /\ Goto(j, "wait")
           /\ pool' = [n \in DOMAIN pool \cup {job[j].nonce} |->
                            IF n = job[j].nonce THEN job[j].fee ELSE pool[n]]
  <2> DEFINE n == job[j].nonce
             fee == job[j].fee
  <2>1. /\ job' \in [Job -> [pc : {"idle"} \cup Running \cup Ended, fee : Fee, nonce : Nat]]
        /\ \A i \in Job : i # j => job'[i] = job[i]
        /\ job'[j].pc = "wait" /\ job'[j].fee = fee /\ job'[j].nonce = n
        /\ n \in Nat /\ fee \in Fee
    BY <1>4 DEF Goto, IInv, Types, Running
  <2>2. /\ Mined \in Nat /\ Pending \in Nat /\ Total \in Nat /\ Total = Mined + Pending
        /\ DOMAIN mined = 0..(Mined - 1) /\ DOMAIN pool = Mined..(Total - 1)
        /\ n <= Total
    BY <1>1 DEF IInv, Nonces, Total, Jobs
  <2>3. /\ n \notin DOMAIN mined
        /\ n \in DOMAIN pool => fee.cap > pool[n].cap
    <3>1. n \in DOMAIN pool => pool[n].cap \in Int /\ fee.cap \in Int
      BY <2>1 DEF IInv, Types, Fee
    <3> QED
      BY <1>4, <3>1 DEF Refuses
  <2>4. n >= Mined
    BY <2>1, <2>2, <2>3
  <2>5. /\ DOMAIN pool' = DOMAIN pool \cup {n}
        /\ pool'[n] = fee
        /\ \A m \in DOMAIN pool : m # n => pool'[m] = pool[m]
    BY <1>4
  <2>6. Mined' = Mined
    BY <1>1 DEF Mined
  <2>7. /\ DOMAIN pool' = Mined..(Total' - 1) /\ Pending' \in Nat
        /\ Total' = IF n = Total THEN Total + 1 ELSE Total
    <3>1. CASE n = Total
      <4>1. DOMAIN pool' = Mined..Total
        BY <2>2, <2>5, <3>1
      <4>2. Pending' = Total - Mined + 1
        <5>1. Mined \in Int /\ Total \in Int /\ ~(Mined > Total)
          BY <2>2
        <5>2. Cardinality(Mined..Total) = Total - Mined + 1
          BY <5>1, FS_Interval
        <5> QED
          BY <4>1, <5>2 DEF Pending
      <4> QED
        BY <2>2, <2>6, <3>1, <4>1, <4>2 DEF Total
    <3>2. CASE n # Total
      <4>1. DOMAIN pool' = DOMAIN pool
        BY <2>1, <2>2, <2>4, <2>5, <3>2
      <4>2. Pending' = Pending
        BY <4>1 DEF Pending
      <4> QED
        BY <2>2, <2>6, <3>2, <4>1, <4>2 DEF Total
    <3> QED
      BY <3>1, <3>2
  <2> HIDE DEF n, fee
  <2>8. Types'
    BY <1>1, <1>2, <2>1, <2>5 DEF IInv, Types
  <2>9. Nonces'
    BY <1>1, <2>2, <2>6, <2>7 DEF Nonces
  <2>10. Jobs'
    <3>1. \A i \in Job : i > fired' => job'[i].pc = "idle"
      <4>1. fired \in Nat
        BY DEF IInv, Types
      <4> QED
        BY <1>1, <1>2, <2>1, <4>1 DEF IInv, Jobs, Job
    <3>2. Total' <= Cardinality(Sent')
      <4>1. j \notin Sent /\ Sent' = Sent \cup {j}
        BY <1>1, <2>1 DEF Sent, Past, Ended
      <4>2. Cardinality(Sent') = Cardinality(Sent) + 1
        BY <4>1, SentFinite, FS_AddElement
      <4> QED
        BY <2>2, <2>7, <4>2, SentFinite DEF IInv, Jobs
    <3>3. \A i \in Job : job'[i].pc = "send" => job'[i].nonce <= Total'
      <4>1. \A i \in Job : job[i].nonce \in Nat
        BY DEF IInv, Types
      <4> QED
        BY <2>1, <2>2, <2>7, <4>1 DEF IInv, Jobs
    <3> QED
      BY <3>1, <3>2, <3>3 DEF Jobs
  <2>11. Receipts'
    <3>0. \A i \in Followed' : i \in Job /\ i # j => i \in Followed /\ job'[i] = job[i]
      BY <2>1 DEF Followed
    <3>1. \A i \in Job : job[i].nonce \in Nat /\ job[i].fee.cap \in Nat
      BY BotAssumption DEF IInv, Types, Fee
    <3>2. ASSUME NEW i \in Followed'
          PROVE  /\ job'[i].nonce < Total'
                 /\ job'[i].nonce \in DOMAIN pool' => job'[i].fee.cap <= pool'[job'[i].nonce].cap
                 /\ job'[i].pc = "distributed" => /\ job'[i].nonce \in DOMAIN mined
                                                  /\ mined[job'[i].nonce].fee = job'[i].fee
                                                  /\ mined[job'[i].nonce].ok
      <4>1. CASE i = j
        <5>1. fee.cap <= pool'[n].cap
          BY <2>5, <3>1 DEF fee
        <5> QED
          BY <2>1, <2>2, <2>7, <4>1, <5>1
      <4>2. CASE i # j
        <5>1. i \in Followed /\ job'[i] = job[i] /\ i \in Job
          BY <3>0, <4>2 DEF Followed
        <5>2. /\ job[i].nonce < Total
              /\ job[i].nonce \in DOMAIN pool => job[i].fee.cap <= pool[job[i].nonce].cap
              /\ job[i].pc = "distributed" => /\ job[i].nonce \in DOMAIN mined
                                              /\ mined[job[i].nonce].fee = job[i].fee
                                              /\ mined[job[i].nonce].ok
          BY <5>1 DEF IInv, Receipts
        <5>3. ASSUME job[i].nonce \in DOMAIN pool'
              PROVE  job[i].fee.cap <= pool'[job[i].nonce].cap
          <6>1. job[i].nonce \in DOMAIN pool
            BY <2>2, <2>4, <2>5, <2>7, <3>1, <5>1, <5>2, <5>3
          <6>2. CASE job[i].nonce = n
            <7>1. fee.cap \in Nat /\ pool[n].cap \in Int /\ pool'[n].cap = fee.cap
              BY <2>1, <2>5, <6>1, <6>2, BotAssumption DEF IInv, Types, Fee
            <7> QED
              BY <2>3, <3>1, <5>1, <5>2, <6>1, <6>2, <7>1
          <6>3. CASE job[i].nonce # n
            BY <2>5, <5>2, <6>1, <6>3
          <6> QED
            BY <6>2, <6>3
        <5> QED
          BY <2>2, <2>7, <3>1, <5>1, <5>2, <5>3
      <4> QED
        BY <4>1, <4>2
    <3>3. ASSUME NEW i \in Followed, i # j, job[i].nonce = n
          PROVE  job[i].fee.cap # fee.cap
      <4>1. i \in Job /\ n < Total /\ (n \in DOMAIN pool => job[i].fee.cap <= pool[n].cap)
        BY <3>3 DEF IInv, Receipts, Followed
      <4>2. n \in DOMAIN pool
        BY <2>1, <2>2, <2>4, <4>1
      <4>3. pool[n].cap \in Int /\ fee.cap \in Int
        BY <2>1, <4>2 DEF IInv, Types, Fee
      <4> QED
        BY <2>3, <3>1, <4>1, <4>2, <4>3
    <3>4. ASSUME NEW i \in Followed', NEW k \in Followed', i # k, job'[i].nonce = job'[k].nonce
          PROVE  job'[i].fee.cap # job'[k].fee.cap
      <4>1. i \in Job /\ k \in Job
        BY DEF Followed
      <4>2. CASE i = j
        <5>1. k \in Followed /\ job'[k] = job[k]
          BY <3>0, <3>4, <4>1, <4>2
        <5> QED
          BY <2>1, <3>3, <3>4, <4>2, <5>1
      <4>3. CASE k = j
        <5>1. i \in Followed /\ job'[i] = job[i]
          BY <3>0, <3>4, <4>1, <4>3
        <5> QED
          BY <2>1, <3>3, <3>4, <4>3, <5>1
      <4>4. CASE i # j /\ k # j
        BY <3>0, <3>4, <4>1, <4>4 DEF IInv, Receipts
      <4> QED
        BY <4>2, <4>3, <4>4
    <3> QED
      BY <1>1, <3>2, <3>4 DEF Receipts
  <2> QED
    BY <2>8, <2>9, <2>10, <2>11 DEF IInv
<1> QED
  BY <1>3, <1>4 DEF SendTransaction

-----------------------------------------------------------------------------
\* The lowest pending nonce is mined.
LEMMA MineStep ==
  ASSUME IInv, Mine
  PROVE  IInv'
<1> DEFINE m == Mined
<1>1. /\ Mined \in DOMAIN pool
      /\ mined' = [n \in DOMAIN mined \cup {m} |->
                    IF n = m THEN [fee |-> pool[n], ok |-> budget > 0] ELSE mined[n]]
      /\ pool' = [n \in DOMAIN pool \ {m} |-> pool[n]]
      /\ budget' = (IF budget > 0 THEN budget - 1 ELSE 0)
      /\ UNCHANGED <<job, fired, baseFee>>
  BY DEF Mine
<1>2. /\ m \in Nat /\ Pending \in Nat /\ Total \in Nat /\ Total = m + Pending
      /\ DOMAIN mined = 0..(m - 1) /\ DOMAIN pool = m..(Total - 1) /\ m < Total
  BY <1>1 DEF IInv, Nonces, Total
<1> HIDE DEF m
<1>3. /\ DOMAIN mined' = 0..m /\ DOMAIN pool' = (m + 1)..(Total - 1)
      /\ \A n \in DOMAIN mined : mined'[n] = mined[n]
      /\ mined'[m] = [fee |-> pool[m], ok |-> budget > 0]
      /\ \A n \in DOMAIN pool' : pool'[n] = pool[n] /\ n \in DOMAIN pool
  <2>1. DOMAIN mined' = DOMAIN mined \cup {m} /\ DOMAIN pool' = DOMAIN pool \ {m}
    BY <1>1
  <2>2. DOMAIN mined' = 0..m /\ DOMAIN pool' = (m + 1)..(Total - 1)
    BY <1>2, <2>1
  <2> QED
    BY <1>1, <1>2, <2>1, <2>2
<1>4. Mined' = m + 1 /\ Pending' = Total - 1 - m /\ Total' = Total
  <2>1. Mined' = m + 1
    <3>1. Cardinality(0..m) = m + 1
      BY <1>2, FS_Interval
    <3> QED
      BY <1>3, <3>1 DEF Mined
  <2>2. Pending' = Total - 1 - m
    <3>1. m + 1 \in Int /\ Total - 1 \in Int
      BY <1>2
    <3>2. Cardinality((m + 1)..(Total - 1)) = IF m + 1 > Total - 1 THEN 0 ELSE (Total - 1) - (m + 1) + 1
      BY <3>1, FS_Interval
    <3>3. Cardinality((m + 1)..(Total - 1)) = Total - 1 - m
      BY <1>2, <3>2
    <3> QED
      BY <1>3, <3>3 DEF Pending
  <2> QED
    BY <1>2, <2>1, <2>2 DEF Total
<1>5. Types'
  <2>1. pool[m] \in Fee /\ budget \in 0..MaxBudget
    BY <1>1 DEF IInv, Types, m
  <2>2. [fee |-> pool[m], ok |-> budget > 0] \in [fee : Fee, ok : BOOLEAN]
    BY <2>1
  <2>3. \A n \in DOMAIN mined' : mined'[n] \in [fee : Fee, ok : BOOLEAN]
    <3>1. \A n \in DOMAIN mined' : n \in DOMAIN mined \/ n = m
      BY <1>2, <1>3
    <3>2. \A n \in DOMAIN mined : mined'[n] \in [fee : Fee, ok : BOOLEAN]
      BY <1>3 DEF IInv, Types
    <3> QED
      BY <1>3, <2>2, <3>1, <3>2
  <2>4. budget' \in 0..MaxBudget
    BY <1>1, <2>1, BotAssumption
  <2> QED
    BY <1>1, <1>3, <2>3, <2>4 DEF IInv, Types
<1>6. Nonces'
  BY <1>2, <1>3, <1>4 DEF Nonces
<1>7. Jobs'
  BY <1>1, <1>4 DEF IInv, Jobs, Sent
<1>8. Receipts'
  BY <1>1, <1>2, <1>3, <1>4 DEF IInv, Receipts, Followed
<1> QED
  BY <1>5, <1>6, <1>7, <1>8 DEF IInv

\* Steps of the market only.
LEMMA QuietStep ==
  ASSUME IInv, UNCHANGED <<job, fired, pool, mined>>, baseFee' \in BaseFees, budget' \in 0..MaxBudget
  PROVE  IInv'
<1>1. Mined' = Mined /\ Pending' = Pending /\ Total' = Total /\ Sent' = Sent /\ Followed' = Followed
  BY DEF Mined, Pending, Total, Sent, Followed
<1> QED
  BY <1>1 DEF IInv, Types, Nonces, Jobs, Receipts

\* Nothing is sent at the start.
LEMMA InitIInv == Init => IInv
<1> SUFFICES ASSUME Init
             PROVE  IInv
  OBVIOUS
<1>1. DOMAIN mined = {} /\ DOMAIN pool = {} /\ fired = 0
  BY DEF Init
<1>2. Mined = 0 /\ Pending = 0 /\ Total = 0
  BY <1>1, FS_EmptySet DEF Mined, Pending, Total
<1>3. Types
  <2>1. NoFee \in Fee
    BY BotAssumption DEF NoFee, Fee
  <2> QED
    BY <1>1, <2>1, BotAssumption DEF Init, Types
<1>4. Nonces
  BY <1>1, <1>2 DEF Nonces
<1>5. Jobs
  BY <1>2, SentFinite DEF Init, Jobs
<1>6. Receipts
  BY DEF Init, Receipts, Followed
<1> QED
  BY <1>3, <1>4, <1>5, <1>6 DEF IInv

\* The invariant of the bot: nonces without a gap, as many as jobs past the
\* send at most, each job waiting for a transaction of its own.
THEOREM BotInvariant == Spec => []IInv
<1>1. ASSUME IInv, [Next]_vars
      PROVE  IInv'
  <2>1. CASE Tick
    BY <1>1, <2>1, TickStep
  <2>2. CASE \E j \in Job : Call(j) \/ Abort(j)
    BY <1>1, <2>2, CallStep, SendStep, AbortStep DEF Call
  <2>3. CASE Mine
    BY <1>1, <2>3, MineStep
  <2>4. CASE Market
    BY <1>1, <2>4, QuietStep DEF Market
  <2>5. CASE UNCHANGED vars
    BY <1>1, <2>5, QuietStep DEF vars, IInv, Types
  <2> QED
    BY <1>1, <2>1, <2>2, <2>3, <2>4, <2>5 DEF Next
<1> QED
  BY <1>1, InitIInv, PTL DEF Spec

\* The variables of bot and node keep their types.
THEOREM BotTypeCorrect == Spec => []BotTypeOK
<1>1. ASSUME IInv
      PROVE  BotTypeOK
  <2>1. /\ Total \in Nat /\ Total <= MaxTicks /\ MaxTicks \in Nat
        /\ Mined \in Nat /\ Pending \in Nat /\ Total = Mined + Pending
        /\ DOMAIN mined = 0..(Mined - 1) /\ DOMAIN pool = Mined..(Total - 1)
    BY <1>1, TotalBelowFired, BotAssumption DEF IInv, Nonces, Total, Types
  <2>2. DOMAIN pool \subseteq 0..(MaxTicks - 1) /\ DOMAIN mined \subseteq 0..(MaxTicks - 1)
    BY <2>1
  <2> QED
    BY <1>1, <2>2 DEF IInv, Types, BotTypeOK
<1> QED
  BY <1>1, BotInvariant, PTL

\* A tick pays one reward at most, whatever fails, for any number of
\* ticks and of jobs that overlap.
THEOREM BotPaidOncePerTick == Spec => []PaidOncePerTick
<1>1. ASSUME IInv
      PROVE  PaidOncePerTick
  <2>1. Mined \in Nat /\ Pending \in Nat /\ Total = Mined + Pending /\ DOMAIN mined = 0..(Mined - 1)
    BY <1>1 DEF IInv, Nonces, Total
  <2>2. IsFiniteSet(DOMAIN mined)
    BY <2>1, FS_Interval
  <2>3. Cardinality(Paid) \in Nat /\ Cardinality(Paid) <= Mined
    <3>1. Paid \in SUBSET DOMAIN mined
      BY DEF Paid
    <3> QED
      BY <2>2, <3>1, FS_Subset, FS_CardinalityType DEF Mined
  <2> QED
    BY <1>1, <2>1, <2>3, TotalBelowFired DEF PaidOncePerTick, IInv, Types
<1> QED
  BY <1>1, BotInvariant, PTL

\* Ticks that report a reward report different rewards that were paid.
THEOREM BotEachReportIsAReward == Spec => []EachReportIsAReward
<1>1. ASSUME IInv
      PROVE  EachReportIsAReward
  <2>1. \A j \in Distributed : j \in Followed
    BY DEF Distributed, Followed
  <2>2. \A j \in Distributed : job[j].nonce \in Paid /\ mined[job[j].nonce].fee = job[j].fee
    BY <1>1, <2>1 DEF IInv, Receipts, Distributed, Paid
  <2>3. \A i, j \in Distributed : i # j => job[i].nonce # job[j].nonce
    BY <1>1, <2>1, <2>2 DEF IInv, Receipts
  <2> QED
    BY <2>2, <2>3 DEF EachReportIsAReward
<1> QED
  BY <1>1, BotInvariant, PTL

\* No pending transaction waits for a nonce nobody will use.
THEOREM BotNoNonceGap == Spec => []NoNonceGap
<1>1. IInv => NoNonceGap
  BY DEF IInv, Nonces, NoNonceGap, Total, Pending
<1> QED
  BY <1>1, BotInvariant, PTL
=============================================================================
