--------------------------- MODULE StakeCardProofs ---------------------------
(***************************************************************************)
(* Proofs about StakeCard: its types, and OneDepositPerApproval, which is  *)
(* inductive by itself, since a deposit the effect sends uses up the stash *)
(* and the stash is filled by a click on Approve only.                     *)
(***************************************************************************)
EXTENDS StakeCard, FiniteSetTheorems, TLAPS

\* The history of the writes is only appended to; their status may change.
LEMMA AskEffect ==
  ASSUME TypeOK, NEW call \in {"approve", "deposit", "redeem"}, NEW amount \in Amounts,
         NEW cause \in Nat, Ask(call, amount, cause)
  PROVE  /\ writes' \in Seq(Write) /\ Len(writes') = Len(writes) + 1
         /\ DOMAIN writes' = DOMAIN writes \cup {Len(writes) + 1}
         /\ Len(writes) + 1 \notin DOMAIN writes
         /\ \A i \in DOMAIN writes : writes'[i] = writes[i]
         /\ writes'[Len(writes) + 1].call = call /\ writes'[Len(writes) + 1].amount = amount
         /\ writes'[Len(writes) + 1].cause = cause
         /\ observed' \in 0..Len(writes')
<1> DEFINE w == [call |-> call, amount |-> amount, status |-> "open", cause |-> cause]
<1>1. writes' = Append(writes, w) /\ observed' = Len(writes')
  BY DEF Ask
<1>2. w \in Write /\ w.call = call /\ w.amount = amount /\ w.cause = cause
  BY DEF Write, Status
<1>3. writes \in Seq(Write) /\ Len(writes) \in Nat /\ DOMAIN writes = 1..Len(writes)
  BY DEF TypeOK
<1> HIDE DEF w
<1>4. /\ writes' \in Seq(Write) /\ Len(writes') = Len(writes) + 1
      /\ writes'[Len(writes) + 1] = w
      /\ \A i \in 1..Len(writes) : writes'[i] = writes[i]
  BY <1>1, <1>2, <1>3
<1>5. DOMAIN writes' = 1..(Len(writes) + 1)
  BY <1>3, <1>4
<1> QED
  BY <1>1, <1>2, <1>3, <1>4, <1>5

\* What the wallet, the chain and the receipt change is a status.
LEMMA SetStatusEffect ==
  ASSUME TypeOK, NEW i \in DOMAIN writes, NEW status \in Status, SetStatus(i, status)
  PROVE  /\ writes' \in Seq(Write) /\ Len(writes') = Len(writes) /\ DOMAIN writes' = DOMAIN writes
         /\ \A k \in DOMAIN writes : /\ writes'[k].call = writes[k].call
                                     /\ writes'[k].amount = writes[k].amount
                                     /\ writes'[k].cause = writes[k].cause
<1>1. /\ writes \in Seq(Write) /\ Len(writes) \in Nat /\ DOMAIN writes = 1..Len(writes)
      /\ \A k \in DOMAIN writes : writes[k] \in Write
  BY DEF TypeOK
<1>2. writes' = [writes EXCEPT ![i] = [writes[i] EXCEPT !.status = status]]
  BY DEF SetStatus
<1>3. /\ [writes[i] EXCEPT !.status = status] \in Write
      /\ [writes[i] EXCEPT !.status = status].call = writes[i].call
      /\ [writes[i] EXCEPT !.status = status].amount = writes[i].amount
      /\ [writes[i] EXCEPT !.status = status].cause = writes[i].cause
  BY <1>1 DEF Write
<1> QED
  BY <1>1, <1>2, <1>3

\* What was sent stays in the history of the writes.
LEMMA SeqGrows ==
  ASSUME NEW s, NEW m \in Nat, NEW n \in Nat, m <= n, s \in Seq(1..m)
  PROVE  s \in Seq(1..n)
<1>1. Len(s) \in Nat /\ DOMAIN s = 1..Len(s) /\ \A i \in 1..Len(s) : s[i] \in 1..m
  OBVIOUS
<1> QED
  BY <1>1

-----------------------------------------------------------------------------
\* The property, for one amount.
Owed(n) == Cardinality(AutoDeposits(n)) + (IF stash = n THEN 1 ELSE 0) <= Cardinality(Approvals(n))

\* Finitely many writes.
LEMMA SetsFinite ==
  ASSUME TypeOK, NEW n
  PROVE  /\ IsFiniteSet(AutoDeposits(n)) /\ IsFiniteSet(Approvals(n))
         /\ Cardinality(AutoDeposits(n)) \in Nat /\ Cardinality(Approvals(n)) \in Nat
<1>1. IsFiniteSet(DOMAIN writes)
  <2>1. Len(writes) \in Nat /\ DOMAIN writes = 1..Len(writes)
    BY DEF TypeOK
  <2> QED
    BY <2>1, FS_Interval
<1>2. AutoDeposits(n) \in SUBSET DOMAIN writes /\ Approvals(n) \in SUBSET DOMAIN writes
  BY DEF AutoDeposits, Approvals, Clicks
<1> QED
  BY <1>1, <1>2, FS_Subset, FS_CardinalityType

\* Steps that ask for nothing and stash nothing new.
LEMMA QuietStep ==
  ASSUME TypeOK, OneDepositPerApproval, stash' = stash,
         DOMAIN writes' = DOMAIN writes,
         \A k \in DOMAIN writes : /\ writes'[k].call = writes[k].call
                                  /\ writes'[k].amount = writes[k].amount
                                  /\ writes'[k].cause = writes[k].cause
  PROVE  OneDepositPerApproval'
<1>1. Clicks' = Clicks
  BY DEF Clicks
<1>2. \A n \in Amounts : AutoDeposits(n)' = AutoDeposits(n) /\ Approvals(n)' = Approvals(n)
  BY <1>1 DEF AutoDeposits, Approvals, Clicks
<1> QED
  BY <1>2 DEF OneDepositPerApproval

\* A write that is asked for.
LEMMA AskSets ==
  ASSUME TypeOK, NEW call \in {"approve", "deposit", "redeem"}, NEW amount \in Amounts,
         NEW cause \in Nat, Ask(call, amount, cause), NEW n \in Amounts
  PROVE  /\ AutoDeposits(n)' = IF cause # 0 /\ amount = n THEN AutoDeposits(n) \cup {Len(writes) + 1}
                                                          ELSE AutoDeposits(n)
         /\ Approvals(n)' = IF cause = 0 /\ call = "approve" /\ amount = n
                              THEN Approvals(n) \cup {Len(writes) + 1} ELSE Approvals(n)
         /\ Len(writes) + 1 \notin AutoDeposits(n) /\ Len(writes) + 1 \notin Approvals(n)
<1> DEFINE new == Len(writes) + 1
<1>1. /\ DOMAIN writes' = DOMAIN writes \cup {new} /\ new \notin DOMAIN writes
      /\ \A i \in DOMAIN writes : writes'[i] = writes[i]
      /\ writes'[new].call = call /\ writes'[new].amount = amount /\ writes'[new].cause = cause
  BY AskEffect
<1> HIDE DEF new
<1>2. Clicks' = IF cause = 0 THEN Clicks \cup {new} ELSE Clicks
  BY <1>1 DEF Clicks
<1>3. AutoDeposits(n)' = IF cause # 0 /\ amount = n THEN AutoDeposits(n) \cup {new} ELSE AutoDeposits(n)
  BY <1>1, <1>2 DEF AutoDeposits, Clicks
<1>4. Approvals(n)' = IF cause = 0 /\ call = "approve" /\ amount = n THEN Approvals(n) \cup {new} ELSE Approvals(n)
  BY <1>1, <1>2 DEF Approvals, Clicks
<1>5. new \notin AutoDeposits(n) /\ new \notin Approvals(n)
  BY <1>1 DEF AutoDeposits, Approvals, Clicks
<1> QED
  BY <1>3, <1>4, <1>5 DEF new

\* A click on Approve, one on Deposit or Unstake, and the effect.
LEMMA ClickStep ==
  ASSUME TypeOK, OneDepositPerApproval, NEW call \in {"approve", "deposit", "redeem"},
         NEW amount \in Amounts, Ask(call, amount, 0),
         stash' = stash \/ (call = "approve" /\ stash' = amount)
  PROVE  OneDepositPerApproval'
<1> SUFFICES ASSUME NEW n \in Amounts
             PROVE  Owed(n)'
  BY DEF OneDepositPerApproval, Owed
<1>1. Owed(n)
  BY DEF OneDepositPerApproval, Owed
<1>2. AutoDeposits(n)' = AutoDeposits(n)
  BY AskSets
<1>3. /\ Cardinality(AutoDeposits(n)) \in Nat /\ Cardinality(Approvals(n)) \in Nat
      /\ IsFiniteSet(Approvals(n))
  BY SetsFinite
<1>4. CASE call = "approve" /\ amount = n
  <2>1. Approvals(n)' = Approvals(n) \cup {Len(writes) + 1} /\ Len(writes) + 1 \notin Approvals(n)
    BY <1>4, AskSets
  <2>2. Cardinality(Approvals(n)') = Cardinality(Approvals(n)) + 1
    BY <1>3, <2>1, FS_AddElement
  <2> QED
    BY <1>1, <1>2, <1>3, <2>2 DEF Owed
<1>5. CASE ~(call = "approve" /\ amount = n)
  <2>1. Approvals(n)' = Approvals(n)
    BY <1>5, AskSets
  <2>2. stash' = n => stash = n
    BY <1>5
  <2> QED
    BY <1>1, <1>2, <1>3, <2>1, <2>2 DEF Owed
<1> QED
  BY <1>4, <1>5

\* The effect sends the stashed deposit, and the stash is gone.
LEMMA EffectStep ==
  ASSUME TypeOK, OneDepositPerApproval, NEW cause \in Nat, cause # 0, stash # 0,
         Ask("deposit", stash, cause), stash' = 0
  PROVE  OneDepositPerApproval'
<1> SUFFICES ASSUME NEW n \in Amounts
             PROVE  Owed(n)'
  BY DEF OneDepositPerApproval, Owed
<1>0. stash \in Amounts /\ n # 0
  BY StakeCardAssumption DEF TypeOK
<1>1. Owed(n)
  BY DEF OneDepositPerApproval, Owed
<1>2. Approvals(n)' = Approvals(n)
  BY <1>0, AskSets
<1>3. /\ Cardinality(AutoDeposits(n)) \in Nat /\ Cardinality(Approvals(n)) \in Nat
      /\ IsFiniteSet(AutoDeposits(n))
  BY SetsFinite
<1>4. CASE stash = n
  <2>1. AutoDeposits(n)' = AutoDeposits(n) \cup {Len(writes) + 1} /\ Len(writes) + 1 \notin AutoDeposits(n)
    BY <1>0, <1>4, AskSets
  <2>2. Cardinality(AutoDeposits(n)') = Cardinality(AutoDeposits(n)) + 1
    BY <1>3, <2>1, FS_AddElement
  <2> QED
    BY <1>0, <1>1, <1>2, <1>3, <1>4, <2>2 DEF Owed
<1>5. CASE stash # n
  <2>1. AutoDeposits(n)' = AutoDeposits(n)
    BY <1>0, <1>5, AskSets
  <2> QED
    BY <1>0, <1>1, <1>2, <1>3, <1>5, <2>1 DEF Owed
<1> QED
  BY <1>4, <1>5

-----------------------------------------------------------------------------
IInv == TypeOK /\ OneDepositPerApproval

\* The history in numbers.
LEMMA TypeFacts ==
  ASSUME TypeOK
  PROVE  /\ Len(writes) \in Nat /\ DOMAIN writes = 1..Len(writes)
         /\ writes \in Seq(Write) /\ mempool \in Seq(1..Len(writes))
BY DEF TypeOK

\* A click on the button.
LEMMA onSubmitStep ==
  ASSUME IInv, NEW mode, NEW parsed \in Amounts, onSubmit(mode, parsed)
  PROVE  IInv'
<1>1. PICK call \in {"approve", "deposit", "redeem"} :
         /\ Ask(call, parsed, 0)
         /\ stash' = stash \/ (call = "approve" /\ stash' = parsed)
  BY DEF onSubmit
<1>2. UNCHANGED <<effects, cached, mempool, allowance>>
  BY DEF onSubmit, node
<1>3. TypeOK'
  <2>1. /\ writes' \in Seq(Write) /\ Len(writes') = Len(writes) + 1
        /\ DOMAIN writes' = DOMAIN writes \cup {Len(writes) + 1}
        /\ observed' \in 0..Len(writes')
    BY <1>1, AskEffect DEF IInv
  <2>2. mempool \in Seq(1..(Len(writes) + 1))
    <3>1. Len(writes) \in Nat /\ Len(writes) + 1 \in Nat /\ Len(writes) <= Len(writes) + 1
      BY TypeFacts DEF IInv
    <3> QED
      BY <3>1, TypeFacts, SeqGrows DEF IInv
  <2>3. DOMAIN writes' = 1..(Len(writes) + 1)
    BY <2>1, TypeFacts DEF IInv
  <2> QED
    BY <1>1, <1>2, <2>1, <2>2, <2>3 DEF IInv, TypeOK
<1> QED
  BY <1>1, <1>3, ClickStep DEF IInv

\* The status of write i changes.
LEMMA StatusStep ==
  ASSUME IInv, NEW i \in DOMAIN writes, NEW status \in Status, SetStatus(i, status),
         UNCHANGED <<stash, observed, cached>>, effects' \subseteq DOMAIN writes,
         mempool' \in Seq(DOMAIN writes), allowance' \in Nat
  PROVE  IInv'
<1>1. /\ writes' \in Seq(Write) /\ Len(writes') = Len(writes) /\ DOMAIN writes' = DOMAIN writes
      /\ \A k \in DOMAIN writes : /\ writes'[k].call = writes[k].call
                                  /\ writes'[k].amount = writes[k].amount
                                  /\ writes'[k].cause = writes[k].cause
  BY SetStatusEffect DEF IInv
<1>2. TypeOK'
  BY <1>1 DEF IInv, TypeOK
<1> QED
  BY <1>1, <1>2, QuietStep DEF IInv


\* The wallet's answers.
LEMMA WalletStep ==
  ASSUME IInv, NEW i \in DOMAIN writes, Reject(i) \/ Confirm(i)
  PROVE  IInv'
<1>1. CASE Reject(i)
  BY <1>1, StatusStep DEF Reject, Status, IInv, TypeOK, node
<1>2. CASE Confirm(i)
  <2>1. Append(mempool, i) \in Seq(DOMAIN writes)
    <3> DEFINE S == DOMAIN writes
    <3>1. mempool \in Seq(S) /\ i \in S
      BY DEF IInv, TypeOK
    <3> HIDE DEF S
    <3>2. Append(mempool, i) \in Seq(S)
      BY <3>1
    <3> QED
      BY <3>2 DEF S
  <2> QED
    BY <1>2, <2>1, StatusStep DEF Confirm, Status, IInv, TypeOK
<1> QED
  BY <1>1, <1>2

\* The chain executes a transaction.
LEMMA ExecuteStep ==
  ASSUME IInv, Execute
  PROVE  IInv'
<1> DEFINE S == DOMAIN writes
<1>1. mempool \in Seq(S) /\ mempool # <<>> /\ mempool' = Tail(mempool)
  BY DEF IInv, TypeOK, Execute
<1> HIDE DEF S
<1>2. Head(mempool) \in S /\ Tail(mempool) \in Seq(S)
  BY <1>1
<1>3. writes[Head(mempool)] \in Write /\ Head(mempool) \in DOMAIN writes
  BY <1>2, TypeFacts DEF S, IInv
<1>4. \/ Succeeds(writes[Head(mempool)]) /\ SetStatus(Head(mempool), "mined")
      \/ SetStatus(Head(mempool), "failed") /\ UNCHANGED allowance
      \/ SetStatus(Head(mempool), "mined") /\ UNCHANGED allowance
  BY DEF Execute
<1>5. allowance' \in Nat
  <2>1. writes[Head(mempool)].amount \in Nat /\ allowance \in Nat
    BY <1>3, StakeCardAssumption DEF Write, IInv, TypeOK
  <2>2. Succeeds(writes[Head(mempool)]) => allowance' \in Nat
    BY <2>1 DEF Succeeds
  <2> QED
    BY <1>4, <2>1, <2>2
<1>6. \E status \in Status : SetStatus(Head(mempool), status)
  BY <1>4 DEF Status
<1>7. UNCHANGED <<stash, observed, cached>> /\ effects' \subseteq DOMAIN writes
  BY DEF Execute, IInv, TypeOK
<1>8. mempool' \in Seq(DOMAIN writes)
  BY <1>1, <1>2 DEF S
<1> QED
  BY <1>3, <1>5, <1>6, <1>7, <1>8, StatusStep

\* A receipt, a refetch.
LEMMA HooksStep ==
  ASSUME IInv, Receipt \/ Refetch
  PROVE  IInv'
<1>1. CASE Receipt
  <2>1. observed \in DOMAIN writes
    BY <1>1, TypeFacts DEF Receipt, Is, IInv, TypeOK
  <2>2. \E status \in Status : SetStatus(observed, status)
    BY <1>1 DEF Receipt, Status
  <2>3. /\ UNCHANGED <<stash, observed, cached>> /\ effects' \subseteq DOMAIN writes
        /\ mempool' \in Seq(DOMAIN writes) /\ allowance' \in Nat
    BY <1>1, <2>1 DEF Receipt, IInv, TypeOK, node
  <2> QED
    BY <2>1, <2>2, <2>3, StatusStep
<1>2. CASE Refetch
  <2>1. UNCHANGED <<stash, writes, observed, effects, mempool, allowance>> /\ cached' = allowance
    BY <1>2 DEF Refetch, hooks, node
  <2>2. TypeOK'
    BY <2>1 DEF IInv, TypeOK
  <2> QED
    BY <2>1, <2>2, QuietStep DEF IInv
<1> QED
  BY <1>1, <1>2

\* The effect after its refetches.
LEMMA ContinueStep ==
  ASSUME IInv, NEW i \in effects, Continue(i)
  PROVE  IInv'
<1>1. /\ i \in Nat /\ i # 0 /\ effects' \subseteq effects /\ stash' = 0
      /\ UNCHANGED <<cached, mempool, allowance>>
  BY TypeFacts DEF IInv, TypeOK, Continue, node
<1>2. CASE stash # 0
  <2>1. Ask("deposit", stash, i) /\ stash \in Amounts
    BY <1>2 DEF Continue, IInv, TypeOK
  <2>2. /\ writes' \in Seq(Write) /\ Len(writes') = Len(writes) + 1
        /\ DOMAIN writes' = DOMAIN writes \cup {Len(writes) + 1}
        /\ observed' \in 0..Len(writes')
    BY <1>1, <2>1, AskEffect DEF IInv
  <2>3. mempool \in Seq(1..(Len(writes) + 1))
    <3>1. Len(writes) \in Nat /\ Len(writes) + 1 \in Nat /\ Len(writes) <= Len(writes) + 1
      BY TypeFacts DEF IInv
    <3> QED
      BY <3>1, TypeFacts, SeqGrows DEF IInv
  <2>4. DOMAIN writes' = 1..(Len(writes) + 1)
    BY <2>2, TypeFacts DEF IInv
  <2>5. TypeOK'
    BY <1>1, <2>2, <2>3, <2>4 DEF IInv, TypeOK
  <2> QED
    BY <1>1, <1>2, <2>1, <2>5, EffectStep DEF IInv
<1>3. CASE stash = 0
  <2>1. UNCHANGED writes /\ observed' = 0 /\ stash' = stash
    BY <1>1, <1>3 DEF Continue
  <2>2. TypeOK'
    BY <1>1, <2>1, TypeFacts DEF IInv, TypeOK
  <2> QED
    BY <2>1, <2>2, QuietStep DEF IInv
<1> QED
  BY <1>2, <1>3

\* The form as it is mounted.
LEMMA InitIInv == Init => IInv
<1> SUFFICES ASSUME Init
             PROVE  IInv
  OBVIOUS
<1>1. TypeOK
  BY DEF Init, TypeOK
<1>2. \A n \in Amounts : AutoDeposits(n) = {} /\ Approvals(n) = {} /\ n # 0
  BY StakeCardAssumption DEF Init, AutoDeposits, Approvals, Clicks
<1>3. OneDepositPerApproval
  <2>1. \A n \in Amounts : stash # n
    BY <1>2 DEF Init
  <2>2. Cardinality({}) = 0
    BY FS_EmptySet
  <2> QED
    BY <1>2, <2>1, <2>2 DEF OneDepositPerApproval
<1> QED
  BY <1>1, <1>3 DEF IInv

\* The invariant of the form.
THEOREM StakeCardInvariant == Spec => []IInv
<1>1. ASSUME IInv, [Next]_vars
      PROVE  IInv'
  <2>1. CASE User
    BY <1>1, <2>1, onSubmitStep, WalletStep DEF User
  <2>2. CASE Execute \/ Hooks
    BY <1>1, <2>2, ExecuteStep, HooksStep DEF Hooks
  <2>3. CASE \E i \in effects : Continue(i)
    BY <1>1, <2>3, ContinueStep
  <2>4. CASE UNCHANGED vars
    <3>1. UNCHANGED <<stash, writes, observed, effects, cached, mempool, allowance>>
      BY <2>4 DEF vars, hooks, node
    <3>2. TypeOK'
      BY <1>1, <3>1 DEF IInv, TypeOK
    <3> QED
      BY <1>1, <3>1, <3>2, QuietStep DEF IInv
  <2> QED
    BY <1>1, <2>1, <2>2, <2>3, <2>4 DEF Next
<1> QED
  BY <1>1, InitIInv, PTL DEF Spec

\* The form's state, the writes and the mempool keep their types.
THEOREM StakeCardTypeCorrect == Spec => []TypeOK
<1>1. IInv => TypeOK
  BY DEF IInv
<1> QED
  BY <1>1, StakeCardInvariant, PTL

\* A click on Approve opens one deposit prompt at most, for the amount
\* that was entered, for any amounts and any number of clicks.
THEOREM StakeCardOneDepositPerApproval == Spec => []OneDepositPerApproval
<1>1. IInv => OneDepositPerApproval
  BY DEF IInv
<1> QED
  BY <1>1, StakeCardInvariant, PTL
=============================================================================
