------------------------------ MODULE StakeCard ------------------------------
(***************************************************************************)
(* frontend/components/StakeCard.tsx: the form that stakes (an approval    *)
(* followed by a deposit, or a deposit alone) and unstakes, one action per *)
(* event between two awaits.  The wallet answers its prompts in any order, *)
(* the chain executes what was sent in order; both are external, like      *)
(* wagmi's hooks, of which the form sees the latest write only.            *)
(***************************************************************************)
EXTENDS Integers, Sequences, FiniteSets

CONSTANTS
    Amounts,        \* amounts a user may enter
    MaxClicks       \* bound on the number of submits

ASSUME StakeCardAssumption ==
    /\ Amounts \subseteq Nat \ {0}
    /\ MaxClicks \in Nat

VARIABLES
    stash,          \* pendingDepositRef: 0 for null
    writes,         \* the calls of writeContractAsync so far
    observed,       \* the write useWriteContract reports on: 0 for none
    effects,        \* mined writes whose effect awaits the refetches
    cached,         \* the allowance as useReadContract last read it
    mempool,        \* sent and not executed, in the order of the nonces
    allowance       \* on chain

hooks == <<writes, observed, effects>>
node  == <<mempool, allowance>>
vars  == <<stash, hooks, cached, node>>

\* open, rejected: the wallet's prompt; sent, mined, failed: the transaction
\* before the form has its receipt; confirmed, error: after.
Status == {"open", "rejected", "sent", "mined", "failed", "confirmed", "error"}

\* cause is the write whose receipt led to this one, 0 for a click.
Write == [call : {"approve", "deposit", "redeem"}, amount : Amounts,
          status : Status, cause : Nat]

TypeOK ==
    /\ stash \in Amounts \cup {0}
    /\ writes \in Seq(Write)
    /\ observed \in 0..Len(writes)
    /\ effects \subseteq DOMAIN writes
    /\ cached \in Nat
    /\ mempool \in Seq(DOMAIN writes)
    /\ allowance \in Nat

Init ==
    /\ stash = 0
    /\ writes = <<>> /\ observed = 0 /\ effects = {}
    /\ cached = 0
    /\ mempool = <<>> /\ allowance = 0

-----------------------------------------------------------------------------
(* What the hooks report.                                                  *)

Is(i, statuses) == i # 0 /\ writes[i].status \in statuses

isWriting == Is(observed, {"open"})

isMining_UntilSuccess == Is(observed, {"sent", "mined", "failed", "error"})     \* mutant

\* isLoading: the receipt is still asked for.  A revert ends in an error.
isMining == Is(observed, {"sent", "mined", "failed"})

needsApproval(mode, parsed) == mode = "stake" /\ cached < parsed

\* writeContractAsync: the wallet shows one more prompt, and the hook
\* reports on this write from now on.
Ask(call, amount, cause) ==
    /\ writes' = Append(writes, [call |-> call, amount |-> amount,
                                 status |-> "open", cause |-> cause])
    /\ observed' = Len(writes')

SetStatus(i, status) == writes' = [writes EXCEPT ![i].status = status]

-----------------------------------------------------------------------------
(* The user, who switches the mode and edits the field at any time; the    *)
(* field is emptied after a deposit or a redemption, and filled again.     *)

Clicks == {i \in DOMAIN writes : writes[i].cause = 0}

\* A click on the button, with the mode and the amount the form has by then.
onSubmit(mode, parsed) ==
    /\ Cardinality(Clicks) < MaxClicks
    /\ ~isWriting /\ ~isMining
    /\ \/ needsApproval(mode, parsed) /\ Ask("approve", parsed, 0) /\ stash' = parsed
       \/ mode = "stake" /\ ~needsApproval(mode, parsed)
            /\ Ask("deposit", parsed, 0) /\ UNCHANGED stash
       \/ mode = "unstake" /\ Ask("redeem", parsed, 0) /\ UNCHANGED stash
    /\ UNCHANGED <<effects, cached, node>>

\* The user turns a prompt down; the stashed amount stays.
Reject(i) ==
    /\ Is(i, {"open"})
    /\ SetStatus(i, "rejected")
    /\ UNCHANGED <<stash, observed, effects, cached, node>>

\* The wallet sends the transaction and writeContractAsync resolves.
Confirm(i) ==
    /\ Is(i, {"open"})
    /\ SetStatus(i, "sent")
    /\ mempool' = Append(mempool, i)
    /\ UNCHANGED <<stash, observed, effects, cached, allowance>>

-----------------------------------------------------------------------------
(* The chain.                                                              *)

Succeeds_AnyAllowance(w) ==     \* mutant: unchecked subtraction
    \/ w.call = "approve" /\ allowance' = w.amount
    \/ w.call = "deposit" /\ allowance' = allowance - w.amount
    \/ w.call = "redeem"  /\ UNCHANGED allowance

Succeeds(w) ==
    \/ /\ w.call = "approve"
       /\ allowance' = w.amount
    \/ /\ w.call = "deposit"
       /\ w.amount <= allowance
       /\ allowance' = allowance - w.amount
    \/ /\ w.call = "redeem"
       /\ UNCHANGED allowance

\* The next transaction succeeds, reverts, or was cancelled in the wallet by
\* an empty one of the same nonce, whose receipt is reported in its place.
Execute ==
    /\ mempool # <<>>
    /\ LET i == Head(mempool)
       IN  \/ Succeeds(writes[i]) /\ SetStatus(i, "mined")
           \/ SetStatus(i, "failed") /\ UNCHANGED allowance
           \/ SetStatus(i, "mined") /\ UNCHANGED allowance
    /\ mempool' = Tail(mempool)
    /\ UNCHANGED <<stash, observed, effects, cached>>

-----------------------------------------------------------------------------
(* The effect on a mined transaction.                                      *)

\* useWaitForTransactionReceipt gets the receipt of the observed write, and
\* the effect starts its refetches.
Receipt ==
    /\ \/ /\ Is(observed, {"mined"})
          /\ SetStatus(observed, "confirmed")
          /\ effects' = effects \cup {observed}
       \/ /\ Is(observed, {"failed"})
          /\ SetStatus(observed, "error")
          /\ UNCHANGED effects
    /\ UNCHANGED <<stash, observed, cached, node>>

\* A refetch of the allowance returns; it may be the effect's or another.
Refetch ==
    /\ cached' = allowance
    /\ UNCHANGED <<stash, hooks, node>>

Continue_KeepsStash(i) ==     \* mutant: the ref is not set to null
    /\ i \in effects
    /\ effects' = effects \ {i}
    /\ IF stash # 0 THEN Ask("deposit", stash, i) ELSE observed' = 0 /\ UNCHANGED writes
    /\ UNCHANGED <<stash, cached, node>>

Continue_ResetOnly(i) ==     \* mutant: the deposit is left to the user
    /\ i \in effects
    /\ effects' = effects \ {i}
    /\ observed' = 0
    /\ UNCHANGED <<stash, writes, cached, node>>

\* The refetches have returned or failed: the effect sends the stashed
\* deposit, or resets the hook, whatever it reports on by now.
Continue(i) ==
    /\ i \in effects
    /\ effects' = effects \ {i}
    /\ IF stash # 0 THEN Ask("deposit", stash, i) ELSE observed' = 0 /\ UNCHANGED writes
    /\ stash' = 0
    /\ UNCHANGED <<cached, node>>

-----------------------------------------------------------------------------
User  == \/ \E mode \in {"stake", "unstake"}, parsed \in Amounts : onSubmit(mode, parsed)
         \/ \E i \in DOMAIN writes : Reject(i) \/ Confirm(i)
Hooks == Receipt \/ Refetch
Next  == User \/ Execute \/ Hooks \/ \E i \in effects : Continue(i)

\* The chain executes what is sent, receipts arrive, awaits end; the user
\* need not do anything.
Spec ==
    /\ Init /\ [][Next]_vars
    /\ WF_vars(Execute) /\ WF_vars(Receipt) /\ WF_vars(\E i \in effects : Continue(i))
-----------------------------------------------------------------------------
\* A click on Approve opens at most one deposit prompt later, for the amount
\* that was entered, whatever else is clicked, rejected, reverted or
\* cancelled in between and however often the effect runs.
Approvals(n)    == {i \in Clicks : writes[i].call = "approve" /\ writes[i].amount = n}
AutoDeposits(n) == {i \in DOMAIN writes \ Clicks : writes[i].amount = n}

OneDepositPerApproval ==
    \A n \in Amounts :
        Cardinality(AutoDeposits(n)) + (IF stash = n THEN 1 ELSE 0) <= Cardinality(Approvals(n))

\* The button does not stay on "Pending..." for a transaction that was sent,
\* also when that reverts or the hook has lost sight of another one.
PendingEnds == isMining ~> ~isMining

\* "If the just-mined tx was an approve, automatically continue with the
\* deposit": the stashed amount does not stay behind a confirmed approval.
ApprovalContinued ==
    (Is(observed, {"confirmed"}) /\ writes[observed].call = "approve") ~> (stash = 0)

\* The same comment, read the other way: a deposit that the effect sends
\* follows the approval just mined, or one clicked since, and not one from
\* before the mined transaction, which the user or the chain turned down.
OnlyApprovalsContinue ==
    \A i \in DOMAIN writes :
        writes[i].cause # 0 => \E j \in writes[i].cause..(i - 1) : writes[j].call = "approve"
=============================================================================
