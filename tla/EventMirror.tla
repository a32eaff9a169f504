----------------------------- MODULE EventMirror -----------------------------
(***************************************************************************)
(* What an indexer of a chain without reorgs promises: it stores each      *)
(* event once, under the block that produced it, in any order and without  *)
(* ever forgetting one, and it moves its checkpoint past a block only when *)
(* every event up to that block is stored.                                 *)
(***************************************************************************)
EXTENDS Integers

CONSTANTS Event, Start, NoCheckpoint

VARIABLES
    height,     \* of the chain
    produced,   \* <<event, block>> pairs on the chain
    stored,     \* <<event, block>> pairs in the store
    checkpoint

vars == <<height, produced, stored, checkpoint>>

Init ==
    /\ height = 0
    /\ produced = {}
    /\ stored = {}
    /\ checkpoint = NoCheckpoint

Produce ==
    /\ height' = height + 1
    /\ produced \subseteq produced'
    /\ \A p \in produced' \ produced : p[2] = height'
    /\ UNCHANGED <<stored, checkpoint>>

Store ==
    /\ \E p \in produced \ stored : p[2] >= Start /\ stored' = stored \cup {p}
    /\ UNCHANGED <<height, produced, checkpoint>>

Advance ==
    /\ checkpoint' \in 0..height
    /\ checkpoint = NoCheckpoint \/ checkpoint < checkpoint'
    /\ \A p \in produced : p[2] \in Start..checkpoint' => p \in stored
    /\ UNCHANGED <<height, produced, stored>>

Next == Produce \/ Store \/ Advance

Spec == Init /\ [][Next]_vars
=============================================================================
