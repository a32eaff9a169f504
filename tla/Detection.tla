------------------------------ MODULE Detection ------------------------------
(***************************************************************************)
(* Indexer with two history variables that say what reorg detection still  *)
(* has to find: the lowest block replaced since a walk over the window     *)
(* last covered it.  The process neither reads nor writes them.            *)
(***************************************************************************)
EXTENDS Indexer

VARIABLES
    suspect,    \* lowest height replaced that no complete walk has covered since
    fresh       \* lowest height replaced since the walk in progress began

detectVars == <<vars, suspect, fresh>>

Never == MaxHeight + 1

DetectInit == Init /\ suspect = Never /\ fresh = Never

\* The oldest height of the window that detectReorg walks over.
Oldest == last - ReorgDepth + 1

\* A walk is complete when it comes to the saved block or to the head, above
\* which it has not looked, or has pruned all from the first mismatch on.
WalkEnds(unseen) ==
    \/ /\ pc = "scan" /\ pc' = "head" /\ UNCHANGED faults
       /\ unseen = IF at <= last THEN at ELSE Never
    \/ /\ pc = "prune" /\ trail' # trail
       /\ unseen = Never

\* A reorg replaces the blocks from its new head on.
Replaces == fork' # fork /\ suspect' = Minimum(suspect, head') /\ fresh' = Minimum(fresh, head')

WalkBegins == pc = "check" /\ pc' = "scan" /\ fresh' = Never /\ UNCHANGED suspect

\* What was replaced below the window is out of the reach of any walk.
WalkCovers ==
    \E unseen \in 0..Never :
        /\ WalkEnds(unseen)
        /\ suspect' = IF Oldest <= suspect THEN Minimum(fresh, unseen) ELSE suspect
        /\ UNCHANGED fresh

Otherwise ==
    /\ fork' = fork
    /\ ~(pc = "check" /\ pc' = "scan")
    /\ ~\E unseen \in 0..Never : WalkEnds(unseen)
    /\ UNCHANGED <<suspect, fresh>>

\* Every step is one of these, so the history holds up no step of Next.
Observe == Replaces \/ WalkBegins \/ WalkCovers \/ Otherwise

DetectNext == Next /\ Observe

DetectSpec == DetectInit /\ [][DetectNext]_detectVars /\ WF_vars(Process)
-----------------------------------------------------------------------------
\* "Reorg detection runs every iteration over the trailing ReorgDepth
\* blocks" and finds what is there: a recorded hash that is no longer
\* canonical was replaced since the last complete walk over it, or was below
\* the window of every walk since.  Reorgs during a walk, walks that fail,
\* ranges cut short, prunes without a rewind and crashes leave no other.
StaleIsSuspect ==
    \A n \in Height : last # None /\ n <= last /\ Replaced(n) => n >= suspect
=============================================================================
