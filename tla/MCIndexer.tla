------------------------------ MODULE MCIndexer ------------------------------
(***************************************************************************)
(* Small instances of Indexer: one or two events on a chain of a few       *)
(* blocks.                                                                 *)
(***************************************************************************)
EXTENDS Indexer

CONSTANTS t1, t2

MCTx    == {t1, t2}
MCOneTx == {t1}
=============================================================================
