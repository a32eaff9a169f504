--------------------------- MODULE IndexerProofs ---------------------------
(***************************************************************************)
(* Proofs about Indexer: StablePrefixExact on any chain with reorgs, the   *)
(* refinement of EventMirror on one without, and, at the end, what reorg   *)
(* detection leaves to be found (Detection).  The blocks below the         *)
(* lowest reorg so far, minFork, are stable: nothing ever replaced them.   *)
(* StablePrefixExact is not inductive: a row may be inserted from a log    *)
(* read long before, the saved block may move back and forth under a       *)
(* cursor that does not, and a prune may cut anywhere.  The invariant adds *)
(* what is known of every row, log and recorded hash about stable blocks,  *)
(* and how far they are covered at each call.                              *)
(***************************************************************************)
EXTENDS Detection, TLAPS

-----------------------------------------------------------------------------
(* The invariant.                                                          *)

\* A transaction read at height n is in that block if the block is stable,
\* and in no stable block otherwise.
Known(t, n) ==
    IF n < minFork THEN n <= head /\ t \in chain[n].txs
                   ELSE \A m \in 0..head : m < minFork => t \notin chain[m].txs

RowsKnown ==
    \A t \in Indexed : rows[t] # None =>
        /\ Known(t, rows[t].number)
        /\ rows[t].number < minFork => rows[t] = RowOf(rows[t].number)

LogsKnown ==
    \A lg \in logs : /\ lg.tx \in Indexed
                     /\ Known(lg.tx, lg.number)
                     /\ lg.number < minFork => lg.hash = Hash(lg.number)

\* Of a stable block the trail has the right hash or none, so that nothing
\* stable is ever pruned.
TrailKnown ==
    \A n \in Height : n < minFork /\ trail[n] # None => n <= head /\ trail[n] = Hash(n)

\* The stable blocks of from..to are in the tables.
Present(n) == \A t \in chain[n].txs \cap Indexed : rows[t] # None
Covered(from, to) == \A n \in from..to : n < minFork => n <= head /\ Present(n)

\* Once there was a reorg the stable blocks are all there; a transaction is
\* in one block at most.
ChainInv ==
    /\ ChainTypeOK
    /\ minFork = MaxHeight + 1 \/ minFork <= head
    /\ \A m, n \in 0..head : \A t \in Tx : t \in chain[m].txs /\ t \in chain[n].txs => m = n

TablesInv ==
    /\ schema \subseteq Schema
    /\ rows \in [Tx -> Row \cup {None}]
    /\ trail \in [Height -> 0..MaxReorgs \cup {None}]
    /\ last \in Height \cup {None}
    /\ snapshot \in Snap \cup {None}
    /\ RowsKnown
    /\ TrailKnown
    /\ last # None => Covered(StartBlock, last)

LocalInv ==
    /\ pc \in Calls
    /\ cursor \in Nat
    /\ at \in Nat
    /\ end \in Height
    /\ logs \subseteq Log
    /\ seen \in BlockRef \cup {None}
    /\ LogsKnown
    /\ Covered(StartBlock, cursor - 1)

\* The range is in the tables but for the logs in hand.
ReadyToIngest ==
    \A n \in cursor..end : n < minFork =>
        /\ n <= head
        /\ \A t \in chain[n].txs \cap Indexed : rows[t] # None \/ \E lg \in logs : lg.tx = t

\* What holds at a call: the reorg walk is between 1 and the saved block and
\* stops at no stable block; a range is covered before it is saved.
CallInv ==
    /\ pc \in {"scan", "prune", "rewind"} => last # None /\ 1 <= at
    /\ pc = "scan" => at <= last + 1
    /\ pc \in {"prune", "rewind"} => at <= last /\ minFork <= at
    /\ pc = "filter" => \A n \in cursor..end : n < minFork => n <= head
    /\ pc = "ingest" => ReadyToIngest
    /\ pc \in {"trail", "save", "assets", "supply"} => Covered(cursor, end)
    /\ pc = "supply" => seen \in BlockRef

BoundsInv == faults \in 0..MaxFaults /\ crashes \in 0..MaxCrashes

IInv == ChainInv /\ TablesInv /\ LocalInv /\ CallInv /\ BoundsInv

-----------------------------------------------------------------------------
\* A canonical block has a hash.
LEMMA HashType ==
  ASSUME ChainTypeOK, NEW n \in 0..head
  PROVE  /\ chain[n] \in Block /\ Hash(n) \in 0..MaxReorgs /\ chain[n].txs \subseteq Tx
         /\ n \in Height
BY ChainAssumption DEF ChainTypeOK, Block, Hash, Height

\* The head and the lowest reorg are heights, the tip a block.
LEMMA HeadType ==
  ASSUME ChainTypeOK
  PROVE  /\ head \in Nat /\ MaxHeight \in Nat /\ head <= MaxHeight /\ minFork \in Nat
         /\ minFork <= MaxHeight + 1 /\ Tip \in BlockRef /\ Indexed \subseteq Tx
<1>1. Hash(head) \in 0..MaxReorgs
  BY HashType, ChainAssumption DEF ChainTypeOK, Height
<1> QED
  BY <1>1, ChainAssumption DEF ChainTypeOK, Height, Tip, BlockRef

-----------------------------------------------------------------------------
(* The chain moves.                                                        *)

\* A new block at the head is above every height that was read.
LEMMA MineStep ==
  ASSUME IInv, NEW S \in SUBSET Tx, MineBlock(S), UNCHANGED <<db, pc, local, bounds>>
  PROVE  IInv'
<1>1. /\ head \in Nat /\ MaxHeight \in Nat /\ head < MaxHeight /\ minFork \in Nat
      /\ minFork <= MaxHeight + 1 /\ fork \in 0..MaxReorgs /\ MaxReorgs \in Nat
  BY HeadType, ChainAssumption DEF IInv, ChainInv, MineBlock, ChainTypeOK
<1>2. /\ head' = head + 1 /\ fork' = fork /\ minFork' = minFork
      /\ chain' \in [0..(head + 1) -> Block]
      /\ \A n \in 0..head : chain'[n] = chain[n]
      /\ chain'[head + 1].txs = S
  BY <1>1, HashType DEF MineBlock, IInv, ChainInv, Block
<1>3. \A n \in 0..head : \A t \in S : t \notin chain[n].txs
  <2>1. S \cap UNION {chain[n].txs : n \in 0..head} = {}
    BY DEF MineBlock, Included, IncludedUpTo
  <2> QED
    BY <2>1
<1>4. ChainInv'
  <2>1. ChainTypeOK'
    BY <1>1, <1>2 DEF IInv, ChainInv, ChainTypeOK, Height
  <2>2. (minFork = MaxHeight + 1 \/ minFork <= head)'
    BY <1>1, <1>2 DEF IInv, ChainInv
  <2>3. ASSUME NEW m \in 0..(head + 1), NEW n \in 0..(head + 1), NEW t \in Tx,
               t \in chain'[m].txs, t \in chain'[n].txs
        PROVE  m = n
    <3>1. (m \in 0..head \/ m = head + 1) /\ (n \in 0..head \/ n = head + 1)
      BY <1>1
    <3> QED
      BY <1>2, <1>3, <2>3, <3>1 DEF IInv, ChainInv
  <2> QED
    BY <1>2, <2>1, <2>2, <2>3 DEF ChainInv
<1>5. UNCHANGED <<schema, rows, trail, last, snapshot, pc, cursor, at, end, logs, seen, faults, crashes>>
  BY DEF db, data, local, bounds
<1>6. ASSUME NEW t, NEW n \in Height, Known(t, n)
      PROVE  Known(t, n)'
  <2>1. CASE n < minFork
    BY <1>1, <1>2, <1>6, <2>1 DEF Known, Height
  <2>2. CASE ~(n < minFork)
    <3>1. minFork <= head
      BY <1>1, <2>2 DEF IInv, ChainInv, Height
    <3>2. \A m \in 0..(head + 1) : m < minFork => m \in 0..head
      BY <1>1, <3>1
    <3> QED
      BY <1>1, <1>2, <1>6, <2>2, <3>2 DEF Known
  <2> QED
    BY <2>1, <2>2
<1>7. ASSUME NEW a \in Nat, NEW b, Covered(a, b)
      PROVE  Covered(a, b)'
  BY <1>1, <1>2, <1>5, <1>7 DEF Covered, Present
<1>8. TablesInv'
  <2>1. RowsKnown'
    <3> SUFFICES ASSUME NEW t \in Indexed, rows[t] # None
                 PROVE  /\ Known(t, rows[t].number)'
                        /\ rows[t].number < minFork => rows[t] = RowOf(rows[t].number)'
      BY <1>2, <1>5 DEF RowsKnown
    <3>1. rows[t] \in Row /\ rows[t].number \in Height
      BY ChainAssumption DEF IInv, TablesInv, Row
    <3>2. Known(t, rows[t].number) /\ (rows[t].number < minFork => rows[t] = RowOf(rows[t].number))
      BY DEF IInv, TablesInv, RowsKnown
    <3>3. Known(t, rows[t].number)'
      BY <1>5, <1>6, <3>1, <3>2
    <3>4. ASSUME rows[t].number < minFork
          PROVE  rows[t] = RowOf(rows[t].number)'
      <4>1. rows[t].number \in 0..head
        BY <3>1, <3>2, <3>4, <1>1 DEF Known, Height
      <4> QED
        BY <1>2, <1>5, <3>2, <3>4, <4>1 DEF RowOf, Hash
    <3> QED
      BY <3>3, <3>4
  <2>2. TrailKnown'
    BY <1>1, <1>2, <1>5 DEF IInv, TablesInv, TrailKnown, Hash, Height
  <2>3. last # None => Covered(StartBlock, last)'
    BY <1>5, <1>7, IndexerAssumption DEF IInv, TablesInv
  <2> QED
    BY <1>5, <2>1, <2>2, <2>3 DEF IInv, TablesInv
<1>9. LocalInv'
  <2>1. LogsKnown'
    <3> SUFFICES ASSUME NEW lg \in logs
                 PROVE  /\ lg.tx \in Indexed
                        /\ Known(lg.tx, lg.number)'
                        /\ lg.number < minFork => lg.hash = Hash(lg.number)'
      BY <1>2, <1>5 DEF LogsKnown
    <3>1. lg.number \in Height
      BY DEF IInv, LocalInv, Log
    <3>2. lg.tx \in Indexed /\ Known(lg.tx, lg.number) /\ (lg.number < minFork => lg.hash = Hash(lg.number))
      BY DEF IInv, LocalInv, LogsKnown
    <3>3. lg.number < minFork => lg.number \in 0..head
      BY <3>1, <3>2, <1>1 DEF Known, Height
    <3> QED
      BY <1>2, <1>5, <1>6, <3>1, <3>2, <3>3 DEF Hash
  <2>2. Covered(StartBlock, cursor - 1)'
    BY <1>5, <1>7, IndexerAssumption DEF IInv, LocalInv
  <2> QED
    BY <1>5, <2>1, <2>2 DEF IInv, LocalInv
<1>10. CallInv'
  <2>1. pc = "ingest" => ReadyToIngest'
    BY <1>1, <1>2, <1>5 DEF IInv, LocalInv, CallInv, ReadyToIngest
  <2>2. pc = "filter" => (\A n \in cursor..end : n < minFork => n <= head)'
    BY <1>1, <1>2, <1>5 DEF IInv, LocalInv, CallInv, Height
  <2>3. pc \in {"trail", "save", "assets", "supply"} => Covered(cursor, end)'
    BY <1>5, <1>7 DEF IInv, LocalInv, CallInv
  <2> QED
    BY <1>1, <1>2, <1>5, <2>1, <2>2, <2>3 DEF IInv, CallInv
<1> QED
  BY <1>4, <1>5, <1>8, <1>9, <1>10 DEF IInv, BoundsInv

\* A reorg replaces blocks that were not stable, or are not from now on.
LEMMA ReorgStep ==
  ASSUME IInv, NEW S \in SUBSET Tx, NEW k \in 1..head, Reorg(k, S), UNCHANGED <<db, pc, local, bounds>>
  PROVE  IInv'
<1>1. /\ head \in Nat /\ MaxHeight \in Nat /\ head <= MaxHeight /\ minFork \in Nat /\ minFork >= 1
      /\ minFork <= MaxHeight + 1 /\ fork \in 0..MaxReorgs /\ MaxReorgs \in Nat /\ fork < MaxReorgs
  BY HeadType, ChainAssumption DEF IInv, ChainInv, Reorg, ChainTypeOK
<1>2. /\ head' = k /\ fork' = fork + 1 /\ k \in Nat
      /\ minFork' \in Nat /\ minFork' >= 1 /\ minFork' <= k /\ minFork' <= minFork
      /\ minFork' = k \/ minFork' = minFork
      /\ chain' \in [0..k -> Block]
      /\ \A n \in 0..(k - 1) : chain'[n] = chain[n]
      /\ chain'[k].txs = S
  <2>1. /\ head' = k /\ fork' = fork + 1 /\ k \in Nat /\ k >= 1
        /\ minFork' = IF k < minFork THEN k ELSE minFork
    BY <1>1 DEF Reorg
  <2>2. chain' = [n \in 0..k |-> IF n < k THEN chain[n] ELSE [id |-> fork + 1, txs |-> S]]
    BY DEF Reorg
  <2>3. [id |-> fork + 1, txs |-> S] \in Block
    BY <1>1 DEF Block
  <2>4. \A n \in 0..k : n < k => chain[n] \in Block
    BY <1>1, <2>1 DEF IInv, ChainInv, ChainTypeOK
  <2> QED
    BY <1>1, <2>1, <2>2, <2>3, <2>4
<1>3. \A n \in 0..(k - 1) : \A t \in S : t \notin chain[n].txs
  <2>1. S \cap UNION {chain[n].txs : n \in 0..(k - 1)} = {}
    BY DEF Reorg, IncludedUpTo
  <2> QED
    BY <2>1
<1>4. ChainInv'
  <2>1. ChainTypeOK'
    BY <1>1, <1>2 DEF ChainTypeOK, Height
  <2>2. (minFork = MaxHeight + 1 \/ minFork <= head)'
    BY <1>1, <1>2
  <2>3. ASSUME NEW m \in 0..k, NEW n \in 0..k, NEW t \in Tx,
               t \in chain'[m].txs, t \in chain'[n].txs
        PROVE  m = n
    <3>1. (m \in 0..(k - 1) \/ m = k) /\ (n \in 0..(k - 1) \/ n = k)
      BY <1>1, <1>2
    <3>2. 0..(k - 1) \subseteq 0..head
      BY <1>1, <1>2
    <3> QED
      BY <1>2, <1>3, <2>3, <3>1, <3>2 DEF IInv, ChainInv
  <2> QED
    BY <1>2, <2>1, <2>2, <2>3 DEF ChainInv
<1>5. UNCHANGED <<schema, rows, trail, last, snapshot, pc, cursor, at, end, logs, seen, faults, crashes>>
  BY DEF db, data, local, bounds
<1>6. ASSUME NEW t \in Tx, NEW n \in Height, Known(t, n)
      PROVE  Known(t, n)'
  <2>0. \A m \in 0..k : m < minFork' => m \in 0..(k - 1) /\ m \in 0..head /\ m < minFork /\ chain'[m] = chain[m]
    BY <1>1, <1>2
  <2>1. CASE n < minFork'
    BY <1>1, <1>2, <1>6, <2>1 DEF Known, Height
  <2>2. CASE ~(n < minFork') /\ n < minFork
    <3>1. n \in 0..head /\ t \in chain[n].txs
      BY <1>1, <1>6, <2>2 DEF Known, Height
    <3>2. \A m \in 0..k : m < minFork' => t \notin chain'[m].txs
      BY <1>1, <1>2, <2>0, <2>2, <3>1 DEF IInv, ChainInv
    <3> QED
      BY <1>2, <2>2, <3>2 DEF Known
  <2>3. CASE ~(n < minFork)
    <3>1. \A m \in 0..k : m < minFork' => t \notin chain'[m].txs
      BY <1>6, <2>0, <2>3 DEF Known
    <3>2. ~(n < minFork')
      BY <1>1, <1>2, <2>3 DEF Height
    <3> QED
      BY <1>2, <3>1, <3>2 DEF Known
  <2> QED
    BY <2>1, <2>2, <2>3
<1>7. ASSUME NEW a \in Nat, NEW b, Covered(a, b)
      PROVE  Covered(a, b)'
  BY <1>1, <1>2, <1>5, <1>7 DEF Covered, Present
<1>8. TablesInv'
  <2>1. RowsKnown'
    <3> SUFFICES ASSUME NEW t \in Indexed, rows[t] # None
                 PROVE  /\ Known(t, rows[t].number)'
                        /\ rows[t].number < minFork' => rows[t] = RowOf(rows[t].number)'
      BY <1>2, <1>5 DEF RowsKnown
    <3>1. rows[t] \in Row /\ rows[t].number \in Height /\ t \in Tx
      BY ChainAssumption DEF IInv, TablesInv, Row
    <3>2. Known(t, rows[t].number) /\ (rows[t].number < minFork => rows[t] = RowOf(rows[t].number))
      BY DEF IInv, TablesInv, RowsKnown
    <3>3. Known(t, rows[t].number)'
      BY <1>5, <1>6, <3>1, <3>2
    <3>4. ASSUME rows[t].number < minFork'
          PROVE  rows[t] = RowOf(rows[t].number)'
      <4>1. rows[t].number \in 0..(k - 1) /\ rows[t].number < minFork
        BY <3>1, <3>4, <1>1, <1>2 DEF Height
      <4> QED
        BY <1>2, <1>5, <3>2, <4>1 DEF RowOf, Hash
    <3> QED
      BY <3>3, <3>4
  <2>2. TrailKnown'
    BY <1>1, <1>2, <1>5 DEF IInv, TablesInv, TrailKnown, Hash, Height
  <2>3. last # None => Covered(StartBlock, last)'
    BY <1>5, <1>7, IndexerAssumption DEF IInv, TablesInv
  <2> QED
    BY <1>5, <2>1, <2>2, <2>3 DEF IInv, TablesInv
<1>9. LocalInv'
  <2>1. LogsKnown'
    <3> SUFFICES ASSUME NEW lg \in logs
                 PROVE  /\ lg.tx \in Indexed
                        /\ Known(lg.tx, lg.number)'
                        /\ lg.number < minFork' => lg.hash = Hash(lg.number)'
      BY <1>2, <1>5 DEF LogsKnown
    <3>1. lg.number \in Height /\ lg.tx \in Tx
      BY DEF IInv, LocalInv, Log
    <3>2. lg.tx \in Indexed /\ Known(lg.tx, lg.number) /\ (lg.number < minFork => lg.hash = Hash(lg.number))
      BY DEF IInv, LocalInv, LogsKnown
    <3>3. lg.number < minFork' => lg.number \in 0..(k - 1) /\ lg.number < minFork
      BY <3>1, <1>1, <1>2 DEF Height
    <3> QED
      BY <1>2, <1>5, <1>6, <3>1, <3>2, <3>3 DEF Hash
  <2>2. Covered(StartBlock, cursor - 1)'
    BY <1>5, <1>7, IndexerAssumption DEF IInv, LocalInv
  <2> QED
    BY <1>5, <2>1, <2>2 DEF IInv, LocalInv
<1>10. CallInv'
  <2>1. pc = "ingest" => ReadyToIngest'
    BY <1>1, <1>2, <1>5 DEF IInv, LocalInv, CallInv, ReadyToIngest
  <2>2. pc = "filter" => (\A n \in cursor..end : n < minFork => n <= head)'
    BY <1>1, <1>2, <1>5 DEF IInv, LocalInv, CallInv, Height
  <2>3. pc \in {"trail", "save", "assets", "supply"} => Covered(cursor, end)'
    BY <1>5, <1>7 DEF IInv, LocalInv, CallInv
  <2>4. pc \in {"prune", "rewind"} => minFork' <= at
    BY <1>1, <1>2 DEF IInv, CallInv, LocalInv
  <2> QED
    BY <1>5, <2>1, <2>2, <2>3, <2>4 DEF IInv, CallInv
<1> QED
  BY <1>4, <1>5, <1>8, <1>9, <1>10 DEF IInv, BoundsInv

-----------------------------------------------------------------------------
(* What a call may do to the tables, and where it may go on.               *)

\* No step of the process takes the row of an event of a stable block.
PresentKept == \A n \in 0..head : n < minFork /\ Present(n) => Present(n)'

Kept == UNCHANGED chainVars /\ TablesInv' /\ PresentKept

\* What is covered stays covered.
LEMMA CoveredKept ==
  ASSUME IInv, Kept, NEW a \in Nat, NEW b, Covered(a, b)
  PROVE  Covered(a, b)'
BY HeadType DEF IInv, ChainInv, Kept, PresentKept, Covered, chainVars

\* The process does not touch the chain.
LEMMA ChainKept ==
  ASSUME IInv, UNCHANGED chainVars
  PROVE  ChainInv'
BY DEF IInv, ChainInv, ChainTypeOK, chainVars

\* A read, or a write that failed, leaves the tables alone.
LEMMA DataKept ==
  ASSUME IInv, UNCHANGED chainVars, UNCHANGED db
  PROVE  Kept
<1>1. UNCHANGED <<chain, head, fork, minFork, schema, rows, trail, last, snapshot>>
  BY DEF chainVars, db, data
<1>2. RowsKnown'
  BY <1>1 DEF IInv, TablesInv, RowsKnown, Known, RowOf, Hash
<1>3. TrailKnown'
  BY <1>1 DEF IInv, TablesInv, TrailKnown, Hash
<1>4. (last # None => Covered(StartBlock, last))'
  BY <1>1 DEF IInv, TablesInv, Covered, Present
<1>5. PresentKept
  BY <1>1 DEF PresentKept, Present
<1> QED
  BY <1>1, <1>2, <1>3, <1>4, <1>5 DEF Kept, IInv, TablesInv

\* So do the logs in hand stay right when some of them are dropped.
LEMMA LogsKept ==
  ASSUME IInv, UNCHANGED chainVars, logs' \subseteq logs
  PROVE  logs' \subseteq Log /\ LogsKnown'
BY DEF IInv, LocalInv, LogsKnown, Known, Hash, chainVars

\* A call that returns or fails stays within the bounds.
LEMMA BoundsKept ==
  ASSUME IInv, NoFault \/ Fault
  PROVE  BoundsInv'
BY IndexerAssumption DEF IInv, BoundsInv, NoFault, Fault, bounds

\* The end of an iteration, with the cursor behind what is covered.
LEMMA IterateStep ==
  ASSUME IInv, Kept, BoundsInv', NEW k \in Nat, Covered(StartBlock, k - 1), Iterate(k)
  PROVE  IInv'
<1>1. pc' = "check" /\ cursor' = k /\ at' = 0 /\ end' = 0 /\ logs' = {} /\ seen' = None
  BY DEF Iterate
<1>2. LogsKnown' /\ logs' \subseteq Log
  BY <1>1 DEF LogsKnown
<1>3. Covered(StartBlock, k - 1)'
  BY CoveredKept, IndexerAssumption
<1>4. LocalInv'
  BY <1>1, <1>2, <1>3, ChainAssumption DEF LocalInv, Calls, Height
<1>5. CallInv'
  BY <1>1 DEF CallInv
<1> QED
  BY <1>4, <1>5, ChainKept DEF IInv, Kept

\* A restart forgets the loop variables, and the tables are still right.
LEMMA ExitStep ==
  ASSUME IInv, Kept, BoundsInv', Exit
  PROVE  IInv'
<1>1. pc' = "track" /\ cursor' = StartBlock /\ at' = 0 /\ end' = 0 /\ logs' = {} /\ seen' = None
  BY DEF Exit
<1>2. LogsKnown' /\ logs' \subseteq Log
  BY <1>1 DEF LogsKnown
<1>3. Covered(StartBlock, cursor - 1)'
  BY <1>1, IndexerAssumption DEF Covered
<1>4. LocalInv'
  BY <1>1, <1>2, <1>3, ChainAssumption, IndexerAssumption DEF LocalInv, Calls, Height
<1>5. CallInv'
  BY <1>1 DEF CallInv
<1> QED
  BY <1>4, <1>5, ChainKept DEF IInv, Kept

\* The call after this one needs nothing but the invariant of the variables.
LEMMA FreeStep ==
  ASSUME IInv, Kept, BoundsInv', UNCHANGED <<cursor, end, logs, seen>>, at' \in Nat,
         pc' \in {"track", "pending", "apply", "boot", "check", "head"}
  PROVE  IInv'
<1>1. LogsKnown' /\ logs' \subseteq Log
  BY LogsKept DEF Kept
<1>2. Covered(StartBlock, cursor - 1)'
  <2>1. Covered(StartBlock, cursor - 1)
    BY DEF IInv, LocalInv
  <2> QED
    BY <2>1, CoveredKept, IndexerAssumption
<1>3. LocalInv'
  BY <1>1, <1>2 DEF IInv, LocalInv, Calls
<1>4. CallInv'
  BY DEF CallInv
<1> QED
  BY <1>3, <1>4, ChainKept DEF IInv, Kept

\* detectReorg returns.
LEMMA CheckedStep ==
  ASSUME IInv, Kept, BoundsInv', Checked
  PROVE  IInv'
BY FreeStep DEF Checked

\* processRange fails: the cursor stays.
LEMMA FailedStep ==
  ASSUME IInv, Kept, BoundsInv', RangeFailed
  PROVE  IInv'
<1>1. cursor \in Nat /\ Covered(StartBlock, cursor - 1)
  BY DEF IInv, LocalInv
<1> QED
  BY <1>1, IterateStep DEF RangeFailed

\* processRange is done: the cursor moves past the range it covered.
LEMMA DoneStep ==
  ASSUME IInv, Kept, BoundsInv', RangeDone, Covered(cursor, end)
  PROVE  IInv'
<1>1. cursor \in Nat /\ Covered(StartBlock, cursor - 1) /\ end \in Nat
  BY ChainAssumption DEF IInv, LocalInv, Height
<1>2. Covered(StartBlock, (end + 1) - 1)
  BY <1>1, IndexerAssumption DEF Covered
<1> QED
  BY <1>1, <1>2, IterateStep DEF RangeDone

-----------------------------------------------------------------------------
(* The writes.                                                             *)

\* Migrate does not touch the rows.
LEMMA SchemaWrite ==
  ASSUME IInv, UNCHANGED chainVars, UNCHANGED data, schema' \subseteq Schema
  PROVE  Kept
<1>1. UNCHANGED <<chain, head, fork, minFork, rows, trail, last, snapshot>>
  BY DEF chainVars, data
<1>2. RowsKnown'
  BY <1>1 DEF IInv, TablesInv, RowsKnown, Known, RowOf, Hash
<1>3. TrailKnown'
  BY <1>1 DEF IInv, TablesInv, TrailKnown, Hash
<1>4. (last # None => Covered(StartBlock, last))'
  BY <1>1 DEF IInv, TablesInv, Covered, Present
<1>5. PresentKept
  BY <1>1 DEF PresentKept, Present
<1> QED
  BY <1>1, <1>2, <1>3, <1>4, <1>5 DEF Kept, IInv, TablesInv

\* PruneBlocksFrom a height at or above the lowest reorg takes no row of a
\* block below it, as such a row is filed under that block.
LEMMA PruneWrite ==
  ASSUME IInv, UNCHANGED chainVars, NEW m \in Nat, minFork <= m, PruneBlocksFrom(m)
  PROVE  Kept /\ UNCHANGED last
<1>1. /\ UNCHANGED <<chain, head, fork, minFork, schema, last, snapshot>>
      /\ rows' = [t \in Tx |-> IF rows[t] # None /\ rows[t].number >= m THEN None ELSE rows[t]]
      /\ trail' = [n \in Height |-> IF n >= m THEN None ELSE trail[n]]
  BY DEF PruneBlocksFrom, chainVars
<1>2. rows' \in [Tx -> Row \cup {None}] /\ trail' \in [Height -> 0..MaxReorgs \cup {None}]
  BY <1>1 DEF IInv, TablesInv
<1>3. RowsKnown'
  BY <1>1, ChainAssumption DEF IInv, TablesInv, RowsKnown, Known, RowOf, Hash
<1>4. TrailKnown'
  BY <1>1 DEF IInv, TablesInv, TrailKnown, Hash
<1>5. PresentKept
  <2> SUFFICES ASSUME NEW n \in 0..head, n < minFork, Present(n), NEW t \in chain[n].txs \cap Indexed
               PROVE  rows'[t] # None
    BY <1>1 DEF PresentKept, Present
  <2>1. rows[t] # None /\ Known(t, rows[t].number) /\ t \in Tx /\ rows[t] \in Row
    BY ChainAssumption DEF Present, IInv, TablesInv, RowsKnown
  <2>2. rows[t].number < minFork
    BY <2>1 DEF Known
  <2>3. rows[t].number \in Nat /\ minFork \in Nat
    BY <2>1, HeadType, ChainAssumption DEF Row, Height, IInv, ChainInv
  <2> QED
    BY <1>1, <2>1, <2>2, <2>3
<1>6. ASSUME last # None
      PROVE  Covered(StartBlock, last)'
  <2>1. \A n \in StartBlock..last : n < minFork => n \in 0..head /\ Present(n)
    BY <1>6, HeadType, IndexerAssumption DEF IInv, ChainInv, TablesInv, Covered
  <2> QED
    BY <1>1, <1>5, <2>1 DEF Covered, PresentKept
<1> QED
  BY <1>1, <1>2, <1>3, <1>4, <1>5, <1>6 DEF Kept, IInv, TablesInv, chainVars

\* The saved block moves inside what is covered.
LEMMA StateWrite ==
  ASSUME IInv, UNCHANGED chainVars, NEW m \in Height, Covered(StartBlock, m), UpsertIndexerState(m)
  PROVE  Kept
<1>1. /\ UNCHANGED <<chain, head, fork, minFork, schema, rows, trail, snapshot>>
      /\ last' = m
  BY DEF UpsertIndexerState, chainVars
<1>2. RowsKnown'
  BY <1>1 DEF IInv, TablesInv, RowsKnown, Known, RowOf, Hash
<1>3. TrailKnown'
  BY <1>1 DEF IInv, TablesInv, TrailKnown, Hash
<1>4. (last # None => Covered(StartBlock, last))'
  BY <1>1 DEF Covered, Present
<1>5. PresentKept
  BY <1>1 DEF PresentKept, Present
<1> QED
  BY <1>1, <1>2, <1>3, <1>4, <1>5 DEF Kept, IInv, TablesInv, chainVars

\* An event keeps the row it has, and otherwise gets that of its log; a row
\* once there is not taken away.
LEMMA InsertWrite ==
  ASSUME IInv, UNCHANGED chainVars, NEW lg \in logs, ~NotFound(lg.number), InsertEvent(lg)
  PROVE  /\ Kept
         /\ \A t \in Tx : rows[t] # None => rows'[t] # None
         /\ rows'[lg.tx] # None
<1>1. /\ UNCHANGED <<chain, head, fork, minFork, schema, last, trail, snapshot>>
      /\ rows' = IF rows[lg.tx] # None THEN rows
                 ELSE [rows EXCEPT ![lg.tx] =
                        [number |-> lg.number, hash |-> lg.hash, time |-> Hash(lg.number)]]
  BY DEF InsertEvent, chainVars
<1>2. /\ lg.tx \in Indexed /\ lg.tx \in Tx /\ lg.number \in Height /\ lg.hash \in 0..MaxReorgs
      /\ Known(lg.tx, lg.number)
      /\ lg.number < minFork => lg.hash = Hash(lg.number)
  BY ChainAssumption DEF IInv, LocalInv, LogsKnown, Log
<1>3. Hash(lg.number) \in 0..MaxReorgs
  <2>1. lg.number \in 0..head
    BY <1>2, HeadType DEF NotFound, Height, IInv, ChainInv
  <2> QED
    BY <2>1, HashType DEF IInv, ChainInv
<1> DEFINE row == [number |-> lg.number, hash |-> lg.hash, time |-> Hash(lg.number)]
<1>4. row \in Row /\ row # None
  <2>1. row \in Row
    BY <1>2, <1>3 DEF Row
  <2> HIDE DEF row
  <2> QED
    BY <2>1, NoneAssumption
<1>5. /\ rows' \in [Tx -> Row \cup {None}]
      /\ \A t \in Tx : rows[t] # None => rows'[t] = rows[t]
      /\ \A t \in Tx : rows'[t] = rows[t] \/ (t = lg.tx /\ rows'[t] = row)
      /\ rows'[lg.tx] # None
  <2>1. rows \in [Tx -> Row \cup {None}]
    BY DEF IInv, TablesInv
  <2>2. rows' = IF rows[lg.tx] # None THEN rows ELSE [rows EXCEPT ![lg.tx] = row]
    BY <1>1
  <2> HIDE DEF row
  <2> QED
    BY <1>2, <1>4, <2>1, <2>2
<1>6. row.number = lg.number /\ (lg.number < minFork => row = RowOf(lg.number))
  BY <1>2 DEF RowOf
<1>7. RowsKnown'
  <2> SUFFICES ASSUME NEW t \in Indexed, rows'[t] # None
               PROVE  /\ Known(t, rows[t].number)'
                      /\ (rows[t].number < minFork => rows[t] = RowOf(rows[t].number))'
    BY <1>1 DEF RowsKnown
  <2>1. t \in Tx
    BY ChainAssumption
  <2>2. CASE rows'[t] = rows[t]
    BY <1>1, <2>2 DEF IInv, TablesInv, RowsKnown, Known, RowOf, Hash
  <2>3. CASE t = lg.tx /\ rows'[t] = row
    <3>1. Known(t, rows'[t].number) /\ (rows'[t].number < minFork => rows'[t] = RowOf(rows'[t].number))
      BY <1>2, <1>6, <2>3
    <3> QED
      BY <1>1, <3>1 DEF Known, RowOf, Hash
  <2> QED
    BY <1>5, <2>1, <2>2, <2>3
<1>8. TrailKnown'
  BY <1>1 DEF IInv, TablesInv, TrailKnown, Hash
<1>9. PresentKept
  <2>1. \A n \in 0..head : \A t \in chain[n].txs \cap Indexed : t \in Tx
    BY ChainAssumption
  <2> QED
    BY <1>1, <1>5, <2>1 DEF PresentKept, Present
<1>10. ASSUME last # None
       PROVE  Covered(StartBlock, last)'
  <2>1. \A n \in StartBlock..last : n < minFork => n \in 0..head /\ Present(n)
    BY <1>10, HeadType, IndexerAssumption DEF IInv, ChainInv, TablesInv, Covered
  <2> QED
    BY <1>1, <1>9, <2>1 DEF Covered, PresentKept
<1> QED
  BY <1>1, <1>5, <1>7, <1>8, <1>9, <1>10 DEF Kept, IInv, TablesInv, chainVars

\* The trail loop records the hash that is canonical at the time.
LEMMA TrailWrite ==
  ASSUME IInv, UNCHANGED chainVars, NEW m \in Height, m <= head, RecordBlock(m)
  PROVE  Kept
<1>1. /\ UNCHANGED <<chain, head, fork, minFork, schema, rows, last, snapshot>>
      /\ trail' = [trail EXCEPT ![m] = Hash(m)]
  BY DEF RecordBlock, chainVars
<1>2. Hash(m) \in 0..MaxReorgs
  <2>1. m \in 0..head
    BY HeadType DEF IInv, ChainInv, Height
  <2> QED
    BY <2>1, HashType DEF IInv, ChainInv
<1>3. trail' \in [Height -> 0..MaxReorgs \cup {None}]
  BY <1>1, <1>2 DEF IInv, TablesInv
<1>4. RowsKnown'
  BY <1>1 DEF IInv, TablesInv, RowsKnown, Known, RowOf, Hash
<1>5. TrailKnown'
  BY <1>1 DEF IInv, TablesInv, TrailKnown, Hash
<1>6. (last # None => Covered(StartBlock, last))'
  BY <1>1 DEF IInv, TablesInv, Covered, Present
<1>7. PresentKept
  BY <1>1 DEF PresentKept, Present
<1> QED
  BY <1>1, <1>3, <1>4, <1>5, <1>6, <1>7 DEF Kept, IInv, TablesInv, chainVars

\* snapshotExchangeRate writes its own table only.
LEMMA SnapshotWrite ==
  ASSUME IInv, UNCHANGED chainVars, NEW row \in Snap, InsertSnapshot(row)
  PROVE  Kept
<1>1. /\ UNCHANGED <<chain, head, fork, minFork, schema, rows, trail, last>>
      /\ snapshot' \in Snap \cup {None}
  BY DEF InsertSnapshot, chainVars, IInv, TablesInv
<1>2. RowsKnown'
  BY <1>1 DEF IInv, TablesInv, RowsKnown, Known, RowOf, Hash
<1>3. TrailKnown'
  BY <1>1 DEF IInv, TablesInv, TrailKnown, Hash
<1>4. (last # None => Covered(StartBlock, last))'
  BY <1>1 DEF IInv, TablesInv, Covered, Present
<1>5. PresentKept
  BY <1>1 DEF PresentKept, Present
<1> QED
  BY <1>1, <1>2, <1>3, <1>4, <1>5 DEF Kept, IInv, TablesInv, chainVars

-----------------------------------------------------------------------------
(* The steps of the process.                                               *)

\* Migrate: the tracking table, the entry, the tables.
LEMMA TrackStep ==
  ASSUME IInv, Track
  PROVE  IInv'
<1>1. UNCHANGED chainVars
  BY DEF Track
<1>2. CASE (schema' = schema \cup {"tracking"} /\ UNCHANGED data) /\ Goto("pending") /\ NoFault
  <2>1. Kept /\ BoundsInv'
    BY <1>1, <1>2, SchemaWrite, BoundsKept DEF IInv, TablesInv, Schema
  <2> QED
    BY <1>2, <2>1, FreeStep DEF Goto, local, IInv, LocalInv
<1>3. CASE ((schema' = schema \cup {"tracking"} /\ UNCHANGED data) \/ UNCHANGED db) /\ Exit /\ Fault
  <2>1. Kept /\ BoundsInv'
    BY <1>1, <1>3, SchemaWrite, DataKept, BoundsKept DEF IInv, TablesInv, Schema
  <2> QED
    BY <1>3, <2>1, ExitStep
<1> QED
  BY <1>2, <1>3 DEF Track, WriteCall

\* Migrate: what is pending.
LEMMA PendingStep ==
  ASSUME IInv, Pending
  PROVE  IInv'
<1>1. Kept /\ BoundsInv'
  BY DataKept, BoundsKept DEF Pending, ReadCall
<1>2. CASE Exit
  BY <1>1, <1>2, ExitStep
<1>3. CASE Goto(IF "recorded" \in schema THEN "boot" ELSE "apply")
  BY <1>1, <1>3, FreeStep DEF Goto, local, IInv, LocalInv
<1> QED
  BY <1>2, <1>3 DEF Pending, ReadCall

\* Migrate: the transaction of 001_init.
LEMMA ApplyStep ==
  ASSUME IInv, Apply
  PROVE  IInv'
<1>1. UNCHANGED chainVars
  BY DEF Apply
<1>2. CASE "tables" \in schema
  <2>1. Exit /\ UNCHANGED <<db, bounds>>
    BY <1>2 DEF Apply
  <2>2. Kept /\ BoundsInv'
    BY <1>1, <2>1, DataKept, BoundsKept DEF NoFault
  <2> QED
    BY <2>1, <2>2, ExitStep
<1>3. CASE (schema' = schema \cup {"tables", "recorded"} /\ UNCHANGED data) /\ Goto("boot") /\ NoFault
  <2>1. Kept /\ BoundsInv'
    BY <1>1, <1>3, SchemaWrite, BoundsKept DEF IInv, TablesInv, Schema
  <2> QED
    BY <1>3, <2>1, FreeStep DEF Goto, local, IInv, LocalInv
<1>4. CASE ((schema' = schema \cup {"tables", "recorded"} /\ UNCHANGED data) \/ UNCHANGED db) /\ Exit /\ Fault
  <2>1. Kept /\ BoundsInv'
    BY <1>1, <1>4, SchemaWrite, DataKept, BoundsKept DEF IInv, TablesInv, Schema
  <2> QED
    BY <1>4, <2>1, ExitStep
<1> QED
  BY <1>2, <1>3, <1>4 DEF Apply, WriteCall

\* Run starts behind the saved block, which is covered.
LEMMA BootStep ==
  ASSUME IInv, Boot
  PROVE  IInv'
<1>1. Kept /\ BoundsInv'
  BY DataKept, BoundsKept DEF Boot, ReadCall
<1>2. CASE Exit
  BY <1>1, <1>2, ExitStep
<1>3. CASE Iterate(IF last = None THEN StartBlock ELSE last + 1)
  <2>1. CASE last = None
    <3>1. Iterate(StartBlock)
      BY <1>3, <2>1
    <3>2. Covered(StartBlock, StartBlock - 1)
      BY IndexerAssumption DEF Covered
    <3> QED
      BY <1>1, <3>1, <3>2, IterateStep, IndexerAssumption
  <2>2. CASE last # None
    <3>1. Iterate(last + 1) /\ last \in Nat
      BY <1>3, <2>2 DEF IInv, TablesInv, Height
    <3>2. Covered(StartBlock, (last + 1) - 1)
      BY <2>2, <3>1 DEF IInv, TablesInv, Covered
    <3>3. last + 1 \in Nat
      BY <3>1
    <3> QED
      BY <1>1, <3>1, <3>2, <3>3, IterateStep
  <2> QED
    BY <2>1, <2>2
<1> QED
  BY <1>2, <1>3 DEF Boot, ReadCall

\* detectReorg starts its walk at a height above zero.
LEMMA CheckStep ==
  ASSUME IInv, Check
  PROVE  IInv'
<1>1. Kept /\ BoundsInv'
  BY DataKept, BoundsKept DEF Check, ReadCall
<1>2. CASE Checked
  BY <1>1, <1>2, CheckedStep
<1>3. CASE /\ ~(last = None \/ last < ReorgDepth)
           /\ pc' = "scan" /\ at' = last - ReorgDepth + 1
           /\ UNCHANGED <<cursor, end, logs, seen>> /\ UNCHANGED db
  <2>1. last \in Nat /\ ReorgDepth \in Nat /\ last >= ReorgDepth /\ last' = last
    BY <1>3, IndexerAssumption DEF IInv, TablesInv, Height, db, data
  <2>2. LogsKnown' /\ logs' \subseteq Log
    BY <1>1, <1>3, LogsKept DEF Kept
  <2>3. Covered(StartBlock, cursor - 1)'
    <3>1. Covered(StartBlock, cursor - 1)
      BY DEF IInv, LocalInv
    <3> QED
      BY <1>1, <1>3, <3>1, CoveredKept, IndexerAssumption
  <2>4. LocalInv'
    BY <1>3, <2>1, <2>2, <2>3 DEF IInv, LocalInv, Calls
  <2>5. CallInv'
    BY <1>3, <2>1 DEF CallInv
  <2> QED
    BY <1>1, <2>4, <2>5, ChainKept DEF IInv, Kept
<1> QED
  BY <1>2, <1>3 DEF Check, ReadCall

\* The walk stops at a recorded hash that differs: since TrailKnown, at a
\* height no lower than the lowest reorg.
LEMMA ScanStep ==
  ASSUME IInv, Scan
  PROVE  IInv'
<1>1. Kept /\ BoundsInv' /\ UNCHANGED last
  BY DataKept, BoundsKept DEF Scan, ReadCall, db, data
<1>2. CASE Checked
  BY <1>1, <1>2, CheckedStep
<1>3. CASE /\ ~(at > last \/ NotFound(at))
           /\ UNCHANGED <<cursor, end, logs, seen>>
           /\ \/ Mismatch(at) /\ pc' = "prune" /\ at' = at
              \/ at' = at + 1 /\ pc' = pc
  <2>1. /\ last \in Height /\ last \in Nat /\ at \in Nat /\ 1 <= at /\ at <= last /\ at <= head
        /\ pc = "scan" /\ last # None
    BY <1>3, HeadType DEF Scan, IInv, TablesInv, LocalInv, CallInv, Height, NotFound, ChainInv
  <2>2. LogsKnown' /\ logs' \subseteq Log
    BY <1>1, <1>3, LogsKept DEF Kept
  <2>3. Covered(StartBlock, cursor - 1)'
    <3>1. Covered(StartBlock, cursor - 1)
      BY DEF IInv, LocalInv
    <3> QED
      BY <1>1, <1>3, <3>1, CoveredKept, IndexerAssumption
  <2>4. LocalInv'
    BY <1>3, <2>1, <2>2, <2>3 DEF IInv, LocalInv, Calls
  <2>5. CASE Mismatch(at) /\ pc' = "prune" /\ at' = at
    <3>1. at \in Height /\ minFork <= at
      BY <2>1, <2>5, HeadType DEF IInv, TablesInv, TrailKnown, Mismatch, Height, ChainInv
    <3>2. minFork' = minFork
      BY <1>1 DEF Kept, chainVars
    <3> QED
      BY <1>1, <2>1, <2>4, <2>5, <3>1, <3>2, ChainKept DEF IInv, Kept, CallInv
  <2>6. CASE at' = at + 1 /\ pc' = pc
    <3>1. CallInv'
      BY <1>1, <2>1, <2>6 DEF CallInv
    <3> QED
      BY <1>1, <2>4, <3>1, ChainKept DEF IInv, Kept
  <2> QED
    BY <1>3, <2>5, <2>6
<1> QED
  BY <1>2, <1>3 DEF Scan, ReadCall, Goto, local

\* detectReorg prunes, or fails to, or fails after it.
LEMMA PruneStep ==
  ASSUME IInv, Prune
  PROVE  IInv'
<1>1. /\ UNCHANGED chainVars /\ pc = "prune" /\ at \in Nat /\ minFork <= at /\ last # None
      /\ 1 <= at /\ at <= last
  BY DEF Prune, IInv, LocalInv, CallInv
<1>2. BoundsInv'
  BY BoundsKept DEF Prune, WriteCall
<1>3. CASE PruneBlocksFrom(at) /\ Goto("rewind")
  <2>1. Kept /\ UNCHANGED last
    BY <1>1, <1>3, PruneWrite
  <2>2. LogsKnown' /\ logs' \subseteq Log
    BY <1>3, <2>1, LogsKept DEF Kept, Goto, local
  <2>3. Covered(StartBlock, cursor - 1)'
    <3>1. Covered(StartBlock, cursor - 1)
      BY DEF IInv, LocalInv
    <3> QED
      BY <1>3, <2>1, <3>1, CoveredKept, IndexerAssumption DEF Goto, local
  <2>4. LocalInv'
    BY <1>3, <2>2, <2>3 DEF IInv, LocalInv, Calls, Goto, local
  <2>5. CallInv'
    BY <1>1, <1>3, <2>1 DEF CallInv, Goto, local, chainVars
  <2> QED
    BY <1>2, <2>1, <2>4, <2>5, ChainKept DEF IInv, Kept
<1>4. CASE (PruneBlocksFrom(at) \/ UNCHANGED db) /\ Checked
  <2>1. Kept
    BY <1>1, <1>4, PruneWrite, DataKept
  <2> QED
    BY <1>2, <1>4, <2>1, CheckedStep
<1> QED
  BY <1>3, <1>4 DEF Prune, WriteCall

\* detectReorg lowers the saved block.
LEMMA RewindStep ==
  ASSUME IInv, Rewind
  PROVE  IInv'
<1>1. /\ UNCHANGED chainVars /\ at \in Nat /\ last \in Nat /\ last <= MaxHeight /\ 1 <= at /\ at <= last
      /\ last # None
  BY ChainAssumption DEF Rewind, IInv, TablesInv, LocalInv, CallInv, Height
<1>2. BoundsInv' /\ Checked
  BY BoundsKept DEF Rewind, WriteCall
<1>3. at - 1 \in Height /\ Covered(StartBlock, at - 1)
  BY <1>1, ChainAssumption, IndexerAssumption DEF IInv, TablesInv, Covered, Height
<1>4. Kept
  BY <1>1, <1>3, StateWrite, DataKept DEF Rewind, WriteCall
<1> QED
  BY <1>2, <1>4, CheckedStep

\* The range is cut at the head.
LEMMA HeadStep ==
  ASSUME IInv, Head
  PROVE  IInv'
<1>1. Kept /\ BoundsInv'
  BY DataKept, BoundsKept DEF Head, ReadCall
<1>2. CASE Iterate(cursor)
  <2>1. cursor \in Nat /\ Covered(StartBlock, cursor - 1)
    BY DEF IInv, LocalInv
  <2> QED
    BY <1>1, <1>2, <2>1, IterateStep
<1>3. CASE /\ ~(cursor > head)
           /\ pc' = "filter" /\ end' = Minimum(cursor + BlockBatch - 1, head)
           /\ UNCHANGED <<cursor, at, logs, seen>>
  <2>1. /\ cursor \in Nat /\ cursor <= head /\ BlockBatch \in Nat /\ BlockBatch >= 1 /\ MaxHeight \in Nat
        /\ head \in Nat /\ head <= MaxHeight
    BY <1>3, HeadType, IndexerAssumption DEF IInv, LocalInv, ChainInv
  <2>2. end' \in Height /\ end' <= head
    BY <1>3, <2>1 DEF Minimum, Height
  <2>3. LogsKnown' /\ logs' \subseteq Log
    BY <1>1, <1>3, LogsKept DEF Kept
  <2>4. Covered(StartBlock, cursor - 1)'
    <3>1. Covered(StartBlock, cursor - 1)
      BY DEF IInv, LocalInv
    <3> QED
      BY <1>1, <1>3, <3>1, CoveredKept, IndexerAssumption
  <2>5. LocalInv'
    BY <1>3, <2>2, <2>3, <2>4 DEF IInv, LocalInv, Calls
  <2>6. CallInv'
    BY <1>1, <1>3, <2>1, <2>2 DEF CallInv, Kept, chainVars, Height
  <2> QED
    BY <1>1, <2>5, <2>6, ChainKept DEF IInv, Kept
<1> QED
  BY <1>2, <1>3 DEF Head, ReadCall

\* The logs of the range, each known from its block.
LEMMA FilterStep ==
  ASSUME IInv, Filter
  PROVE  IInv'
<1>1. Kept /\ BoundsInv' /\ pc = "filter"
  BY DataKept, BoundsKept DEF Filter, ReadCall
<1>2. CASE RangeFailed
  BY <1>1, <1>2, FailedStep
<1>3. CASE /\ pc' = "ingest" /\ logs' = LogsOf(cursor, end)
           /\ UNCHANGED <<cursor, at, end, seen>> /\ UNCHANGED db
  <2>0. /\ UNCHANGED <<chain, head, fork, minFork, rows>>
        /\ cursor \in Nat /\ end \in Height /\ end \in Nat /\ head \in Nat /\ head <= MaxHeight
        /\ MaxHeight \in Nat /\ Minimum(end, head) \in Nat
        /\ Minimum(end, head) <= end /\ Minimum(end, head) <= head
    BY <1>1, <1>3, HeadType DEF Kept, chainVars, db, data, IInv, LocalInv, Height, ChainInv, Minimum
  <2>1. ASSUME NEW lg \in logs'
        PROVE  lg \in Log /\ lg.tx \in Indexed /\ Known(lg.tx, lg.number) /\ lg.hash = Hash(lg.number)
    <3>1. PICK n \in cursor..Minimum(end, head) : \E t \in chain[n].txs \cap Indexed :
                 lg = [tx |-> t, number |-> n, hash |-> Hash(n)]
      BY <1>3 DEF LogsOf
    <3>2. PICK t \in chain[n].txs \cap Indexed : lg = [tx |-> t, number |-> n, hash |-> Hash(n)]
      BY <3>1
    <3>3. n \in 0..head
      BY <2>0
    <3>4. n \in Height /\ Hash(n) \in 0..MaxReorgs /\ t \in Tx
      BY <3>3, <3>2, HashType, ChainAssumption DEF IInv, ChainInv
    <3>5. Known(t, n)
      BY <3>2, <3>3, <3>4 DEF IInv, ChainInv, Known
    <3> QED
      BY <3>2, <3>4, <3>5 DEF Log
  <2>2. LogsKnown' /\ logs' \subseteq Log
    BY <2>0, <2>1 DEF LogsKnown, Known, Hash
  <2>3. Covered(StartBlock, cursor - 1)'
    <3>1. Covered(StartBlock, cursor - 1)
      BY DEF IInv, LocalInv
    <3> QED
      BY <1>1, <1>3, <3>1, CoveredKept, IndexerAssumption
  <2>4. LocalInv'
    BY <1>3, <2>2, <2>3 DEF IInv, LocalInv, Calls
  <2>5. ASSUME NEW n \in cursor..end, n < minFork
        PROVE  /\ n <= head
               /\ \A t \in chain[n].txs \cap Indexed : \E lg \in logs' : lg.tx = t
    <3>1. n <= head
      BY <1>1, <2>5 DEF IInv, CallInv
    <3>2. n \in cursor..Minimum(end, head)
      BY <2>0, <3>1 DEF Minimum
    <3>3. ASSUME NEW t \in chain[n].txs \cap Indexed
          PROVE  \E lg \in logs' : lg.tx = t
      <4>1. [tx |-> t, number |-> n, hash |-> Hash(n)] \in logs'
        BY <1>3, <3>2 DEF LogsOf
      <4> QED
        BY <4>1
    <3> QED
      BY <3>1, <3>3
  <2>6. CallInv'
    BY <1>3, <2>0, <2>5 DEF CallInv, ReadyToIngest
  <2> QED
    BY <1>1, <2>4, <2>6, ChainKept DEF IInv, Kept
<1> QED
  BY <1>2, <1>3 DEF Filter, ReadCall

\* One log is ingested.
LEMMA IngestStep ==
  ASSUME IInv, Ingest
  PROVE  IInv'
<1>1. UNCHANGED chainVars /\ pc = "ingest"
  BY DEF Ingest
<1>2. PICK lg \in logs :
         IF NotFound(lg.number)
           THEN RangeFailed /\ UNCHANGED <<db, bounds>>
           ELSE WriteCall(InsertEvent(lg),
                          logs' = logs \ {lg} /\ UNCHANGED <<pc, cursor, at, end, seen>>,
                          RangeFailed)
  BY DEF Ingest
<1>3. CASE NotFound(lg.number)
  <2>1. Kept /\ BoundsInv' /\ RangeFailed
    BY <1>1, <1>2, <1>3, DataKept, BoundsKept DEF NoFault
  <2> QED
    BY <2>1, FailedStep
<1>4. CASE ~NotFound(lg.number) /\ (InsertEvent(lg) \/ UNCHANGED db) /\ RangeFailed /\ Fault
  <2>1. Kept /\ BoundsInv'
    BY <1>1, <1>4, InsertWrite, DataKept, BoundsKept
  <2> QED
    BY <1>4, <2>1, FailedStep
<1>5. CASE /\ ~NotFound(lg.number) /\ InsertEvent(lg) /\ NoFault
           /\ logs' = logs \ {lg} /\ UNCHANGED <<pc, cursor, at, end, seen>>
  <2>1. /\ Kept /\ BoundsInv'
        /\ \A t \in Tx : rows[t] # None => rows'[t] # None
        /\ rows'[lg.tx] # None
    BY <1>1, <1>5, InsertWrite, BoundsKept
  <2>2. LogsKnown' /\ logs' \subseteq Log
    BY <1>1, <1>5, LogsKept
  <2>3. Covered(StartBlock, cursor - 1)'
    <3>1. Covered(StartBlock, cursor - 1)
      BY DEF IInv, LocalInv
    <3> QED
      BY <1>5, <2>1, <3>1, CoveredKept, IndexerAssumption
  <2>4. LocalInv'
    BY <1>5, <2>2, <2>3 DEF IInv, LocalInv
  <2>5. ReadyToIngest'
    <3> SUFFICES ASSUME NEW n \in cursor..end, n < minFork
                 PROVE  /\ n <= head
                        /\ \A t \in chain[n].txs \cap Indexed :
                              rows'[t] # None \/ \E other \in logs' : other.tx = t
      BY <1>1, <1>5 DEF ReadyToIngest, chainVars
    <3>1. /\ n <= head
          /\ \A t \in chain[n].txs \cap Indexed : rows[t] # None \/ \E other \in logs : other.tx = t
      BY <1>1 DEF IInv, CallInv, ReadyToIngest
    <3> QED
      BY <1>5, <2>1, <3>1, ChainAssumption
  <2>6. CallInv'
    BY <1>1, <1>5, <2>5 DEF CallInv
  <2> QED
    BY <2>1, <2>4, <2>6, ChainKept DEF IInv, Kept
<1> QED
  BY <1>2, <1>3, <1>4, <1>5 DEF WriteCall

\* With no log left the range is covered.
LEMMA IngestDoneStep ==
  ASSUME IInv, IngestDone
  PROVE  IInv'
<1>1. /\ pc = "ingest" /\ logs = {} /\ pc' = "trail" /\ at' = cursor
      /\ UNCHANGED <<cursor, end, logs, seen, db, bounds, chainVars>>
  BY DEF IngestDone
<1>2. Kept /\ BoundsInv'
  BY <1>1, DataKept, BoundsKept DEF NoFault
<1>3. LogsKnown' /\ logs' \subseteq Log
  BY <1>1, LogsKept
<1>4. Covered(StartBlock, cursor - 1)'
  <2>1. Covered(StartBlock, cursor - 1)
    BY DEF IInv, LocalInv
  <2> QED
    BY <1>1, <1>2, <2>1, CoveredKept, IndexerAssumption
<1>5. LocalInv'
  BY <1>1, <1>3, <1>4 DEF IInv, LocalInv, Calls
<1>6. Covered(cursor, end)'
  <2>1. Covered(cursor, end)
    BY <1>1 DEF IInv, CallInv, ReadyToIngest, Covered, Present
  <2>2. cursor \in Nat
    BY DEF IInv, LocalInv
  <2> QED
    BY <1>1, <1>2, <2>1, <2>2, CoveredKept
<1>7. CallInv'
  BY <1>1, <1>6 DEF CallInv
<1> QED
  BY <1>2, <1>5, <1>7, ChainKept DEF IInv, Kept

\* The calls after the logs: the range is in the tables and stays there.
LEMMA RangeStep ==
  ASSUME IInv, Kept, BoundsInv', UNCHANGED <<cursor, end, logs>>, at' \in Nat,
         seen' \in BlockRef \/ (pc' # "supply" /\ UNCHANGED seen),
         Covered(cursor, end), pc' \in {"trail", "save", "assets", "supply"}
  PROVE  IInv'
<1>1. LogsKnown' /\ logs' \subseteq Log
  BY LogsKept DEF Kept
<1>2. Covered(StartBlock, cursor - 1)'
  <2>1. Covered(StartBlock, cursor - 1)
    BY DEF IInv, LocalInv
  <2> QED
    BY <2>1, CoveredKept, IndexerAssumption
<1>3. LocalInv'
  BY <1>1, <1>2 DEF IInv, LocalInv, Calls
<1>4. Covered(cursor, end)'
  <2>1. cursor \in Nat
    BY DEF IInv, LocalInv
  <2> QED
    BY <2>1, CoveredKept
<1>5. CallInv'
  BY <1>4 DEF CallInv
<1> QED
  BY <1>3, <1>5, ChainKept DEF IInv, Kept

\* One block of the trail is recorded.
LEMMA TrailStep ==
  ASSUME IInv, Trail
  PROVE  IInv'
<1>1. UNCHANGED chainVars /\ pc = "trail" /\ at <= end /\ Covered(cursor, end) /\ at \in Nat
  BY DEF Trail, IInv, CallInv, LocalInv
<1>2. CASE NotFound(at)
  <2>1. Kept /\ BoundsInv' /\ RangeFailed
    BY <1>1, <1>2, DataKept, BoundsKept DEF Trail, NoFault
  <2> QED
    BY <2>1, FailedStep
<1>3. CASE ~NotFound(at)
  <2>1. at \in Height /\ at <= head
    BY <1>1, <1>3, HeadType DEF NotFound, IInv, LocalInv, ChainInv, Height
  <2>2. CASE RecordBlock(at) /\ NoFault /\ at' = at + 1 /\ UNCHANGED <<pc, cursor, end, logs, seen>>
    <3>1. Kept /\ BoundsInv'
      BY <1>1, <2>1, <2>2, TrailWrite, BoundsKept
    <3> QED
      BY <1>1, <2>2, <3>1, RangeStep
  <2>3. CASE (RecordBlock(at) \/ UNCHANGED db) /\ Fault /\ RangeFailed
    <3>1. Kept /\ BoundsInv'
      BY <1>1, <2>1, <2>3, TrailWrite, DataKept, BoundsKept
    <3> QED
      BY <2>3, <3>1, FailedStep
  <2> QED
    BY <1>3, <2>2, <2>3 DEF Trail, WriteCall
<1> QED
  BY <1>2, <1>3

\* The trail of the range is recorded.
LEMMA TrailDoneStep ==
  ASSUME IInv, TrailDone
  PROVE  IInv'
<1>1. /\ UNCHANGED <<db, bounds, chainVars>> /\ pc = "trail" /\ Covered(cursor, end) /\ at \in Nat
      /\ IF end > 0 THEN Goto("save") ELSE RangeDone
  BY DEF TrailDone, IInv, CallInv, LocalInv
<1>2. Kept /\ BoundsInv'
  BY <1>1, DataKept, BoundsKept DEF NoFault
<1>3. CASE Goto("save")
  BY <1>1, <1>2, <1>3, RangeStep DEF Goto, local
<1>4. CASE RangeDone
  BY <1>1, <1>2, <1>4, DoneStep
<1> QED
  BY <1>1, <1>3, <1>4

\* The saved block moves to the end of the range, which is covered.
LEMMA SaveStep ==
  ASSUME IInv, Save
  PROVE  IInv'
<1>1. UNCHANGED chainVars /\ pc = "save" /\ Covered(cursor, end) /\ at \in Nat /\ end \in Height
  BY DEF Save, IInv, CallInv, LocalInv
<1>2. Covered(StartBlock, end)
  BY <1>1, IndexerAssumption DEF IInv, LocalInv, Covered, Height
<1>3. CASE NotFound(end)
  <2>1. Kept /\ BoundsInv' /\ RangeFailed
    BY <1>1, <1>3, DataKept, BoundsKept DEF Save, NoFault
  <2> QED
    BY <2>1, FailedStep
<1>4. CASE UpsertIndexerState(end) /\ NoFault /\ Goto("assets")
  <2>1. Kept /\ BoundsInv'
    BY <1>1, <1>2, <1>4, StateWrite, BoundsKept
  <2> QED
    BY <1>1, <1>4, <2>1, RangeStep DEF Goto, local
<1>5. CASE (UpsertIndexerState(end) \/ UNCHANGED db) /\ Fault /\ RangeFailed
  <2>1. Kept /\ BoundsInv'
    BY <1>1, <1>2, <1>5, StateWrite, DataKept, BoundsKept
  <2> QED
    BY <1>5, <2>1, FailedStep
<1> QED
  BY <1>3, <1>4, <1>5 DEF Save, WriteCall

\* The snapshot's first half.
LEMMA ReadAssetsStep ==
  ASSUME IInv, ReadAssets
  PROVE  IInv'
<1>1. Kept /\ BoundsInv' /\ Covered(cursor, end) /\ at \in Nat
  BY DataKept, BoundsKept DEF ReadAssets, ReadCall, IInv, CallInv, LocalInv
<1>2. CASE pc' = "supply" /\ seen' = Tip /\ UNCHANGED <<cursor, at, end, logs>>
  BY <1>1, <1>2, HeadType, RangeStep DEF IInv, ChainInv
<1>3. CASE RangeDone
  BY <1>1, <1>3, DoneStep
<1> QED
  BY <1>2, <1>3 DEF ReadAssets, ReadCall

\* The snapshot's second half, and the row.
LEMMA ReadSupplyStep ==
  ASSUME IInv, ReadSupply
  PROVE  IInv'
<1>1. /\ UNCHANGED chainVars /\ pc = "supply" /\ Covered(cursor, end) /\ end \in Height /\ seen \in BlockRef
      /\ BoundsInv' /\ RangeDone
  BY BoundsKept DEF ReadSupply, WriteCall, IInv, CallInv, LocalInv
<1>2. [number |-> end, assets |-> seen, supply |-> Tip] \in Snap
  BY <1>1, HeadType DEF Snap, IInv, ChainInv
<1>3. Kept
  BY <1>1, <1>2, SnapshotWrite, DataKept DEF ReadSupply, WriteCall
<1> QED
  BY <1>1, <1>3, DoneStep

\* A crash between any two calls.
LEMMA CrashStep ==
  ASSUME IInv, Crash
  PROVE  IInv'
<1>1. Kept /\ Exit
  BY DataKept DEF Crash
<1>2. BoundsInv'
  BY IndexerAssumption DEF Crash, IInv, BoundsInv
<1> QED
  BY <1>1, <1>2, ExitStep

-----------------------------------------------------------------------------
\* The invariant holds of an empty database.
LEMMA InitIInv == Init => IInv
<1> SUFFICES ASSUME Init
             PROVE  IInv
  OBVIOUS
<1> USE ChainAssumption, IndexerAssumption
<1>1. ChainInv
  BY DEF Init, ChainInit, ChainInv, ChainTypeOK, Block, Height
<1>2. TablesInv
  BY DEF Init, TablesInv, RowsKnown, TrailKnown, Height
<1>3. Covered(StartBlock, cursor - 1)
  BY DEF Init, Covered
<1>4. LocalInv
  BY <1>3 DEF Init, LocalInv, LogsKnown, Calls, Height
<1>5. CallInv /\ BoundsInv
  BY DEF Init, CallInv, BoundsInv
<1> QED
  BY <1>1, <1>2, <1>4, <1>5 DEF IInv

\* Nothing changes.
LEMMA StutterStep ==
  ASSUME IInv, UNCHANGED vars
  PROVE  IInv'
<1>1. /\ UNCHANGED <<chain, head, fork, minFork, rows, trail, last>>
      /\ UNCHANGED <<schema, snapshot, pc, cursor, at, end, logs, seen, faults, crashes>>
      /\ UNCHANGED chainVars /\ UNCHANGED db
  BY DEF vars, chainVars, db, data, local, bounds
<1>2. Kept
  BY <1>1, DataKept
<1>3. LocalInv'
  BY <1>1 DEF IInv, LocalInv, LogsKnown, Known, Hash, Covered, Present
<1>4. CallInv' /\ BoundsInv'
  BY <1>1 DEF IInv, CallInv, BoundsInv, ReadyToIngest, Covered, Present
<1> QED
  BY <1>1, <1>2, <1>3, <1>4, ChainKept DEF IInv, Kept

\* Every step of the chain, the process and the faults keeps the invariant.
LEMMA InvariantStep ==
  ASSUME IInv, [Next]_vars
  PROVE  IInv'
<1>1. CASE Environment
  BY <1>1, MineStep, ReorgStep DEF Environment, ChainNext
<1>2. CASE Track \/ Pending \/ Apply \/ Boot \/ Check \/ Scan \/ Prune \/ Rewind
  BY <1>2, TrackStep, PendingStep, ApplyStep, BootStep, CheckStep, ScanStep, PruneStep, RewindStep
<1>3. CASE Head \/ Filter \/ Ingest \/ IngestDone \/ Trail \/ TrailDone
  BY <1>3, HeadStep, FilterStep, IngestStep, IngestDoneStep, TrailStep, TrailDoneStep
<1>4. CASE Save \/ ReadAssets \/ ReadSupply \/ Crash
  BY <1>4, SaveStep, ReadAssetsStep, ReadSupplyStep, CrashStep
<1>5. CASE UNCHANGED vars
  BY <1>5, StutterStep
<1> QED
  BY <1>1, <1>2, <1>3, <1>4, <1>5 DEF Next, Process

\* The invariant of the indexer: of the blocks below the lowest reorg, what
\* the tables and the logs in hand say is what the chain says, and all of it is
\* there up to the cursor and the saved block; reorg detection prunes none of it.
THEOREM IndexerInvariant == Spec => []IInv
BY InitIInv, InvariantStep, PTL DEF Spec

\* The variables of chain, database and process keep their types.
THEOREM IndexerTypeCorrect == Spec => []TypeOK
<1>1. IInv => TypeOK
  BY DEF IInv, ChainInv, TablesInv, LocalInv, BoundsInv, TypeOK
<1> QED
  BY <1>1, IndexerInvariant, PTL

\* Below the lowest reorg, and up to the saved block, the tables are the
\* chain, for any chain, batch size, detection window, number of failed calls
\* and of crashes.
THEOREM IndexerStablePrefixExact == Spec => []StablePrefixExact
<1>1. ASSUME IInv
      PROVE  StablePrefixExact
  <2> SUFFICES ASSUME last # None, NEW n \in StartBlock..last, n < minFork, NEW t \in Indexed
               PROVE  IF t \in chain[n].txs THEN rows[t] = RowOf(n)
                                            ELSE rows[t] # None => rows[t].number # n
    BY DEF StablePrefixExact, ExactAt
  <2>1. n \in 0..head /\ Present(n) /\ t \in Tx
    BY <1>1, HeadType, IndexerAssumption, ChainAssumption
       DEF IInv, ChainInv, TablesInv, Covered, Height
  <2>2. CASE t \in chain[n].txs
    <3>1. rows[t] # None /\ Known(t, rows[t].number)
      BY <1>1, <2>1, <2>2 DEF Present, IInv, TablesInv, RowsKnown
    <3>2. rows[t].number \in Nat
      BY <1>1, <2>1, <3>1, ChainAssumption DEF IInv, TablesInv, Row, Height
    <3>3. rows[t].number < minFork
      BY <2>1, <2>2, <3>1 DEF Known
    <3>4. rows[t].number = n
      BY <1>1, <2>1, <2>2, <3>1, <3>2, <3>3, HeadType DEF Known, IInv, ChainInv
    <3> QED
      BY <1>1, <2>2, <3>1, <3>3, <3>4 DEF IInv, TablesInv, RowsKnown
  <2>3. CASE t \notin chain[n].txs
    BY <1>1, <2>3 DEF IInv, TablesInv, RowsKnown, Known
  <2> QED
    BY <2>2, <2>3
<1> QED
  BY <1>1, IndexerInvariant, PTL

-----------------------------------------------------------------------------
(* Without reorgs.  The head only grows, so a range in progress stays below *)
(* it, and so does the saved block, which the next range reaches again.     *)

InRange == pc \in {"filter", "ingest", "trail", "save", "assets", "supply"}

Growing ==
    /\ StartBlock <= cursor
    /\ \A lg \in logs : StartBlock <= lg.number
    /\ InRange => cursor <= end /\ end <= head /\ end <= cursor + BlockBatch - 1
    /\ InRange /\ last # None => last <= end
    /\ last # None => StartBlock <= last /\ last <= head
    /\ last # None /\ pc \notin {"track", "pending", "apply", "boot"} => last <= cursor + BlockBatch - 1
    /\ pc = "supply" => end <= seen[1] /\ seen[1] <= head
    /\ SnapshotNotOlderThanLabel

\* Without reorgs nothing is pruned, as no recorded hash can differ.
LEMMA NoReorg ==
  ASSUME MaxReorgs = 0, IInv, minFork = MaxHeight + 1
  PROVE  /\ pc \notin {"prune", "rewind"}
         /\ \A k \in 1..head : \A S \in SUBSET Tx : ~Reorg(k, S)
<1>1. last \in Height \cup {None} /\ at \in Nat /\ MaxHeight \in Nat /\ fork = 0
  BY ChainAssumption DEF IInv, TablesInv, LocalInv, ChainInv, ChainTypeOK
<1> QED
  BY <1>1 DEF IInv, CallInv, Height, Reorg

\* Every step keeps Growing.
LEMMA GrowingStep ==
  ASSUME MaxReorgs = 0, IInv, minFork = MaxHeight + 1, Growing, [Next]_vars
  PROVE  Growing' /\ minFork' = MaxHeight + 1
<1>1. /\ head \in Nat /\ cursor \in Nat /\ end \in Nat /\ at \in Nat /\ StartBlock \in Nat
      /\ BlockBatch \in Nat /\ BlockBatch >= 1
      /\ last \in Nat \cup {None} /\ None \notin Nat
      /\ Tip[1] = head
      /\ pc = "supply" => seen[1] \in Nat
      /\ snapshot # None => snapshot.number \in Nat /\ snapshot.assets[1] \in Nat /\ snapshot.supply[1] \in Nat
  BY HeadType, ChainAssumption, IndexerAssumption
     DEF IInv, ChainInv, TablesInv, LocalInv, CallInv, Height, Tip, Snap, BlockRef
<1> USE <1>1
<1>2. CASE Environment
  <2>1. PICK S \in SUBSET Tx : MineBlock(S)
    BY <1>2, NoReorg DEF Environment, ChainNext
  <2> QED
    BY <1>2, <2>1
       DEF Environment, MineBlock, Growing, InRange, SnapshotNotOlderThanLabel, db, data, local
<1>3. CASE Track
  BY <1>3
     DEF Track, WriteCall, Goto, Exit, chainVars, db, data, local, Growing, InRange,
         SnapshotNotOlderThanLabel
<1>4. CASE Pending
  BY <1>4
     DEF Pending, ReadCall, Goto, Exit, chainVars, db, data, local, Growing, InRange,
         SnapshotNotOlderThanLabel
<1>5. CASE Apply
  BY <1>5
     DEF Apply, WriteCall, Goto, Exit, chainVars, db, data, local, Growing, InRange,
         SnapshotNotOlderThanLabel
<1>6. CASE Boot
  BY <1>6
     DEF Boot, ReadCall, Iterate, Exit, chainVars, db, data, Growing, InRange,
         SnapshotNotOlderThanLabel
<1>7. CASE Check
  BY <1>7
     DEF Check, ReadCall, Checked, chainVars, db, data, Growing, InRange, SnapshotNotOlderThanLabel
<1>8. CASE Scan
  BY <1>8
     DEF Scan, ReadCall, Checked, Goto, local, chainVars, db, data, Growing, InRange,
         SnapshotNotOlderThanLabel
<1>9. CASE Prune \/ Rewind
  BY <1>9, NoReorg DEF Prune, Rewind
<1>10. CASE Head
  BY <1>10
     DEF Head, ReadCall, Iterate, Minimum, chainVars, db, data, Growing, InRange,
         SnapshotNotOlderThanLabel
<1>11. CASE Filter
  <2>1. \A lg \in LogsOf(cursor, end) : lg.number >= StartBlock
    BY <1>11 DEF Growing, LogsOf, Minimum
  <2> QED
    BY <1>11, <2>1
       DEF Filter, ReadCall, RangeFailed, Iterate, chainVars, db, data, Growing, InRange,
           SnapshotNotOlderThanLabel
<1>12. CASE Ingest
  BY <1>12
     DEF Ingest, WriteCall, RangeFailed, Iterate, InsertEvent, chainVars, db, data, Growing,
         InRange, SnapshotNotOlderThanLabel
<1>13. CASE IngestDone
  BY <1>13 DEF IngestDone, chainVars, db, data, Growing, InRange, SnapshotNotOlderThanLabel
<1>14. CASE Trail
  BY <1>14
     DEF Trail, WriteCall, RangeFailed, Iterate, RecordBlock, chainVars, db, data, Growing,
         InRange, SnapshotNotOlderThanLabel
<1>15. CASE TrailDone
  BY <1>15
     DEF TrailDone, RangeDone, Iterate, Goto, local, chainVars, db, data, Growing, InRange,
         SnapshotNotOlderThanLabel
<1>16. CASE Save
  BY <1>16
     DEF Save, WriteCall, RangeFailed, Iterate, UpsertIndexerState, Goto, local, chainVars, db,
         data, Growing, InRange, SnapshotNotOlderThanLabel
<1>17. CASE ReadAssets
  BY <1>17
     DEF ReadAssets, ReadCall, RangeDone, Iterate, chainVars, db, data, Growing, InRange,
         SnapshotNotOlderThanLabel
<1>18. CASE ReadSupply
  <2>1. pc = "supply" /\ RangeDone /\ UNCHANGED chainVars
    BY <1>18 DEF ReadSupply, WriteCall
  <2>2. SnapshotNotOlderThanLabel' /\ last' = last
    <3>1. CASE UNCHANGED db
      BY <3>1 DEF db, data, Growing, SnapshotNotOlderThanLabel
    <3>2. CASE InsertSnapshot([number |-> end, assets |-> seen, supply |-> Tip])
      <4>1. last' = last /\ (snapshot' = snapshot \/ snapshot' = [number |-> end, assets |-> seen, supply |-> Tip])
        BY <3>2 DEF InsertSnapshot
      <4> QED
        BY <2>1, <4>1 DEF Growing, SnapshotNotOlderThanLabel
    <3> QED
      BY <1>18, <3>1, <3>2 DEF ReadSupply, WriteCall
  <2> QED
    BY <2>1, <2>2 DEF RangeDone, Iterate, chainVars, Growing, InRange
<1>19. CASE Crash
  BY <1>19 DEF Crash, Exit, chainVars, db, data, Growing, InRange, SnapshotNotOlderThanLabel
<1>20. CASE UNCHANGED vars
  BY <1>20 DEF vars, chainVars, db, data, local, Growing, InRange, SnapshotNotOlderThanLabel
<1> QED
  BY <1>2, <1>3, <1>4, <1>5, <1>6, <1>7, <1>8, <1>9, <1>10, <1>11, <1>12, <1>13, <1>14,
     <1>15, <1>16, <1>17, <1>18, <1>19, <1>20 DEF Next, Process

\* Growing is an invariant of a chain without reorgs.
LEMMA GrowingInvariant ==
  ASSUME MaxReorgs = 0
  PROVE  Spec => [](minFork = MaxHeight + 1 /\ Growing)
<1>1. Init => minFork = MaxHeight + 1 /\ Growing
  BY IndexerAssumption DEF Init, ChainInit, Growing, InRange, SnapshotNotOlderThanLabel
<1>2. IInv /\ minFork = MaxHeight + 1 /\ Growing /\ [Next]_vars => (minFork = MaxHeight + 1 /\ Growing)'
  BY GrowingStep
<1> QED
  BY <1>1, <1>2, IndexerInvariant, PTL DEF Spec

\* Without reorgs the exchange-rate snapshot served is no older than the
\* block it is filed under, and its supply no older than its assets.
THEOREM IndexerSnapshotNotOlder ==
  ASSUME MaxReorgs = 0
  PROVE  Spec => []SnapshotNotOlderThanLabel
<1>1. Growing => SnapshotNotOlderThanLabel
  BY DEF Growing
<1> QED
  BY <1>1, GrowingInvariant, PTL

-----------------------------------------------------------------------------
(* The refinement of the event mirror.                                     *)

Produced == UNION {(chain[n].txs \cap Indexed) \X {n} : n \in 0..head}
StoredPairs == {p \in Indexed \X Height : rows[p[1]] # None /\ rows[p[1]].number = p[2]}

\* The pairs of the chain, one by one.
LEMMA ProducedMember ==
  ASSUME NEW t, NEW n
  PROVE  <<t, n>> \in Produced <=> n \in 0..head /\ t \in chain[n].txs /\ t \in Indexed
BY DEF Produced

\* They are nothing else.
LEMMA ProducedPairs ==
  ASSUME NEW p \in Produced
  PROVE  \E n \in 0..head : \E t \in chain[n].txs \cap Indexed : p = <<t, n>>
BY DEF Produced

\* A block mined produces the events of that block.
LEMMA ProduceStep ==
  ASSUME IInv, NEW S \in SUBSET Tx, MineBlock(S)
  PROVE  /\ Produced \subseteq Produced'
         /\ \A p \in Produced' \ Produced : p[2] = head'
<1>1. /\ head \in Nat /\ head' = head + 1
      /\ \A n \in 0..head : chain'[n] = chain[n]
  BY HeadType DEF MineBlock, IInv, ChainInv
<1>2. 0..(head + 1) = (0..head) \cup {head + 1}
  BY <1>1
<1>3. Produced' = Produced \cup ((chain'[head + 1].txs \cap Indexed) \X {head + 1})
  BY <1>1, <1>2 DEF Produced
<1> QED
  BY <1>1, <1>3

\* Of a log inserted where there was no row, the pair was not stored.
LEMMA StoreStep ==
  ASSUME MaxReorgs = 0, IInv, minFork = MaxHeight + 1, Growing, UNCHANGED chainVars,
         NEW lg \in logs, ~NotFound(lg.number), InsertEvent(lg)
  PROVE  \/ StoredPairs' = StoredPairs
         \/ \E p \in Produced \ StoredPairs : p[2] >= StartBlock /\ StoredPairs' = StoredPairs \cup {p}
<1>1. /\ lg.tx \in Indexed /\ lg.tx \in Tx /\ lg.number \in Height /\ lg.number <= head
      /\ lg.number >= StartBlock /\ Known(lg.tx, lg.number) /\ lg.number \in Nat
      /\ head \in Nat /\ minFork = MaxHeight + 1 /\ lg.number < minFork
  BY HeadType, IndexerAssumption, ChainAssumption
     DEF IInv, LocalInv, LogsKnown, Log, Growing, NotFound, ChainInv, Height
<1>2. CASE rows[lg.tx] # None
  BY <1>2 DEF InsertEvent, StoredPairs
<1>3. CASE rows[lg.tx] = None
  <2> DEFINE row == [number |-> lg.number, hash |-> lg.hash, time |-> Hash(lg.number)]
  <2>1. rows' = [rows EXCEPT ![lg.tx] = row] /\ row.number = lg.number
    BY <1>3 DEF InsertEvent
  <2>2. row # None
    <3>1. Hash(lg.number) \in 0..MaxReorgs
      BY <1>1, HashType DEF IInv, ChainInv, Height
    <3>2. row \in Row
      BY <1>1, <3>1 DEF Row, IInv, LocalInv, Log
    <3> HIDE DEF row
    <3> QED
      BY <3>2, NoneAssumption
  <2> HIDE DEF row
  <2>3. rows \in [Tx -> Row \cup {None}]
    BY DEF IInv, TablesInv
  <2>4. rows'[lg.tx] = row /\ \A t \in Tx : t # lg.tx => rows'[t] = rows[t]
    BY <1>1, <2>1, <2>3
  <2>5. \A p \in Indexed \X Height : p = <<p[1], p[2]>> /\ p[1] \in Tx
    BY ChainAssumption
  <2>6. StoredPairs' = StoredPairs \cup {<<lg.tx, lg.number>>}
    <3>1. ASSUME NEW p \in Indexed \X Height
          PROVE  p \in StoredPairs' <=> p \in StoredPairs \/ p = <<lg.tx, lg.number>>
      <4>1. CASE p[1] = lg.tx
        BY <1>1, <1>3, <2>1, <2>2, <2>4, <2>5, <4>1 DEF StoredPairs
      <4>2. CASE p[1] # lg.tx
        BY <1>1, <2>4, <2>5, <4>2 DEF StoredPairs
      <4> QED
        BY <4>1, <4>2
    <3>2. <<lg.tx, lg.number>> \in Indexed \X Height
      BY <1>1
    <3>3. StoredPairs \subseteq Indexed \X Height /\ StoredPairs' \subseteq Indexed \X Height
      BY DEF StoredPairs
    <3> QED
      BY <3>1, <3>2, <3>3
  <2>7. <<lg.tx, lg.number>> \in Produced
    BY <1>1, ProducedMember DEF Known, Height
  <2>8. <<lg.tx, lg.number>> \notin StoredPairs
    BY <1>3 DEF StoredPairs
  <2> QED
    BY <1>1, <2>6, <2>7, <2>8
<1> QED
  BY <1>2, <1>3

\* Every event up to the end of the range is stored when the state is saved.
LEMMA AdvanceStep ==
  ASSUME IInv, minFork = MaxHeight + 1, NEW m \in 0..head, Covered(StartBlock, m)
  PROVE  \A p \in Produced : p[2] \in StartBlock..m => p \in StoredPairs
<1> SUFFICES ASSUME NEW n \in 0..head, NEW t \in chain[n].txs \cap Indexed, n \in StartBlock..m
             PROVE  <<t, n>> \in StoredPairs
  BY ProducedPairs
<1>1. n \in Height /\ t \in Tx /\ n < minFork /\ head <= MaxHeight
  BY HeadType, HashType, ChainAssumption DEF IInv, ChainInv, Height
<1>2. rows[t] # None
  BY <1>1 DEF Covered, Present
<1>3. rows[t].number \in Height /\ Known(t, rows[t].number) /\ rows[t].number < minFork
  BY <1>1, <1>2, HeadType, ChainAssumption DEF IInv, TablesInv, RowsKnown, Row, Height, ChainInv
<1>4. rows[t].number = n
  BY <1>1, <1>3, HeadType DEF Known, IInv, ChainInv, Height
<1> QED
  BY <1>1, <1>2, <1>3, <1>4 DEF StoredPairs

\* What the mirror sees.
MirrorUnchanged == UNCHANGED <<head, Produced, StoredPairs, last>>

\* Steps the mirror does not see.
LEMMA TablesUnchanged ==
  ASSUME UNCHANGED chainVars, UNCHANGED rows, UNCHANGED last
  PROVE  MirrorUnchanged
BY DEF chainVars, MirrorUnchanged, Produced, StoredPairs

\* A step of the indexer is one of the mirror's, or none.
LEMMA RefinementStep ==
  ASSUME MaxReorgs = 0, IInv, minFork = MaxHeight + 1, Growing, [Next]_vars
  PROVE  EM!Next \/ MirrorUnchanged
<1>1. CASE Environment
  <2>1. PICK S \in SUBSET Tx : MineBlock(S)
    BY <1>1, NoReorg DEF Environment, ChainNext
  <2>2. UNCHANGED <<rows, last>> /\ head' = head + 1
    BY <1>1, <2>1 DEF Environment, db, data, MineBlock
  <2>3. UNCHANGED StoredPairs
    BY <2>2 DEF StoredPairs
  <2>4. Produced \subseteq Produced' /\ \A p \in Produced' \ Produced : p[2] = head'
    BY <2>1, ProduceStep
  <2>5. EM!Produce
    BY <2>2, <2>3, <2>4 DEF EM!Produce, Produced, StoredPairs
  <2> QED
    BY <2>5 DEF EM!Next
<1>2. CASE Ingest
  <2>1. PICK lg \in logs  :
             \/ NotFound(lg.number) /\ UNCHANGED db
             \/ ~NotFound(lg.number) /\ (InsertEvent(lg) \/ UNCHANGED db)
    BY <1>2 DEF Ingest, WriteCall
  <2>2. UNCHANGED chainVars
    BY <1>2 DEF Ingest
  <2>3. CASE UNCHANGED db
    BY <2>2, <2>3, TablesUnchanged DEF db, data
  <2>4. CASE ~NotFound(lg.number) /\ InsertEvent(lg)
    <3>1. UNCHANGED <<last, head>> /\ Produced' = Produced
      BY <2>2, <2>4 DEF InsertEvent, chainVars, Produced
    <3>2. CASE StoredPairs' = StoredPairs
      BY <3>1, <3>2 DEF MirrorUnchanged
    <3>3. CASE \E p \in Produced \ StoredPairs : p[2] >= StartBlock /\ StoredPairs' = StoredPairs \cup {p}
      <4>1. EM!Store
        BY <3>1, <3>3 DEF EM!Store, Produced, StoredPairs
      <4> QED
        BY <4>1 DEF EM!Next
    <3> QED
      BY <2>2, <2>4, <3>2, <3>3, StoreStep
  <2> QED
    BY <2>1, <2>3, <2>4
<1>3. CASE Save
  <2>1. UNCHANGED chainVars /\ pc = "save"
    BY <1>3 DEF Save
  <2>2. CASE UNCHANGED db
    BY <2>1, <2>2, TablesUnchanged DEF db, data
  <2>3. CASE UpsertIndexerState(end)
    <3>1. last' = end /\ UNCHANGED <<rows, head>> /\ Produced' = Produced /\ StoredPairs' = StoredPairs
      BY <2>1, <2>3 DEF UpsertIndexerState, chainVars, Produced, StoredPairs
    <3>2. end \in Nat /\ end <= head /\ (last = None \/ last <= end) /\ head \in Nat /\ last \in Nat \cup {None}
      BY <2>1, HeadType DEF Growing, InRange, IInv, LocalInv, ChainInv, TablesInv, Height
    <3>3. Covered(StartBlock, end)
      BY <2>1, <3>2, IndexerAssumption DEF IInv, LocalInv, CallInv, Covered
    <3>4. \A p \in Produced : p[2] \in StartBlock..end => p \in StoredPairs
      BY <3>2, <3>3, AdvanceStep
    <3>5. CASE last = end
      BY <3>1, <3>5 DEF MirrorUnchanged
    <3>6. CASE last # end
      <4>1. EM!Advance
        BY <3>1, <3>2, <3>4, <3>6 DEF EM!Advance, Produced, StoredPairs
      <4> QED
        BY <4>1 DEF EM!Next
    <3> QED
      BY <3>5, <3>6
  <2> QED
    BY <1>3, <2>2, <2>3 DEF Save, WriteCall
<1>4. CASE Prune \/ Rewind
  BY <1>4, NoReorg DEF Prune, Rewind
<1>5. CASE Track \/ Pending \/ Apply \/ Boot \/ Check \/ Scan \/ Head \/ Filter
  BY <1>5, TablesUnchanged
     DEF Track, Pending, Apply, Boot, Check, Scan, Head, Filter, ReadCall, WriteCall, db, data
<1>6. CASE IngestDone \/ Trail \/ TrailDone \/ ReadAssets \/ ReadSupply \/ Crash
  BY <1>6, TablesUnchanged
     DEF IngestDone, Trail, TrailDone, ReadAssets, ReadSupply, Crash, ReadCall, WriteCall,
         RecordBlock, InsertSnapshot, db, data
<1>7. CASE UNCHANGED vars
  BY <1>7, TablesUnchanged DEF vars, db, data
<1> QED
  BY <1>1, <1>2, <1>3, <1>4, <1>5, <1>6, <1>7 DEF Next, Process

\* Without reorgs the indexer is an event mirror: each event is stored
\* once, under its block, none is forgotten, and the saved block moves past a
\* block only when all its events are stored, whatever fails or crashes.
THEOREM IndexerImplementsEventMirror ==
  ASSUME MaxReorgs = 0
  PROVE  Spec => ImplementsEventMirror
<1>1. Init => EM!Init
  <2> SUFFICES ASSUME Init
               PROVE  EM!Init
    OBVIOUS
  <2>1. head = 0 /\ last = None /\ chain[0].txs = {}
    BY DEF Init, ChainInit
  <2>2. Produced = {}
    BY <2>1, ProducedPairs
  <2>3. StoredPairs = {}
    BY ChainAssumption DEF Init, StoredPairs
  <2> QED
    BY <2>1, <2>2, <2>3 DEF EM!Init, Produced, StoredPairs
<1>2. IInv /\ minFork = MaxHeight + 1 /\ Growing /\ [Next]_vars => [EM!Next]_(EM!vars)
  BY RefinementStep DEF MirrorUnchanged, Produced, StoredPairs, EM!vars
<1> QED
  BY <1>1, <1>2, IndexerInvariant, GrowingInvariant, PTL DEF Spec, ImplementsEventMirror, EM!Spec

-----------------------------------------------------------------------------
(* What reorg detection finds.  A block that is saved was recorded when it  *)
(* was canonical, so its hash is stale only if a reorg replaced it since.   *)

\* The heights that are saved, or will be by the save of this range.
Reached(n) ==
    \/ last # None /\ n <= last
    \/ pc = "trail" /\ n < at
    \/ pc = "save" /\ n <= end

\* Where the trail is empty: below the first block, and between the saved
\* block and the cursor, a gap that a rewind leaves and the next save closes.
Unrecorded ==
    /\ StartBlock <= cursor
    /\ last # None => StartBlock <= last + 1
    /\ \A n \in Height : n < StartBlock => trail[n] = None
    /\ \A n \in Height : 0 < n /\ n < cursor /\ ~(last # None /\ n <= last) => trail[n] = None

Places ==
    /\ pc \in {"prune", "rewind"} => StartBlock <= at
    /\ pc = "rewind" => \A n \in Height : n >= at => trail[n] = None
    /\ InRange => cursor <= end
    /\ pc = "trail" => cursor <= at
    /\ pc = "save" => end < at
    /\ pc \in {"assets", "supply"} => last = end

\* What is stale is suspected, and what the walk has passed is found to be
\* canonical but for what was replaced behind its back.
Suspected ==
    /\ suspect \in Nat /\ fresh \in Nat
    /\ \A n \in Height : Replaced(n) /\ Reached(n) => n >= suspect
    /\ pc \in {"scan", "prune"} =>
        \A n \in Height : Oldest <= n /\ n < at /\ Replaced(n) => n >= fresh

DetectInv == Unrecorded /\ Places /\ Suspected

-----------------------------------------------------------------------------
\* The types the steps below reason with; no reorg replaces the first block.
LEMMA DetectTypes ==
  ASSUME IInv
  PROVE  /\ head \in Nat /\ cursor \in Nat /\ end \in Nat /\ at \in Nat
         /\ last \in Nat \cup {None} /\ None \notin Int
         /\ StartBlock \in Nat /\ ReorgDepth \in Nat /\ BlockBatch \in Nat /\ BlockBatch >= 1
         /\ Height \subseteq Nat /\ MaxHeight \in Nat
         /\ trail \in [Height -> 0..MaxReorgs \cup {None}]
         /\ \A n \in Height : Replaced(n) => n > 0
<1>1. \A n \in Height : Replaced(n) => n >= minFork
  BY HeadType DEF IInv, TablesInv, TrailKnown, ChainInv, Replaced, Height
<1>2. minFork >= 1 /\ minFork \in Nat
  BY ChainAssumption DEF IInv, ChainInv, ChainTypeOK
<1> QED
  BY <1>1, <1>2, HeadType, ChainAssumption, IndexerAssumption
     DEF IInv, ChainInv, TablesInv, LocalInv, Height

\* Only a reorg and the two ends of a walk change the history.
LEMMA HistoryKept ==
  ASSUME Observe, UNCHANGED fork, ~(pc = "check" /\ pc' = "scan"),
         ~(pc = "scan" /\ pc' = "head" /\ UNCHANGED faults), ~(pc = "prune" /\ trail' # trail)
  PROVE  UNCHANGED <<suspect, fresh>>
BY DEF Observe, Replaces, WalkBegins, WalkCovers, WalkEnds, Otherwise

\* What is stale stays suspected as long as no more heights are reached.
LEMMA SuspicionKept ==
  ASSUME IInv, DetectInv, UNCHANGED <<chainVars, trail, last, suspect, fresh>>,
         \A n \in Height : Replaced(n) /\ Reached(n)' => Reached(n),
         pc' \in {"scan", "prune"} => pc = "scan" /\ UNCHANGED at
  PROVE  Suspected'
BY DEF DetectInv, Suspected, Replaced, Oldest, Hash, chainVars

\* The process is in main, or at the start of an iteration.
LEMMA OutsideStep ==
  ASSUME IInv, DetectInv, Observe, UNCHANGED <<chainVars, trail, last>>,
         pc \notin {"check"}, pc' \in {"track", "pending", "apply", "boot", "check"},
         StartBlock <= cursor',
         \A n \in Height : 0 < n /\ n < cursor' /\ ~(last # None /\ n <= last) => trail[n] = None
  PROVE  DetectInv'
<1>1. UNCHANGED <<suspect, fresh>>
  BY HistoryKept DEF chainVars
<1>2. \A n \in Height : Replaced(n) /\ Reached(n)' => Reached(n)
  BY DEF Reached
<1>3. Suspected'
  BY <1>1, <1>2, SuspicionKept
<1>4. Unrecorded' /\ Places'
  BY DEF DetectInv, Unrecorded, Places, InRange
<1> QED
  BY <1>3, <1>4 DEF DetectInv

LEMMA ExitOut ==
  ASSUME IInv, DetectInv, Observe, UNCHANGED <<chainVars, trail, last>>, pc # "check", Exit
  PROVE  DetectInv'
BY OutsideStep, DetectTypes DEF Exit, DetectInv, Unrecorded

\* The same range, or none, is tried again.
LEMMA RetryOut ==
  ASSUME IInv, DetectInv, Observe, UNCHANGED <<chainVars, trail, last>>, pc # "check", Iterate(cursor)
  PROVE  DetectInv'
BY OutsideStep DEF Iterate, DetectInv, Unrecorded

\* detectReorg returns without having changed anything, after an error or
\* because there is nothing to walk over.
LEMMA CheckedOut ==
  ASSUME IInv, DetectInv, UNCHANGED <<chainVars, trail, last, suspect, fresh>>, Checked,
         pc \in {"check", "scan", "prune", "rewind"}
  PROVE  DetectInv'
<1>1. \A n \in Height : Replaced(n) /\ Reached(n)' => Reached(n)
  BY DEF Reached, Checked
<1>2. Suspected'
  BY <1>1, SuspicionKept DEF Checked
<1>3. Unrecorded' /\ Places'
  BY DEF Checked, DetectInv, Unrecorded, Places, InRange
<1> QED
  BY <1>2, <1>3 DEF DetectInv

-----------------------------------------------------------------------------
(* The steps of the process.                                               *)

\* main: Migrate and the saved state.
LEMMA DetectStart ==
  ASSUME IInv, DetectInv, Observe, Track \/ Pending \/ Apply \/ Boot
  PROVE  DetectInv'
<1>1. /\ UNCHANGED <<chainVars, trail, last>>
      /\ pc \in {"track", "pending", "apply", "boot"}
  BY DEF Track, Pending, Apply, Boot, WriteCall, ReadCall, db, data
<1>2. CASE Exit
  BY <1>1, <1>2, ExitOut
<1>3. CASE UNCHANGED local /\ pc' \in {"pending", "apply", "boot"}
  BY <1>1, <1>3, OutsideStep DEF local, DetectInv, Unrecorded
<1>4. CASE pc = "boot" /\ Iterate(IF last = None THEN StartBlock ELSE last + 1)
  <2>1. pc' = "check" /\ cursor' = IF last = None THEN StartBlock ELSE last + 1
    BY <1>4 DEF Iterate
  <2>2. /\ StartBlock <= cursor'
        /\ \A n \in Height : 0 < n /\ n < cursor' /\ ~(last # None /\ n <= last) => trail[n] = None
    BY <2>1, DetectTypes DEF DetectInv, Unrecorded
  <2> QED
    BY <1>1, <1>4, <2>1, <2>2, OutsideStep
<1> QED
  BY <1>2, <1>3, <1>4 DEF Track, Pending, Apply, Boot, WriteCall, ReadCall, Goto

\* detectReorg begins: nothing is passed yet.
LEMMA DetectCheck ==
  ASSUME IInv, DetectInv, Observe, Check
  PROVE  DetectInv'
<1> USE DetectTypes
<1>1. pc = "check" /\ UNCHANGED <<chainVars, trail, last>>
  BY DEF Check, ReadCall, db, data
<1>2. CASE Checked
  <2>1. UNCHANGED <<suspect, fresh>>
    BY <1>1, <1>2, HistoryKept DEF Checked, chainVars
  <2> QED
    BY <1>1, <1>2, <2>1, CheckedOut
<1>3. CASE pc' = "scan" /\ at' = last - ReorgDepth + 1 /\ UNCHANGED <<cursor, end, logs, seen>>
  <2>1. fresh' = Never /\ UNCHANGED suspect
    BY <1>1, <1>3 DEF Observe, Replaces, WalkBegins, WalkCovers, WalkEnds, Otherwise, chainVars
  <2>2. Suspected'
    BY <1>1, <1>3, <2>1
       DEF DetectInv, Suspected, Reached, Replaced, Oldest, Hash, Never, chainVars
  <2>3. Unrecorded' /\ Places'
    BY <1>1, <1>3 DEF DetectInv, Unrecorded, Places, InRange
  <2> QED
    BY <2>2, <2>3 DEF DetectInv
<1> QED
  BY <1>2, <1>3 DEF Check, ReadCall

\* One turn of the walk.  At its end the blocks that were replaced before it
\* began and are in the window have been compared, or are not on the chain.
LEMMA DetectScan ==
  ASSUME IInv, DetectInv, Observe, Scan
  PROVE  DetectInv'
<1> USE DetectTypes
<1>1. /\ pc = "scan" /\ UNCHANGED <<chainVars, trail, last>>
      /\ last # None
  BY DEF Scan, ReadCall, db, data, IInv, CallInv
<1>2. CASE Fault /\ Checked
  <2>1. UNCHANGED <<suspect, fresh>>
    BY <1>1, <1>2, HistoryKept DEF IInv, BoundsInv, Fault, chainVars
  <2> QED
    BY <1>1, <1>2, <2>1, CheckedOut
<1>3. CASE NoFault /\ Checked /\ (at > last \/ NotFound(at))
  <2>1. PICK unseen \in 0..Never :
            /\ unseen = IF at <= last THEN at ELSE Never
            /\ suspect' = IF Oldest <= suspect THEN Minimum(fresh, unseen) ELSE suspect
            /\ UNCHANGED fresh
    BY <1>1, <1>3 DEF Observe, Replaces, WalkBegins, WalkCovers, WalkEnds, Otherwise, chainVars,
         NoFault, bounds, Checked, Never, IInv, TablesInv, Height
  <2>2. ASSUME NEW n \in Height, Replaced(n), n <= last
        PROVE  n >= suspect'
    <3>1. n >= suspect
      BY <1>1, <2>2 DEF DetectInv, Suspected, Reached
    <3>2. CASE Oldest <= suspect /\ n < at
      <4>1. Oldest \in Int /\ suspect \in Nat /\ fresh \in Nat /\ unseen \in Int
        BY <1>1 DEF Oldest, DetectInv, Suspected, Never
      <4>2. n >= fresh
        BY <1>1, <2>2, <3>1, <3>2, <4>1 DEF DetectInv, Suspected
      <4> QED
        BY <2>1, <3>2, <4>1, <4>2 DEF Minimum
    <3>3. CASE Oldest <= suspect /\ n >= at
      BY <1>1, <2>1, <2>2, <3>3 DEF Minimum, DetectInv, Suspected
    <3> QED
      BY <2>1, <3>1, <3>2, <3>3
  <2>3. Suspected'
    <3>1. suspect' \in Nat /\ fresh' \in Nat
      BY <2>1 DEF DetectInv, Suspected, Minimum, Never
    <3>2. pc' = "head"
      BY <1>3 DEF Checked
    <3>3. \A n \in Height : (Replaced(n) /\ Reached(n))' => Replaced(n) /\ n <= last
      BY <1>1, <3>2 DEF Replaced, Reached, Hash, chainVars
    <3> QED
      BY <2>2, <3>1, <3>2, <3>3 DEF Suspected
  <2>4. Unrecorded' /\ Places'
    BY <1>1, <1>3 DEF Checked, DetectInv, Unrecorded, Places, InRange
  <2> QED
    BY <2>3, <2>4 DEF DetectInv
<1>4. CASE NoFault /\ ~(at > last \/ NotFound(at)) /\ Mismatch(at) /\ Goto("prune")
  <2>1. UNCHANGED <<suspect, fresh>>
    BY <1>1, <1>4, HistoryKept DEF Goto, chainVars
  <2>2. at \in Height /\ StartBlock <= at
    BY <1>1, <1>4 DEF IInv, TablesInv, Height, Mismatch, DetectInv, Unrecorded
  <2>3. Suspected'
    BY <1>1, <1>4, <2>1 DEF Goto, local, DetectInv, Suspected, Reached, Replaced, Oldest, Hash, chainVars
  <2>4. Unrecorded' /\ Places'
    BY <1>1, <1>4, <2>2 DEF Goto, local, DetectInv, Unrecorded, Places, InRange
  <2> QED
    BY <2>3, <2>4 DEF DetectInv
<1>5. CASE NoFault /\ ~(at > last \/ NotFound(at)) /\ ~Mismatch(at)
           /\ at' = at + 1 /\ UNCHANGED <<pc, cursor, end, logs, seen>>
  <2>1. UNCHANGED <<suspect, fresh>>
    BY <1>1, <1>5, HistoryKept DEF chainVars
  <2>2. ~Replaced(at)
    BY <1>1, <1>5 DEF Replaced, Mismatch, NotFound
  <2>3. Suspected'
    BY <1>1, <1>5, <2>1, <2>2 DEF DetectInv, Suspected, Reached, Replaced, Oldest, Hash, chainVars
  <2>4. Unrecorded' /\ Places'
    BY <1>1, <1>5 DEF DetectInv, Unrecorded, Places, InRange
  <2> QED
    BY <2>3, <2>4 DEF DetectInv
<1> QED
  BY <1>2, <1>3, <1>4, <1>5 DEF Scan, ReadCall

\* A prune leaves what is below the first mismatch, all of which the walk has
\* passed or is below the window.
LEMMA DetectPrune ==
  ASSUME IInv, DetectInv, Observe, Prune
  PROVE  DetectInv'
<1> USE DetectTypes
<1>1. /\ pc = "prune" /\ UNCHANGED <<chainVars, last>> /\ last # None
      /\ pc' \in {"rewind", "head"} /\ UNCHANGED <<cursor, end>>
      /\ pc' = "rewind" => at' = at /\ PruneBlocksFrom(at)
  BY DEF Prune, WriteCall, PruneBlocksFrom, Goto, Checked, local, db, data, IInv, CallInv
<1>2. CASE UNCHANGED trail
  <2>1. UNCHANGED <<suspect, fresh>>
    BY <1>1, <1>2, HistoryKept DEF chainVars
  <2>2. \A n \in Height : Replaced(n) /\ Reached(n)' => Reached(n)
    BY <1>1, <1>2 DEF Reached
  <2>3. Suspected'
    BY <1>1, <1>2, <2>1, <2>2, SuspicionKept
  <2>4. Unrecorded' /\ Places'
    BY <1>1, <1>2 DEF DetectInv, Unrecorded, Places, InRange, PruneBlocksFrom
  <2> QED
    BY <2>3, <2>4 DEF DetectInv
<1>3. CASE trail' # trail
  <2>1. trail' = [m \in Height |-> IF m >= at THEN None ELSE trail[m]]
    BY <1>3 DEF Prune, WriteCall, PruneBlocksFrom, db, data
  <2>2. /\ suspect' = IF Oldest <= suspect THEN Minimum(fresh, Never) ELSE suspect
        /\ UNCHANGED fresh
    BY <1>1, <1>3 DEF Observe, Replaces, WalkBegins, WalkCovers, WalkEnds, Otherwise, chainVars, Never
  <2>3. \A n \in Height : Replaced(n)' => Replaced(n) /\ n < at
    BY <1>1, <2>1 DEF Replaced, Hash, chainVars
  <2>4. ASSUME NEW n \in Height, Replaced(n), n <= last, n < at
        PROVE  n >= suspect'
    <3>1. n >= suspect
      BY <1>1, <2>4 DEF DetectInv, Suspected, Reached
    <3>2. Oldest \in Int /\ suspect \in Nat /\ fresh \in Nat /\ Never \in Int
      BY <1>1 DEF Oldest, DetectInv, Suspected, Never
    <3>3. Oldest <= n => n >= fresh
      BY <1>1, <2>4 DEF DetectInv, Suspected
    <3> QED
      BY <2>2, <3>1, <3>2, <3>3 DEF Minimum
  <2>5. Suspected'
    <3>1. suspect' \in Nat /\ fresh' \in Nat
      BY <2>2 DEF DetectInv, Suspected, Minimum, Never
    <3>2. \A n \in Height : (Replaced(n) /\ Reached(n))' => Replaced(n) /\ n <= last /\ n < at
      BY <1>1, <2>3 DEF Reached
    <3> QED
      BY <1>1, <2>4, <3>1, <3>2 DEF Suspected
  <2>6. Unrecorded' /\ Places'
    BY <1>1, <2>1 DEF DetectInv, Unrecorded, Places, InRange
  <2> QED
    BY <2>5, <2>6 DEF DetectInv
<1> QED
  BY <1>2, <1>3

\* The rewind leaves a gap in which the trail is empty.
LEMMA DetectRewind ==
  ASSUME IInv, DetectInv, Observe, Rewind
  PROVE  DetectInv'
<1> USE DetectTypes
<1>1. /\ pc = "rewind" /\ UNCHANGED <<chainVars, trail>> /\ last # None /\ 1 <= at /\ at <= last
      /\ last' \in {at - 1, last}
      /\ Checked
  BY DEF Rewind, WriteCall, UpsertIndexerState, db, data, IInv, CallInv
<1>2. UNCHANGED <<suspect, fresh>>
  BY <1>1, HistoryKept DEF chainVars
<1>3. last' # None
  BY <1>1
<1>4. Suspected'
  BY <1>1, <1>2, <1>3 DEF Checked, DetectInv, Suspected, Reached, Replaced, Hash, chainVars
<1>5. Unrecorded' /\ Places'
  BY <1>1, <1>3 DEF Checked, DetectInv, Unrecorded, Places, InRange
<1> QED
  BY <1>4, <1>5 DEF DetectInv

\* A range begins at the cursor, and is not empty.
LEMMA DetectHead ==
  ASSUME IInv, DetectInv, Observe, Head
  PROVE  DetectInv'
<1> USE DetectTypes
<1>1. pc = "head" /\ UNCHANGED <<chainVars, trail, last>>
  BY DEF Head, ReadCall, db, data
<1>2. CASE Iterate(cursor)
  BY <1>1, <1>2, RetryOut
<1>3. CASE cursor <= head /\ pc' = "filter" /\ end' = Minimum(cursor + BlockBatch - 1, head)
           /\ UNCHANGED <<cursor, at, logs, seen>>
  <2>1. cursor <= end'
    BY <1>3 DEF Minimum
  <2>2. UNCHANGED <<suspect, fresh>>
    BY <1>1, HistoryKept DEF chainVars
  <2>3. \A n \in Height : Replaced(n) /\ Reached(n)' => Reached(n)
    BY <1>1, <1>3 DEF Reached
  <2>4. Suspected'
    BY <1>1, <1>3, <2>2, <2>3, SuspicionKept
  <2>5. Unrecorded' /\ Places'
    BY <1>1, <1>3, <2>1 DEF DetectInv, Unrecorded, Places, InRange
  <2> QED
    BY <2>4, <2>5 DEF DetectInv
<1> QED
  BY <1>2, <1>3 DEF Head, ReadCall

\* Until the trail is written the range adds nothing that could be stale.
LEMMA DetectIngest ==
  ASSUME IInv, DetectInv, Observe, Filter \/ Ingest \/ IngestDone
  PROVE  DetectInv'
<1> USE DetectTypes
<1>1. pc \in {"filter", "ingest"} /\ UNCHANGED <<chainVars, trail, last>>
  BY DEF Filter, Ingest, IngestDone, ReadCall, WriteCall, InsertEvent, db, data
<1>2. CASE Iterate(cursor)
  BY <1>1, <1>2, RetryOut
<1>3. CASE /\ pc' \in {"ingest", "trail"} /\ UNCHANGED <<cursor, end>>
           /\ pc' = "trail" => at' = cursor
  <2>1. UNCHANGED <<suspect, fresh>>
    BY <1>1, HistoryKept DEF chainVars
  <2>2. \A n \in Height : Replaced(n) /\ Reached(n)' => Reached(n)
    BY <1>1, <1>3 DEF Reached, Replaced, DetectInv, Unrecorded
  <2>3. Suspected'
    BY <1>1, <1>3, <2>1, <2>2, SuspicionKept
  <2>4. Unrecorded' /\ Places'
    BY <1>1, <1>3 DEF DetectInv, Unrecorded, Places, InRange
  <2> QED
    BY <2>3, <2>4 DEF DetectInv
<1> QED
  BY <1>2, <1>3 DEF Filter, Ingest, IngestDone, ReadCall, WriteCall, RangeFailed

\* A hash is recorded of a block that is on the chain.
LEMMA DetectTrail ==
  ASSUME IInv, DetectInv, Observe, Trail
  PROVE  DetectInv'
<1> USE DetectTypes
<1>1. /\ pc = "trail" /\ at <= end /\ UNCHANGED <<chainVars, last>>
      /\ UNCHANGED trail \/ (~NotFound(at) /\ trail' = [trail EXCEPT ![at] = Hash(at)])
  BY DEF Trail, WriteCall, RecordBlock, db, data
<1>2. UNCHANGED <<suspect, fresh>>
  BY <1>1, HistoryKept DEF chainVars
<1>3. StartBlock <= at /\ cursor <= at /\ at \in Height
  BY <1>1 DEF DetectInv, Unrecorded, Places, IInv, LocalInv, Height
<1>4. CASE UNCHANGED trail /\ Iterate(cursor)
  BY <1>1, <1>4, RetryOut
<1>5. CASE ~NotFound(at) /\ trail' = [trail EXCEPT ![at] = Hash(at)]
           /\ (Iterate(cursor) \/ (at' = at + 1 /\ UNCHANGED <<pc, cursor, end, logs, seen>>))
  <2>1. \A n \in Height : Replaced(n)' => Replaced(n) /\ n # at
    BY <1>1, <1>3, <1>5 DEF Replaced, NotFound, Hash, chainVars
  <2>2. \A n \in Height : n # at /\ Reached(n)' => Reached(n)
    BY <1>1, <1>5 DEF Reached, Iterate
  <2>3. Suspected'
    BY <1>1, <1>2, <1>5, <2>1, <2>2 DEF Iterate, DetectInv, Suspected
  <2>4. \A n \in Height : n # at => trail'[n] = trail[n]
    BY <1>5
  <2>5. Unrecorded' /\ Places'
    BY <1>1, <1>3, <1>5, <2>4 DEF Iterate, DetectInv, Unrecorded, Places, InRange
  <2> QED
    BY <2>3, <2>5 DEF DetectInv
<1> QED
  BY <1>1, <1>4, <1>5 DEF Trail, WriteCall, RecordBlock, RangeFailed, db, data

\* Of the genesis block alone nothing is saved, and it is never replaced.
LEMMA DetectTrailDone ==
  ASSUME IInv, DetectInv, Observe, TrailDone
  PROVE  DetectInv'
<1> USE DetectTypes
<1>1. pc = "trail" /\ at > end /\ UNCHANGED <<chainVars, trail, last>>
  BY DEF TrailDone, db, data
<1>2. CASE end > 0 /\ Goto("save")
  <2>1. UNCHANGED <<suspect, fresh>>
    BY <1>1, HistoryKept DEF chainVars
  <2>2. \A n \in Height : Replaced(n) /\ Reached(n)' => Reached(n)
    BY <1>1, <1>2 DEF Reached, Goto, local
  <2>3. Suspected'
    BY <1>1, <1>2, <2>1, <2>2, SuspicionKept DEF Goto
  <2>4. Unrecorded' /\ Places'
    BY <1>1, <1>2 DEF DetectInv, Unrecorded, Places, InRange, Goto, local
  <2> QED
    BY <2>3, <2>4 DEF DetectInv
<1>3. CASE ~(end > 0) /\ Iterate(end + 1)
  <2>1. pc' = "check" /\ cursor' = 1
    BY <1>3 DEF Iterate
  <2>2. /\ StartBlock <= cursor'
        /\ \A n \in Height : 0 < n /\ n < cursor' /\ ~(last # None /\ n <= last) => trail[n] = None
    BY <1>1, <1>3, <2>1 DEF DetectInv, Unrecorded, Places, InRange
  <2> QED
    BY <1>1, <2>1, <2>2, OutsideStep
<1> QED
  BY <1>2, <1>3 DEF TrailDone, RangeDone

\* The range is saved when all of its trail is written.
LEMMA DetectSave ==
  ASSUME IInv, DetectInv, Observe, Save
  PROVE  DetectInv'
<1> USE DetectTypes
<1>1. pc = "save" /\ UNCHANGED <<chainVars, trail>> /\ last' \in {end, last}
  BY DEF Save, WriteCall, UpsertIndexerState, db, data
<1>2. CASE UNCHANGED last /\ Iterate(cursor)
  BY <1>1, <1>2, RetryOut
<1>3. CASE last' = end /\ (Iterate(cursor) \/ Goto("assets"))
  <2>1. UNCHANGED <<suspect, fresh>>
    BY <1>1, HistoryKept DEF chainVars
  <2>2. pc' \in {"check", "assets"} /\ cursor' = cursor /\ (pc' = "assets" => end' = end)
    BY <1>3 DEF Iterate, Goto, local
  <2>3. cursor <= end /\ StartBlock <= cursor
    BY <1>1 DEF DetectInv, Places, InRange, Unrecorded
  <2>4. \A n \in Height : Reached(n)' => Reached(n)
    BY <1>1, <1>3, <2>2 DEF Reached
  <2>5. Suspected'
    BY <1>1, <2>1, <2>2, <2>4 DEF DetectInv, Suspected, Replaced, Hash, chainVars
  <2>6. Unrecorded'
    BY <1>1, <1>3, <2>2, <2>3 DEF DetectInv, Unrecorded
  <2>7. Places'
    BY <1>3, <2>2, <2>3 DEF Places, InRange
  <2> QED
    BY <2>5, <2>6, <2>7 DEF DetectInv
<1> QED
  BY <1>1, <1>2, <1>3 DEF Save, WriteCall, UpsertIndexerState, RangeFailed, db, data

\* The snapshot is taken of a range that is saved.
LEMMA DetectSnapshot ==
  ASSUME IInv, DetectInv, Observe, ReadAssets \/ ReadSupply
  PROVE  DetectInv'
<1> USE DetectTypes
<1>1. pc \in {"assets", "supply"} /\ UNCHANGED <<chainVars, trail, last>>
  BY DEF ReadAssets, ReadSupply, ReadCall, WriteCall, InsertSnapshot, db, data
<1>2. CASE pc' = "supply" /\ UNCHANGED <<cursor, end>>
  <2>1. UNCHANGED <<suspect, fresh>>
    BY <1>1, HistoryKept DEF chainVars
  <2>2. \A n \in Height : Replaced(n) /\ Reached(n)' => Reached(n)
    BY <1>1, <1>2 DEF Reached
  <2>3. Suspected'
    BY <1>1, <1>2, <2>1, <2>2, SuspicionKept
  <2>4. Unrecorded' /\ Places'
    BY <1>1, <1>2 DEF DetectInv, Unrecorded, Places, InRange
  <2> QED
    BY <2>3, <2>4 DEF DetectInv
<1>3. CASE Iterate(end + 1)
  <2>1. pc' = "check" /\ cursor' = end + 1 /\ last = end /\ last # None /\ end \in Nat
    BY <1>1, <1>3 DEF Iterate, DetectInv, Places
  <2>2. /\ StartBlock <= cursor'
        /\ \A n \in Height : 0 < n /\ n < cursor' /\ ~(last # None /\ n <= last) => trail[n] = None
    BY <2>1 DEF DetectInv, Unrecorded
  <2> QED
    BY <1>1, <2>1, <2>2, OutsideStep
<1> QED
  BY <1>2, <1>3 DEF ReadAssets, ReadSupply, ReadCall, WriteCall, RangeDone

\* A restart forgets the walk, and with it what the walk had passed.
LEMMA DetectCrash ==
  ASSUME IInv, DetectInv, Observe, Crash
  PROVE  DetectInv'
<1> USE DetectTypes
<1>1. UNCHANGED <<chainVars, trail, last>> /\ Exit
  BY DEF Crash, db, data
<1>2. CASE pc # "check"
  BY <1>1, <1>2, ExitOut
<1>3. CASE pc = "check"
  <2>1. UNCHANGED <<suspect, fresh>> /\ pc' = "track" /\ cursor' = StartBlock
    BY <1>1, <1>3, HistoryKept DEF Exit, chainVars
  <2>2. \A n \in Height : Replaced(n) /\ Reached(n)' => Reached(n)
    BY <1>1, <1>3, <2>1 DEF Reached
  <2>3. Suspected'
    BY <1>1, <2>1, <2>2, SuspicionKept
  <2>4. Unrecorded' /\ Places'
    BY <1>1, <2>1 DEF DetectInv, Unrecorded, Places, InRange
  <2> QED
    BY <2>3, <2>4 DEF DetectInv
<1> QED
  BY <1>2, <1>3

-----------------------------------------------------------------------------
(* The chain moves.                                                        *)

\* A new block is above every recorded height.
LEMMA DetectMine ==
  ASSUME IInv, DetectInv, Observe, NEW S \in SUBSET Tx, MineBlock(S), UNCHANGED <<db, pc, local, bounds>>
  PROVE  DetectInv'
<1> USE DetectTypes
<1>1. /\ UNCHANGED <<pc, cursor, at, end, trail, last, fork>> /\ head' = head + 1
      /\ \A n \in 0..head : chain'[n] = chain[n]
  BY DEF MineBlock, db, data, local
<1>2. UNCHANGED <<suspect, fresh>>
  BY <1>1, HistoryKept
<1>3. \A n \in Height : Replaced(n)' => Replaced(n)
  BY <1>1 DEF Replaced, Hash
<1>4. \A n \in Height : Reached(n)' <=> Reached(n)
  BY <1>1 DEF Reached
<1>5. Suspected'
  BY <1>1, <1>2, <1>3, <1>4 DEF DetectInv, Suspected, Oldest
<1>6. Unrecorded' /\ Places'
  BY <1>1 DEF DetectInv, Unrecorded, Places, InRange
<1> QED
  BY <1>5, <1>6 DEF DetectInv

\* A reorg replaces no block below its new head.
LEMMA DetectReorg ==
  ASSUME IInv, DetectInv, Observe, NEW S \in SUBSET Tx, NEW k \in 1..head, Reorg(k, S),
         UNCHANGED <<db, pc, local, bounds>>
  PROVE  DetectInv'
<1> USE DetectTypes
<1>1. /\ UNCHANGED <<pc, cursor, at, end, trail, last, rows, faults>> /\ head' = k /\ fork' = fork + 1
      /\ \A n \in 0..k : n < k => chain'[n] = chain[n]
      /\ fork \in Nat /\ k \in Nat
  BY ChainAssumption DEF Reorg, db, data, local, bounds, IInv, ChainInv, ChainTypeOK
<1>2. suspect' = Minimum(suspect, k) /\ fresh' = Minimum(fresh, k)
  BY <1>1 DEF Observe, Replaces, WalkBegins, WalkCovers, WalkEnds, Otherwise
<1>3. /\ suspect' \in Nat /\ suspect' <= suspect /\ suspect' <= k
      /\ fresh' \in Nat /\ fresh' <= fresh /\ fresh' <= k
  BY <1>1, <1>2 DEF DetectInv, Suspected, Minimum
<1>4. \A n \in Height : Replaced(n)' => Replaced(n) \/ n >= k
  BY <1>1 DEF Replaced, Hash
<1>5. \A n \in Height : Reached(n)' <=> Reached(n)
  BY <1>1 DEF Reached
<1>6. suspect \in Nat /\ fresh \in Nat /\ Oldest' = Oldest
  BY <1>1 DEF DetectInv, Suspected, Oldest
<1>7. \A n \in Height : (Replaced(n) /\ Reached(n))' => n >= suspect'
  BY <1>1, <1>3, <1>4, <1>5, <1>6 DEF DetectInv, Suspected
<1>8. pc \in {"scan", "prune"} =>
        \A n \in Height : Oldest <= n /\ n < at /\ Replaced(n)' => n >= fresh'
  BY <1>1, <1>3, <1>4, <1>6 DEF DetectInv, Suspected
<1>9. Suspected'
  BY <1>1, <1>3, <1>6, <1>7, <1>8 DEF Suspected
<1>10. Unrecorded' /\ Places'
  BY <1>1 DEF DetectInv, Unrecorded, Places, InRange
<1> QED
  BY <1>9, <1>10 DEF DetectInv

-----------------------------------------------------------------------------
\* The strengthened invariant is inductive, given that of the tables.
LEMMA DetectStep ==
  ASSUME IInv, DetectInv, [DetectNext]_detectVars
  PROVE  DetectInv'
<1>1. CASE UNCHANGED detectVars
  BY <1>1 DEF detectVars, vars, chainVars, db, data, local, DetectInv, Unrecorded, Places, InRange,
     Suspected, Reached, Replaced, Oldest, Hash
<1>2. CASE Environment /\ Observe
  BY <1>2, DetectMine, DetectReorg DEF Environment, ChainNext
<1>3. CASE Process /\ Observe
  BY <1>3, DetectStart, DetectCheck, DetectScan, DetectPrune, DetectRewind, DetectHead, DetectIngest,
     DetectTrail, DetectTrailDone, DetectSave, DetectSnapshot DEF Process
<1>4. CASE Crash /\ Observe
  BY <1>4, DetectCrash
<1> QED
  BY <1>1, <1>2, <1>3, <1>4 DEF DetectNext, Next

LEMMA InitDetectInv ==
  ASSUME DetectInit
  PROVE  DetectInv
BY ChainAssumption, IndexerAssumption
   DEF DetectInit, Init, ChainInit, DetectInv, Unrecorded, Places, InRange, Suspected, Reached, Replaced,
       Never, Height

\* In every state in which any process runs over any chain: a recorded hash
\* that is no longer canonical was replaced since the last complete walk over
\* it, or was below the window of every walk since (detectReorg).
THEOREM IndexerStaleIsSuspect == DetectSpec => []StaleIsSuspect
<1>1. DetectInit => IInv /\ DetectInv
  BY InitIInv, InitDetectInv DEF DetectInit
<1>2. IInv /\ DetectInv /\ [DetectNext]_detectVars => IInv' /\ DetectInv'
  BY DetectStep, InvariantStep DEF DetectNext, detectVars
<1>3. DetectInv => StaleIsSuspect
  BY DEF DetectInv, Suspected, StaleIsSuspect, Reached
<1> QED
  BY <1>1, <1>2, <1>3, PTL DEF DetectSpec
=============================================================================
