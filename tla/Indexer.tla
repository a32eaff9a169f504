------------------------------- MODULE Indexer -------------------------------
(***************************************************************************)
(* backend/cmd/indexer and backend/internal/indexer, with the tables of    *)
(* backend/internal/db: the migration at startup, then the loop of Run     *)
(* with detectReorg, processRange and the exchange-rate snapshot, one      *)
(* action per RPC or database call, beside a chain that moves between any  *)
(* two calls.  A call may fail, a failed write may have been committed all *)
(* the same, and the process may crash and restart between two calls.      *)
(***************************************************************************)
EXTENDS Chain

CONSTANTS
    StartBlock, BlockBatch, ReorgDepth,     \* the fields of indexer.Config
    MaxFaults, MaxCrashes,                  \* bounds on failed calls and crashes
    None                                    \* a row that is not there

ASSUME IndexerAssumption ==
    /\ StartBlock \in Nat
    /\ BlockBatch \in Nat \ {0}
    /\ ReorgDepth \in Nat
    /\ MaxFaults \in Nat
    /\ MaxCrashes \in Nat
    /\ None \notin Int

VARIABLES
    \* the database
    schema,     \* what Migrate has created: its own table, its entry, the tables
    rows,       \* deposits, withdrawals, reward_distributions, by (tx_hash, log_index)
    trail,      \* block_trail: the recorded hash, by height
    last,       \* indexer_state.last_block
    snapshot,   \* the exchange_rate_snapshots row with the newest timestamp
    \* the process
    pc,         \* the next call
    cursor,     \* the variable of Run: the next block to process
    at,         \* the loop variable of detectReorg and of the trail loop
    end,        \* the upper end of the range in progress
    logs,       \* logs of the range still to be ingested
    seen,       \* the chain tip at which totalAssets was read
    \* the bounds
    faults, crashes

data   == <<rows, trail, last, snapshot>>
db     == <<schema, data>>
local  == <<cursor, at, end, logs, seen>>
bounds == <<faults, crashes>>
vars   == <<chainVars, db, pc, local, bounds>>

\* A block as its readers know it.
Hash(n)  == chain[n].id
BlockRef == Height \X (0..MaxReorgs)
Tip      == <<head, Hash(head)>>

Row  == [number : Height, hash : 0..MaxReorgs, time : 0..MaxReorgs]
Log  == [tx : Tx, number : Height, hash : 0..MaxReorgs]
Snap == [number : Height, assets : BlockRef, supply : BlockRef]

ASSUME NoneAssumption == None \notin Row

Schema == {"tracking", "recorded", "tables"}

Calls == {"track", "pending", "apply", "boot", "check", "scan", "prune", "rewind", "head", "filter",
          "ingest", "trail", "save", "assets", "supply"}

TypeOK ==
    /\ ChainTypeOK
    /\ schema \subseteq Schema
    /\ rows \in [Tx -> Row \cup {None}]
    /\ trail \in [Height -> 0..MaxReorgs \cup {None}]
    /\ last \in Height \cup {None}
    /\ snapshot \in Snap \cup {None}
    /\ pc \in Calls
    /\ cursor \in Nat
    /\ at \in Nat
    /\ end \in Height
    /\ logs \subseteq Log
    /\ seen \in BlockRef \cup {None}
    /\ faults \in 0..MaxFaults
    /\ crashes \in 0..MaxCrashes

-----------------------------------------------------------------------------
Init ==
    /\ ChainInit
    /\ schema = {}
    /\ rows = [t \in Tx |-> None]
    /\ trail = [n \in Height |-> None]
    /\ last = None
    /\ snapshot = None
    /\ pc = "track"
    /\ cursor = StartBlock
    /\ at = 0 /\ end = 0 /\ logs = {} /\ seen = None
    /\ faults = 0 /\ crashes = 0

-----------------------------------------------------------------------------
(* Calls.  Ok is what follows a call that returns, Err what follows an     *)
(* error; Write is the effect of a database write.                         *)

NoFault == UNCHANGED bounds
Fault   == faults < MaxFaults /\ faults' = faults + 1 /\ UNCHANGED crashes

ReadCall(Ok, Err) ==
    /\ UNCHANGED db
    /\ \/ Ok /\ NoFault
       \/ Err /\ Fault

WriteCall(Write, Ok, Err) ==
    \/ Write /\ Ok /\ NoFault
    \/ (Write \/ UNCHANGED db) /\ Err /\ Fault

Goto(label) == pc' = label /\ UNCHANGED local

\* The end of an iteration of Run, with or without sleep; the loop variables
\* of the iteration are gone.
Iterate(next) ==
    /\ pc' = "check"
    /\ cursor' = next
    /\ at' = 0 /\ end' = 0 /\ logs' = {} /\ seen' = None

\* log.Fatal, a signal or a crash: the process starts again from main.
Exit ==
    /\ pc' = "track"
    /\ cursor' = StartBlock
    /\ at' = 0 /\ end' = 0 /\ logs' = {} /\ seen' = None

\* detectReorg returns, with or without an error (which is only logged).
Checked == pc' = "head" /\ at' = 0 /\ UNCHANGED <<cursor, end, logs, seen>>

\* processRange returns an error: the same range is tried again.
RangeFailed == Iterate(cursor)
RangeDone   == Iterate(end + 1)

\* HeaderAt(n) finds no block.
NotFound(n) == n > head

-----------------------------------------------------------------------------
(* main: Migrate, then the state Run starts from.                          *)

\* CREATE TABLE IF NOT EXISTS schema_migrations.
Track ==
    /\ pc = "track"
    /\ WriteCall(schema' = schema \cup {"tracking"} /\ UNCHANGED data,
                 Goto("pending"), Exit)
    /\ UNCHANGED chainVars

Pending ==
    /\ pc = "pending"
    /\ ReadCall(Goto(IF "recorded" \in schema THEN "boot" ELSE "apply"), Exit)
    /\ UNCHANGED chainVars

Apply_NoTransaction ==     \* mutant: the entry is inserted after the commit
    /\ pc = "apply"
    /\ IF "tables" \in schema
         THEN Exit /\ UNCHANGED <<db, bounds>>
         ELSE \/ /\ schema' = schema \cup {"tables", "recorded"}
                 /\ UNCHANGED data /\ Goto("boot") /\ NoFault
              \/ /\ schema' = schema \cup {"tables"}
                 /\ UNCHANGED data /\ Exit /\ Fault
    /\ UNCHANGED chainVars

\* 001_init.up.sql and its entry in schema_migrations, in one transaction.
\* CREATE TABLE fails if the table is there.
Apply ==
    /\ pc = "apply"
    /\ IF "tables" \in schema
         THEN Exit /\ UNCHANGED <<db, bounds>>
         ELSE WriteCall(schema' = schema \cup {"tables", "recorded"} /\ UNCHANGED data,
                        Goto("boot"), Exit)
    /\ UNCHANGED chainVars

Boot_FromStart ==     \* mutant: the saved state is ignored
    /\ pc = "boot"
    /\ ReadCall(Iterate(StartBlock), Exit)
    /\ UNCHANGED chainVars

Boot ==
    /\ pc = "boot"
    /\ ReadCall(Iterate(IF last = None THEN StartBlock ELSE last + 1), Exit)
    /\ UNCHANGED chainVars

-----------------------------------------------------------------------------
(* detectReorg.                                                            *)

Check_NewestOnly ==     \* mutant: only the newest block is compared
    /\ pc = "check"
    /\ ReadCall(IF last = None \/ last < ReorgDepth
                  THEN Checked
                  ELSE /\ pc' = "scan"
                       /\ at' = last
                       /\ UNCHANGED <<cursor, end, logs, seen>>,
                Checked)
    /\ UNCHANGED chainVars

Check_OffByOne ==     \* mutant: the window is one block short
    /\ pc = "check"
    /\ ReadCall(IF last = None \/ last < ReorgDepth
                  THEN Checked
                  ELSE /\ pc' = "scan"
                       /\ at' = last - ReorgDepth + 2
                       /\ UNCHANGED <<cursor, end, logs, seen>>,
                Checked)
    /\ UNCHANGED chainVars

Check ==
    /\ pc = "check"
    /\ ReadCall(IF last = None \/ last < ReorgDepth
                  THEN Checked
                  ELSE /\ pc' = "scan"
                       /\ at' = last - ReorgDepth + 1
                       /\ UNCHANGED <<cursor, end, logs, seen>>,
                Checked)
    /\ UNCHANGED chainVars

Mismatch(n) == trail[n] # None /\ trail[n] # Hash(n)

\* One turn of the walk from the oldest block of the window to the newest.
Scan ==
    /\ pc = "scan"
    /\ ReadCall(IF at > last \/ NotFound(at)
                  THEN Checked
                  ELSE IF Mismatch(at)
                         THEN Goto("prune")
                         ELSE at' = at + 1 /\ UNCHANGED <<pc, cursor, end, logs, seen>>,
                Checked)
    /\ UNCHANGED chainVars

PruneBlocksFrom_OneMore(n) ==     \* mutant: prunes the last good block as well
    /\ rows' = [t \in Tx |-> IF rows[t] # None /\ rows[t].number >= n - 1
                               THEN None ELSE rows[t]]
    /\ trail' = [m \in Height |-> IF m >= n - 1 THEN None ELSE trail[m]]
    /\ UNCHANGED <<schema, last, snapshot>>

\* PruneBlocksFrom(at), one database transaction.
PruneBlocksFrom(n) ==
    /\ rows' = [t \in Tx |-> IF rows[t] # None /\ rows[t].number >= n
                               THEN None ELSE rows[t]]
    /\ trail' = [m \in Height |-> IF m >= n THEN None ELSE trail[m]]
    /\ UNCHANGED <<schema, last, snapshot>>

UpsertIndexerState(n) ==
    /\ last' = n
    /\ UNCHANGED <<schema, rows, trail, snapshot>>

Prune ==
    /\ pc = "prune"
    /\ WriteCall(PruneBlocksFrom(at), Goto("rewind"), Checked)
    /\ UNCHANGED chainVars

\* The cursor of Run is not touched.
Rewind ==
    /\ pc = "rewind"
    /\ WriteCall(UpsertIndexerState(at - 1), Checked, Checked)
    /\ UNCHANGED chainVars

-----------------------------------------------------------------------------
(* Run and processRange.                                                   *)

Minimum(a, b) == IF a <= b THEN a ELSE b

Head_NoClamp ==     \* mutant: the range is not cut at the head
    /\ pc = "head"
    /\ ReadCall(IF cursor > head
                  THEN Iterate(cursor)
                  ELSE /\ pc' = "filter"
                       /\ end' = cursor + BlockBatch - 1
                       /\ UNCHANGED <<cursor, at, logs, seen>>,
                Iterate(cursor))
    /\ UNCHANGED chainVars

Head ==
    /\ pc = "head"
    /\ ReadCall(IF cursor > head
                  THEN Iterate(cursor)
                  ELSE /\ pc' = "filter"
                       /\ end' = Minimum(cursor + BlockBatch - 1, head)
                       /\ UNCHANGED <<cursor, at, logs, seen>>,
                Iterate(cursor))
    /\ UNCHANGED chainVars

LogsOf_AfterFirst(from, to) ==     \* mutant: fromBlock is taken to be exclusive
    UNION {{[tx |-> t, number |-> n, hash |-> Hash(n)] : t \in chain[n].txs \cap Indexed}
            : n \in (from + 1)..Minimum(to, head)}

\* eth_getLogs over the blocks of the range that are there, for the topics of
\* the three events.
LogsOf(from, to) ==
    UNION {{[tx |-> t, number |-> n, hash |-> Hash(n)] : t \in chain[n].txs \cap Indexed}
            : n \in from..Minimum(to, head)}

Filter ==
    /\ pc = "filter"
    /\ ReadCall(/\ pc' = "ingest"
                /\ logs' = LogsOf(cursor, end)
                /\ UNCHANGED <<cursor, at, end, seen>>,
                RangeFailed)
    /\ UNCHANGED chainVars

\* INSERT ... ON CONFLICT (tx_hash, log_index) DO NOTHING, with the timestamp
\* of the header that is at the log's height now.  A transaction that a reorg
\* moved to another log index is another member of Tx: it gets a second row.
InsertEvent(lg) ==
    /\ rows' = IF rows[lg.tx] # None THEN rows
               ELSE [rows EXCEPT ![lg.tx] =
                        [number |-> lg.number, hash |-> lg.hash, time |-> Hash(lg.number)]]
    /\ UNCHANGED <<schema, trail, last, snapshot>>

Ingest ==
    /\ pc = "ingest"
    /\ logs # {}
    /\ \E lg \in logs :
        /\ \A other \in logs : lg.number <= other.number
        /\ IF NotFound(lg.number)
             THEN RangeFailed /\ UNCHANGED <<db, bounds>>
             ELSE WriteCall(InsertEvent(lg),
                            logs' = logs \ {lg} /\ UNCHANGED <<pc, cursor, at, end, seen>>,
                            RangeFailed)
    /\ UNCHANGED chainVars

IngestDone ==
    /\ pc = "ingest"
    /\ logs = {}
    /\ pc' = "trail"
    /\ at' = cursor
    /\ UNCHANGED <<cursor, end, logs, seen, db, bounds, chainVars>>

RecordBlock(n) ==
    /\ trail' = [trail EXCEPT ![n] = Hash(n)]
    /\ UNCHANGED <<schema, rows, last, snapshot>>

Trail_Waits ==     \* mutant: a missing block is waited for
    /\ pc = "trail"
    /\ at <= end
    /\ ~NotFound(at)
    /\ WriteCall(RecordBlock(at),
                 at' = at + 1 /\ UNCHANGED <<pc, cursor, end, logs, seen>>,
                 RangeFailed)
    /\ UNCHANGED chainVars

\* The trail loop: HeaderAt(at), then the upsert of its hash.
Trail ==
    /\ pc = "trail"
    /\ at <= end
    /\ IF NotFound(at)
         THEN RangeFailed /\ UNCHANGED <<db, bounds>>
         ELSE WriteCall(RecordBlock(at),
                        at' = at + 1 /\ UNCHANGED <<pc, cursor, end, logs, seen>>,
                        RangeFailed)
    /\ UNCHANGED chainVars

\* For the genesis block alone no state is saved and no snapshot taken.
TrailDone ==
    /\ pc = "trail"
    /\ at > end
    /\ IF end > 0 THEN Goto("save") ELSE RangeDone
    /\ UNCHANGED <<db, bounds, chainVars>>

Save ==
    /\ pc = "save"
    /\ IF NotFound(end)
         THEN RangeFailed /\ UNCHANGED <<db, bounds>>
         ELSE WriteCall(UpsertIndexerState(end), Goto("assets"), RangeFailed)
    /\ UNCHANGED chainVars

-----------------------------------------------------------------------------
(* snapshotExchangeRate: two calls at whatever the head is at each of them. *)
(* Its failure is logged and the range is done all the same.               *)

ReadAssets ==
    /\ pc = "assets"
    /\ ReadCall(pc' = "supply" /\ seen' = Tip /\ UNCHANGED <<cursor, at, end, logs>>,
                RangeDone)
    /\ UNCHANGED chainVars

\* Timestamps grow with the height, so the newest row is one of the highest
\* block; ORDER BY timestamp picks any of two rows of the same block.
InsertSnapshot(row) ==
    /\ \E newest \in {row, snapshot} \ {None} :
        /\ \A other \in {row, snapshot} \ {None} : other.number <= newest.number
        /\ snapshot' = newest
    /\ UNCHANGED <<schema, rows, trail, last>>

ReadSupply_HeadLabel ==     \* mutant: filed under the current head
    /\ pc = "supply"
    /\ WriteCall(InsertSnapshot([number |-> head, assets |-> seen, supply |-> Tip]),
                 RangeDone, RangeDone)
    /\ UNCHANGED chainVars

ReadSupply ==
    /\ pc = "supply"
    /\ WriteCall(InsertSnapshot([number |-> end, assets |-> seen, supply |-> Tip]),
                 RangeDone, RangeDone)
    /\ UNCHANGED chainVars

-----------------------------------------------------------------------------
\* SIGTERM, a kill or a crash, and the restart of the process.
Crash ==
    /\ pc # "track"
    /\ crashes < MaxCrashes
    /\ crashes' = crashes + 1
    /\ Exit
    /\ UNCHANGED <<db, faults, chainVars>>

Environment == ChainNext /\ UNCHANGED <<db, pc, local, bounds>>

Process ==
    \/ Track \/ Pending \/ Apply
    \/ Boot \/ Check \/ Scan \/ Prune \/ Rewind
    \/ Head \/ Filter \/ Ingest \/ IngestDone \/ Trail \/ TrailDone \/ Save
    \/ ReadAssets \/ ReadSupply

Next == Environment \/ Process \/ Crash

Spec == Init /\ [][Next]_vars

\* The loop of Run keeps going; the chain need not, and calls fail and the
\* process crashes only finitely often (MaxFaults, MaxCrashes).
FairSpec == Spec /\ WF_vars(Process)
-----------------------------------------------------------------------------
(* Safety.                                                                 *)

\* Below the lowest reorg, and up to the saved block, the tables are the
\* chain: every event of a block has its row, with the block's height, hash
\* and timestamp, and no other row claims that height.  Crashes, failed
\* calls, half-done ranges and reorgs further up do not change that.
RowOf(n) == [number |-> n, hash |-> Hash(n), time |-> Hash(n)]

ExactAt(n) ==
    \A t \in Indexed : IF t \in chain[n].txs
                    THEN rows[t] = RowOf(n)
                    ELSE rows[t] # None => rows[t].number # n

StablePrefixExact ==
    last # None => \A n \in StartBlock..last : n < minFork => ExactAt(n)

\* Without reorgs, the indexer is an event mirror.
EM == INSTANCE EventMirror WITH
        Event <- Indexed, Start <- StartBlock, NoCheckpoint <- None,
        height <- head,
        produced <- UNION {(chain[n].txs \cap Indexed) \X {n} : n \in 0..head},
        stored <- {p \in Indexed \X Height : rows[p[1]] # None /\ rows[p[1]].number = p[2]},
        checkpoint <- last

ImplementsEventMirror == EM!Spec

\* The snapshot served by /tvl is never older than the block it is filed
\* under, and its supply is not older than its assets.
SnapshotNotOlderThanLabel ==
    snapshot # None => /\ snapshot.number <= snapshot.assets[1]
                       /\ snapshot.assets[1] <= snapshot.supply[1]

\* A recorded hash that is no longer canonical does not leave the detection
\* window behind the saved block, where no later walk would look at it.
Replaced(n) == trail[n] # None /\ (n > head \/ trail[n] # Hash(n))

StaleInWindow ==
    \A n \in Height : last # None /\ n <= last /\ Replaced(n) => n > last - ReorgDepth

-----------------------------------------------------------------------------
(* Liveness.                                                               *)

\* Every event of the chain without reorgs gets its row.
EventuallyIndexed ==
    \A t \in Indexed : (t \in Included \ chain[0].txs) ~> (rows[t] # None)

\* The retry loops end: with the chain at rest the indexer catches up, also
\* when the head has dropped below a range in progress.
CatchesUp == <>[](cursor > head)

\* "Reorg detection runs every iteration over the trailing ReorgDepth
\* blocks": a recorded hash in that window that is no longer canonical is
\* pruned or replaced.
Window == {n \in Height : last # None /\ n <= last /\ n > last - ReorgDepth}

StaleTrail(n) == n \in Window /\ n <= head /\ Mismatch(n)

StaleTrailResolved == \A n \in Height : StaleTrail(n) ~> (n > head \/ ~Mismatch(n))

\* "delete dependent rows, re-process" (docs/architecture.md): an event that
\* stays on the chain, in a block that is processed, has its row in the end.
Reprocessed ==
    \A t \in Indexed : \A n \in Height :
        <>[](n >= StartBlock /\ n <= head /\ t \in chain[n].txs)
            => <>[](rows[t] # None /\ rows[t].number = n)

\* "automatic rewind on reorg detection" (README): a row of a block that is
\* no longer canonical does not stay.
Orphan(t) == rows[t] # None /\ (rows[t].number > head \/ rows[t].hash # Hash(rows[t].number))

OrphanRowsGo == \A t \in Tx : []<>(~Orphan(t))
=============================================================================
