----------------------------- MODULE ApiProofs -----------------------------
(***************************************************************************)
(* Proofs about Api: below the lowest reorg, the tables and the subgraph   *)
(* agree up to the checkpoint; on a chain without reorgs, a position       *)
(* request, whose queries the indexer may write between, stays within its  *)
(* window.  The subgraph and the sums are folds over sets.  What a fold    *)
(* computes is shown by giving a function that satisfies its recursion,    *)
(* and by SubsetInduction: two such functions are the same.                *)
(***************************************************************************)
EXTENDS Api, IndexerProofs, FiniteSetTheorems, WellFoundedInduction

-----------------------------------------------------------------------------
(* Folds over a finite set.                                                *)

\* Induction over the subsets of a finite set, the property given as the set
\* of the subsets that have it: the smallest one outside would be in it.
LEMMA SubsetInduction ==
  ASSUME NEW S, IsFiniteSet(S), NEW G,
         \A T \in SUBSET S : (\A x \in T : T \ {x} \in G) => T \in G
  PROVE  \A T \in SUBSET S : T \in G
<1> SUFFICES ASSUME (SUBSET S) \ G # {}
             PROVE  FALSE
  OBVIOUS
<1>1. IsWellFoundedOn(StrictSubsetOrdering(S), SUBSET S)
  <2>1. FiniteSubsetsOf(S) = SUBSET S
    BY FS_FiniteSubsetsOfFinite, Zenon
  <2>2. IsWellFoundedOn(StrictSubsetOrdering(S), FiniteSubsetsOf(S))
    BY FS_StrictSubsetOrderingWellFounded, Zenon
  <2> QED
    BY <2>1, <2>2, Zenon
<1>2. PICK T \in (SUBSET S) \ G :
            \A U \in (SUBSET S) \ G : ~(<<U, T>> \in StrictSubsetOrdering(S))
  <2>1. (SUBSET S) \ G \subseteq SUBSET S
    OBVIOUS
  <2> HIDE DEF StrictSubsetOrdering
  <2> QED
    BY <1>1, <2>1, WFMin
<1>3. PICK x \in T : T \ {x} \notin G
  BY <1>2
<1>4. T \ {x} \in SUBSET S /\ T \ {x} \subseteq T /\ T \ {x} # T
  BY <1>2, <1>3
<1>5. <<T \ {x}, T>> \in StrictSubsetOrdering(S)
  BY <1>2, <1>4 DEF StrictSubsetOrdering
<1> QED
  BY <1>2, <1>3, <1>4, <1>5

-----------------------------------------------------------------------------
(* The sums of an amount over the transactions: as many as there are pairs *)
(* of a transaction and one of its units.                                  *)

UnitsOf(amount, t) == {t} \X (1..amount[t])
Units(amount, S)    == UNION {UnitsOf(amount, t) : t \in S}

\* Without a transaction of it, a set has that many units less.
LEMMA UnitsRemove ==
  ASSUME NEW amount \in [Tx -> Nat], NEW S \in SUBSET Tx, NEW t \in S, IsFiniteSet(Units(amount, S \ {t}))
  PROVE  /\ IsFiniteSet(Units(amount, S))
         /\ Cardinality(Units(amount, S)) = amount[t] + Cardinality(Units(amount, S \ {t}))
<1>1. amount[t] \in Nat
  BY SubgraphAssumption
<1>2. IsFiniteSet(1..amount[t]) /\ Cardinality(1..amount[t]) = amount[t]
  <2>1. 1 \in Int /\ amount[t] \in Int
    BY <1>1
  <2>2. /\ IsFiniteSet(1..amount[t])
        /\ Cardinality(1..amount[t]) = IF 1 > amount[t] THEN 0 ELSE amount[t] - 1 + 1
    BY <2>1, FS_Interval
  <2> QED
    BY <1>1, <2>2
<1>3. IsFiniteSet({t}) /\ Cardinality({t}) = 1
  BY FS_Singleton
<1>4. /\ IsFiniteSet(UnitsOf(amount, t))
      /\ Cardinality(UnitsOf(amount, t)) = Cardinality({t}) * Cardinality(1..amount[t])
  BY <1>2, <1>3, FS_Product DEF UnitsOf
<1>5. Units(amount, S) = UnitsOf(amount, t) \cup Units(amount, S \ {t})
  BY DEF Units
<1>6. UnitsOf(amount, t) \cap Units(amount, S \ {t}) = {}
  BY DEF Units, UnitsOf
<1>7. Cardinality(Units(amount, S \ {t})) \in Nat
  BY FS_CardinalityType
<1>8. /\ IsFiniteSet(Units(amount, S))
      /\ Cardinality(Units(amount, S)) = Cardinality(UnitsOf(amount, t)) + Cardinality(Units(amount, S \ {t})) - Cardinality({})
  <2> DEFINE A == UnitsOf(amount, t)
             B == Units(amount, S \ {t})
  <2>1. IsFiniteSet(A) /\ IsFiniteSet(B)
    BY <1>4
  <2> HIDE DEF A, B
  <2>2. IsFiniteSet(A \cup B) /\ Cardinality(A \cup B) = Cardinality(A) + Cardinality(B) - Cardinality(A \cap B)
    BY <2>1, FS_Union, Zenon
  <2> QED
    BY <1>5, <1>6, <2>2 DEF A, B
<1>9. Cardinality({}) = 0
  BY FS_EmptySet
<1> QED
  BY <1>1, <1>2, <1>3, <1>4, <1>7, <1>8, <1>9

\* Finitely many transactions have finitely many units.
LEMMA UnitsFinite ==
  ASSUME NEW amount \in [Tx -> Nat], NEW S \in SUBSET Tx, IsFiniteSet(S)
  PROVE  IsFiniteSet(Units(amount, S))
<1> DEFINE G == {T \in SUBSET S : IsFiniteSet(Units(amount, T))}
<1>1. ASSUME NEW T \in SUBSET S, \A x \in T : T \ {x} \in G
      PROVE  T \in G
  <2>1. CASE T = {}
    BY <2>1, FS_EmptySet DEF Units
  <2>2. CASE T # {}
    <3>1. PICK x \in T : IsFiniteSet(Units(amount, T \ {x}))
      BY <1>1, <2>2
    <3> QED
      BY <3>1, UnitsRemove
  <2> QED
    BY <2>1, <2>2
<1>2. \A T \in SUBSET S : T \in G
  <2> HIDE DEF G
  <2> QED
    BY <1>1, SubsetInduction
<1> QED
  BY <1>2

\* The function that MapThenSumSet applies to the set.
SumIter(amount, S) ==
    CHOOSE iter : iter = [s \in SUBSET S |->
        IF s = {} THEN 0
        ELSE amount[CHOOSE x \in s : TRUE] + iter[s \ {CHOOSE x \in s : TRUE}]]

\* The sum is the number of units.
LEMMA SumIsCount ==
  ASSUME NEW amount \in [Tx -> Nat], NEW S \in SUBSET Tx, IsFiniteSet(S)
  PROVE  Sum(amount, S) = Cardinality(Units(amount, S))
<1> DEFINE Rec(f) == f = [s \in SUBSET S |->
                IF s = {} THEN 0
                ELSE amount[CHOOSE x \in s : TRUE] + f[s \ {CHOOSE x \in s : TRUE}]]
           count == [s \in SUBSET S |-> Cardinality(Units(amount, s))]
<1>1. \A s \in SUBSET S : s # {} => (CHOOSE x \in s : TRUE) \in s
  OBVIOUS
<1>2. Rec(count)
  <2>1. Cardinality(Units(amount, {})) = 0
    BY FS_EmptySet DEF Units
  <2>2. ASSUME NEW s \in SUBSET S, s # {}
        PROVE  Cardinality(Units(amount, s)) = amount[CHOOSE x \in s : TRUE]
                    + Cardinality(Units(amount, s \ {CHOOSE x \in s : TRUE}))
    <3> DEFINE t == CHOOSE x \in s : TRUE
    <3>1. t \in s
      BY <1>1, <2>2
    <3> HIDE DEF t
    <3>2. IsFiniteSet(s \ {t}) /\ s \ {t} \in SUBSET Tx /\ s \in SUBSET Tx
      BY FS_Subset
    <3>3. Cardinality(Units(amount, s)) = amount[t] + Cardinality(Units(amount, s \ {t}))
      BY <3>1, <3>2, UnitsFinite, UnitsRemove
    <3> QED
      BY <3>3 DEF t
  <2>3. \A s \in SUBSET S : s \ {CHOOSE x \in s : TRUE} \in SUBSET S
    OBVIOUS
  <2>4. ASSUME NEW s \in SUBSET S
        PROVE  Cardinality(Units(amount, s)) =
                  IF s = {} THEN 0
                  ELSE amount[CHOOSE x \in s : TRUE] + count[s \ {CHOOSE x \in s : TRUE}]
    BY <2>1, <2>2, <2>3
  <2> QED
    BY <2>4
<1>3. Rec(SumIter(amount, S))
  <2>1. \E f : Rec(f)
    BY <1>2
  <2>2. SumIter(amount, S) = CHOOSE f : Rec(f)
    BY DEF SumIter
  <2> HIDE DEF Rec
  <2> QED
    BY <2>1, <2>2
<1>4. \A T \in SUBSET S : SumIter(amount, S)[T] = count[T]
  <2> DEFINE it == SumIter(amount, S)
             G  == {T \in SUBSET S : it[T] = count[T]}
  <2>1. Rec(it)
    BY <1>3
  <2> HIDE DEF it
  <2>2. ASSUME NEW T \in SUBSET S, \A x \in T : T \ {x} \in G
        PROVE  T \in G
    <3> DEFINE t == CHOOSE x \in T : TRUE
    <3>1. it[T] = IF T = {} THEN 0 ELSE amount[t] + it[T \ {t}]
      BY <2>1
    <3>2. count[T] = IF T = {} THEN 0 ELSE amount[t] + count[T \ {t}]
      BY <1>2
    <3>3. T # {} => t \in T
      OBVIOUS
    <3> HIDE DEF t, count
    <3> QED
      BY <2>2, <3>1, <3>2, <3>3
  <2>3. \A T \in SUBSET S : T \in G
    <3> HIDE DEF G
    <3> QED
      BY <2>2, SubsetInduction
  <2> QED
    BY <2>3 DEF it
<1> QED
  BY <1>4 DEF Sum, SumIter, MapThenSumSet, MapThenFoldSet

\* A sum is a natural number, and grows with its set.
LEMMA SumMonotone ==
  ASSUME NEW amount \in [Tx -> Nat], NEW T \in SUBSET Tx, NEW S \in SUBSET T
  PROVE  Sum(amount, S) \in Nat /\ Sum(amount, T) \in Nat /\ Sum(amount, S) <= Sum(amount, T)
<1>1. S \in SUBSET Tx /\ IsFiniteSet(S) /\ IsFiniteSet(T)
  BY FiniteAssumption, FS_Subset
<1>2. IsFiniteSet(Units(amount, S)) /\ IsFiniteSet(Units(amount, T))
  BY <1>1, UnitsFinite
<1>3. Units(amount, S) \subseteq Units(amount, T)
  BY DEF Units
<1>4. /\ Cardinality(Units(amount, S)) \in Nat /\ Cardinality(Units(amount, T)) \in Nat
      /\ Cardinality(Units(amount, S)) <= Cardinality(Units(amount, T))
  BY <1>2, <1>3, FS_CardinalityType, FS_Subset
<1> QED
  BY <1>1, <1>4, SumIsCount

\* A transaction adds its amount.
LEMMA SumRemove ==
  ASSUME NEW amount \in [Tx -> Nat], NEW S \in SUBSET Tx, NEW t \in S
  PROVE  /\ Sum(amount, S) = Sum(amount, S \ {t}) + amount[t]
         /\ Sum(amount, S \ {t}) \in Nat /\ amount[t] \in Nat
<1>1. S \ {t} \in SUBSET Tx /\ IsFiniteSet(S) /\ IsFiniteSet(S \ {t})
  BY FiniteAssumption, FS_Subset
<1>2. IsFiniteSet(Units(amount, S \ {t}))
  BY <1>1, UnitsFinite
<1>3. Cardinality(Units(amount, S)) = amount[t] + Cardinality(Units(amount, S \ {t}))
  BY <1>2, UnitsRemove
<1>4. Sum(amount, S \ {t}) \in Nat /\ amount[t] \in Nat
  BY <1>1, SumMonotone, SubgraphAssumption
<1> QED
  BY <1>1, <1>3, <1>4, SumIsCount

\* The sum over the empty set.
LEMMA SumEmpty ==
  ASSUME NEW amount \in [Tx -> Nat]
  PROVE  Sum(amount, {}) = 0
<1>1. {} \in SUBSET Tx /\ IsFiniteSet({}) /\ Units(amount, {}) = {}
  BY FS_EmptySet DEF Units
<1> QED
  BY <1>1, SumIsCount, FS_EmptySet

-----------------------------------------------------------------------------
(* The subgraph's entity.                                                  *)

\* What the handlers make of the events S, in one go.
TotalsOf(S) ==
    [totalDeposited |-> Sum(Assets, S \cap Deposits),
     totalWithdrawn |-> Sum(Assets, S \ Deposits),
     depositCount   |-> Cardinality(S \cap Deposits),
     withdrawCount  |-> Cardinality(S \ Deposits)]

\* One handler adds its event to the totals.
LEMMA HandleTotals ==
  ASSUME NEW S \in SUBSET Tx, NEW t \in S
  PROVE  TotalsOf(S) = handle(t, TotalsOf(S \ {t}))
<1>1. IsFiniteSet(S \cap Deposits) /\ IsFiniteSet(S \ Deposits)
  BY FiniteAssumption, FS_Subset
<1>2. CASE t \in Deposits
  <2>1. (S \ {t}) \cap Deposits = (S \cap Deposits) \ {t} /\ (S \ {t}) \ Deposits = S \ Deposits
    BY <1>2
  <2>2. Sum(Assets, S \cap Deposits) = Sum(Assets, (S \cap Deposits) \ {t}) + Assets[t]
    BY <1>2, SumRemove, SubgraphAssumption
  <2>3. Cardinality(S \cap Deposits) = Cardinality((S \cap Deposits) \ {t}) + 1
    <3>1. /\ Cardinality((S \cap Deposits) \ {t}) = Cardinality(S \cap Deposits) - 1
          /\ Cardinality(S \cap Deposits) \in Nat
      BY <1>1, <1>2, FS_RemoveElement, FS_CardinalityType
    <3> QED
      BY <3>1
  <2> QED
    BY <1>2, <2>1, <2>2, <2>3 DEF TotalsOf, handle, handleDeposit
<1>3. CASE t \notin Deposits
  <2>1. (S \ {t}) \cap Deposits = S \cap Deposits /\ (S \ {t}) \ Deposits = (S \ Deposits) \ {t}
    BY <1>3
  <2>2. Sum(Assets, S \ Deposits) = Sum(Assets, (S \ Deposits) \ {t}) + Assets[t]
    BY <1>3, SumRemove, SubgraphAssumption
  <2>3. Cardinality(S \ Deposits) = Cardinality((S \ Deposits) \ {t}) + 1
    <3>1. /\ Cardinality((S \ Deposits) \ {t}) = Cardinality(S \ Deposits) - 1
          /\ Cardinality(S \ Deposits) \in Nat
      BY <1>1, <1>3, FS_RemoveElement, FS_CardinalityType
    <3> QED
      BY <3>1
  <2> QED
    BY <1>3, <2>1, <2>2, <2>3 DEF TotalsOf, handle, handleWithdraw
<1> QED
  BY <1>2, <1>3

\* The function that FoldSet applies to the set.
UserIter(S) ==
    CHOOSE iter : iter = [s \in SUBSET S |->
        IF s = {} THEN NewUser
        ELSE handle(CHOOSE x \in s : TRUE, iter[s \ {CHOOSE x \in s : TRUE}])]

\* The handlers, run one by one in whatever order, compute the totals.
LEMMA FoldIsTotals ==
  ASSUME NEW S \in SUBSET Tx
  PROVE  FoldSet(handle, NewUser, S) = TotalsOf(S)
<1> DEFINE Rec(f) == f = [s \in SUBSET S |->
                IF s = {} THEN NewUser
                ELSE handle(CHOOSE x \in s : TRUE, f[s \ {CHOOSE x \in s : TRUE}])]
           totals == [s \in SUBSET S |-> TotalsOf(s)]
<1>1. Rec(totals)
  <2>1. TotalsOf({}) = NewUser
    <3>1. {} \cap Deposits = {} /\ {} \ Deposits = {}
      OBVIOUS
    <3> QED
      BY <3>1, SumEmpty, SubgraphAssumption, FS_EmptySet DEF TotalsOf, NewUser
  <2>2. ASSUME NEW s \in SUBSET S, s # {}
        PROVE  TotalsOf(s) = handle(CHOOSE x \in s : TRUE, totals[s \ {CHOOSE x \in s : TRUE}])
    <3> DEFINE t == CHOOSE x \in s : TRUE
    <3>1. t \in s
      BY <2>2
    <3> HIDE DEF t
    <3>2. s \ {t} \in SUBSET S /\ s \in SUBSET Tx
      OBVIOUS
    <3>3. TotalsOf(s) = handle(t, TotalsOf(s \ {t}))
      BY <3>1, <3>2, HandleTotals
    <3>4. totals[s \ {t}] = TotalsOf(s \ {t})
      BY <3>2
    <3> QED
      BY <3>3, <3>4 DEF t
  <2> QED
    BY <2>1, <2>2
<1>2. Rec(UserIter(S))
  <2>1. \E f : Rec(f)
    BY <1>1
  <2>2. UserIter(S) = CHOOSE f : Rec(f)
    BY DEF UserIter
  <2> HIDE DEF Rec
  <2> QED
    BY <2>1, <2>2
<1>3. \A T \in SUBSET S : UserIter(S)[T] = totals[T]
  <2> DEFINE it == UserIter(S)
             G  == {T \in SUBSET S : it[T] = totals[T]}
  <2>1. Rec(it)
    BY <1>2
  <2> HIDE DEF it
  <2>2. ASSUME NEW T \in SUBSET S, \A x \in T : T \ {x} \in G
        PROVE  T \in G
    <3> DEFINE t == CHOOSE x \in T : TRUE
    <3>1. it[T] = IF T = {} THEN NewUser ELSE handle(t, it[T \ {t}])
      BY <2>1
    <3>2. totals[T] = IF T = {} THEN NewUser ELSE handle(t, totals[T \ {t}])
      BY <1>1
    <3>3. T # {} => t \in T
      OBVIOUS
    <3> HIDE DEF t, totals
    <3> QED
      BY <2>2, <3>1, <3>2, <3>3
  <2>3. IsFiniteSet(S)
    BY FiniteAssumption, FS_Subset
  <2>4. \A T \in SUBSET S : T \in G
    <3> HIDE DEF G
    <3> QED
      BY <2>2, <2>3, SubsetInduction
  <2> QED
    BY <2>4 DEF it
<1> QED
  BY <1>3 DEF UserIter, FoldSet, MapThenFoldSet

\* The entity of a holder counts the holder's events up to its block.
LEMMA UserTotals ==
  ASSUME NEW o, NEW n, IncludedUpTo(n) \subseteq Tx
  PROVE  User(o, n) = [totalDeposited |-> Sum(Assets, IncludedUpTo(n) \cap DepositsOf(o)),
                       totalWithdrawn |-> Sum(Assets, IncludedUpTo(n) \cap WithdrawalsOf(o)),
                       depositCount   |-> Cardinality(IncludedUpTo(n) \cap DepositsOf(o)),
                       withdrawCount  |-> Cardinality(IncludedUpTo(n) \cap WithdrawalsOf(o))]
<1> DEFINE S == IncludedUpTo(n) \cap (DepositsOf(o) \cup WithdrawalsOf(o))
<1>1. S \in SUBSET Tx
  OBVIOUS
<1>2. /\ S \cap Deposits = IncludedUpTo(n) \cap DepositsOf(o)
      /\ S \ Deposits = IncludedUpTo(n) \cap WithdrawalsOf(o)
  BY SubgraphAssumption DEF DepositsOf, WithdrawalsOf
<1> QED
  BY <1>1, <1>2, FoldIsTotals DEF User, TotalsOf

-----------------------------------------------------------------------------
(* The indexer beside the requests.                                        *)

\* No request changes a variable of the indexer: what is proved of the
\* indexer alone holds of it here.
THEOREM ApiRefinesIndexer == ApiSpec => Spec
<1>1. ApiInit => Init
  BY DEF ApiInit
<1>2. [ApiNext]_apiVars => [Next]_vars
  BY DEF ApiNext, apiVars
<1> QED
  BY <1>1, <1>2, PTL DEF ApiSpec, Spec

\* Without reorgs, what is known of chain, tables and process; the first
\* block is empty.
Unforked ==
    /\ IInv
    /\ minFork = MaxHeight + 1
    /\ Growing
    /\ chain[0].txs = {}

\* Blocks are only added: those that are there keep their transactions.
LEMMA ChainGrows ==
  ASSUME MaxReorgs = 0, Unforked, [Next]_vars
  PROVE  /\ head \in Nat /\ head' \in Nat /\ head <= head'
         /\ \A n \in 0..head : chain'[n] = chain[n]
<1>1. head \in Nat
  BY HeadType DEF Unforked, IInv, ChainInv
<1>2. CASE Environment
  <2>1. PICK S \in SUBSET Tx : MineBlock(S)
    BY <1>2, NoReorg DEF Environment, ChainNext, Unforked
  <2> QED
    BY <1>1, <2>1 DEF MineBlock
<1>3. CASE UNCHANGED chainVars
  BY <1>1, <1>3 DEF chainVars
<1>4. Process \/ Crash \/ UNCHANGED vars => UNCHANGED chainVars
  BY DEF Process, Track, Pending, Apply, Boot, Check, Scan, Prune, Rewind, Head, Filter, Ingest,
         IngestDone, Trail, TrailDone, Save, ReadAssets, ReadSupply, Crash, vars
<1> QED
  BY <1>2, <1>3, <1>4 DEF Next

\* The first block holds no event, and no reorg replaces it.
LEMMA GenesisEmpty == ApiSpec => [](chain[0].txs = {})
<1>1. Init => chain[0].txs = {}
  BY DEF Init, ChainInit
<1>2. ASSUME IInv, [Next]_vars, chain[0].txs = {}
      PROVE  chain'[0].txs = {}
  <2>1. head \in Nat
    BY <1>2, HeadType DEF IInv, ChainInv
  <2>2. ASSUME NEW S \in SUBSET Tx, MineBlock(S)
        PROVE  chain'[0] = chain[0]
    BY <2>1, <2>2 DEF MineBlock
  <2>3. ASSUME NEW S \in SUBSET Tx, NEW k \in 1..head, Reorg(k, S)
        PROVE  chain'[0] = chain[0]
    BY <2>1, <2>3 DEF Reorg
  <2>4. CASE Environment
    BY <1>2, <2>2, <2>3, <2>4 DEF Environment, ChainNext
  <2>5. Process \/ Crash \/ UNCHANGED vars => UNCHANGED chainVars
    BY DEF Process, Track, Pending, Apply, Boot, Check, Scan, Prune, Rewind, Head, Filter, Ingest,
           IngestDone, Trail, TrailDone, Save, ReadAssets, ReadSupply, Crash, vars
  <2> QED
    BY <1>2, <2>4, <2>5 DEF Next, chainVars
<1>3. IInv /\ [Next]_vars /\ chain[0].txs = {} => (chain[0].txs = {})'
  BY <1>2
<1> QED
  BY <1>1, <1>3, ApiRefinesIndexer, IndexerInvariant, PTL DEF Spec

\* Unforked is an invariant of a chain without reorgs.
LEMMA UnforkedInvariant ==
  ASSUME MaxReorgs = 0
  PROVE  ApiSpec => []Unforked
BY GenesisEmpty, ApiRefinesIndexer, IndexerInvariant, GrowingInvariant, PTL DEF Unforked

\* The sets of transactions grow with the chain: an earlier block of it is an
\* earlier block of the longer chain.
LEMMA IncludedGrows ==
  ASSUME MaxReorgs = 0, Unforked, [Next]_vars, NEW n \in 0..head
  PROVE  /\ IncludedUpTo(n)' = IncludedUpTo(n)
         /\ IncludedUpTo(n) \subseteq IncludedUpTo(head)
         /\ IncludedUpTo(head) \subseteq IncludedUpTo(head)'
         /\ IncludedUpTo(head)' \subseteq Tx
<1>1. /\ head \in Nat /\ head' \in Nat /\ head <= head'
      /\ \A m \in 0..head : chain'[m] = chain[m]
  BY ChainGrows
<1>2. \A m \in 0..n : m \in 0..head
  BY <1>1
<1>3. \A m \in 0..head : m \in 0..head'
  BY <1>1
<1>4. IInv'
  BY InvariantStep DEF Unforked
<1>5. \A m \in 0..head' : chain'[m].txs \subseteq Tx
  BY <1>4 DEF IInv, ChainInv, ChainTypeOK, Block
<1> QED
  BY <1>1, <1>2, <1>3, <1>5 DEF IncludedUpTo

\* Without reorgs no row ever goes.
LEMMA StoredGrows ==
  ASSUME MaxReorgs = 0, Unforked, [Next]_vars
  PROVE  Stored \subseteq Stored'
<1>1. StoredPairs \subseteq StoredPairs'
  BY RefinementStep DEF MirrorUnchanged, Produced, StoredPairs, Unforked,
                        EM!Next, EM!Produce, EM!Store, EM!Advance
<1> SUFFICES ASSUME NEW t \in Indexed, rows[t] # None
             PROVE  rows'[t] # None
  BY DEF Stored
<1>2. rows[t].number \in Height
  BY ChainAssumption DEF Unforked, IInv, TablesInv, Row
<1>3. <<t, rows[t].number>> \in StoredPairs
  BY <1>2 DEF StoredPairs
<1> QED
  BY <1>1, <1>3 DEF StoredPairs

\* Every row is of a transaction on the chain.
LEMMA StoredIncluded ==
  ASSUME Unforked
  PROVE  /\ Stored \subseteq IncludedUpTo(head)
         /\ IncludedUpTo(head) \subseteq Tx
         /\ \A t \in Stored : rows[t].number \in 0..head /\ t \in chain[rows[t].number].txs
<1>1. /\ head \in Nat /\ head <= MaxHeight /\ MaxHeight \in Nat
      /\ \A m \in 0..head : chain[m].txs \subseteq Tx
  BY HeadType, HashType DEF Unforked, IInv, ChainInv
<1>2. ASSUME NEW t \in Stored
      PROVE  rows[t].number \in 0..head /\ t \in chain[rows[t].number].txs
  <2>1. rows[t] # None /\ t \in Indexed /\ t \in Tx
    BY ChainAssumption DEF Stored
  <2>2. rows[t].number \in Height /\ Known(t, rows[t].number) /\ rows[t].number < minFork
    BY <1>1, <2>1 DEF Unforked, IInv, TablesInv, RowsKnown, Row, Height
  <2> QED
    BY <1>1, <2>2 DEF Known, Height
<1> QED
  BY <1>1, <1>2 DEF IncludedUpTo

-----------------------------------------------------------------------------
(* The checkpoint.                                                         *)

\* START_BLOCK is not above the vault's first event (it is 0 by default): no
\* event is left out on purpose.
DeployedAtStart == \A n \in 0..head : n < StartBlock => chain[n].txs \cap Indexed = {}

\* Always so with the default START_BLOCK, and with the 1 of the run: the
\* first block holds no event.
THEOREM ApiDefaultStart ==
  ASSUME StartBlock <= 1
  PROVE  ApiSpec => []DeployedAtStart
<1>1. chain[0].txs = {} => DeployedAtStart
  <2> SUFFICES ASSUME chain[0].txs = {}, NEW n \in 0..head, n < StartBlock
               PROVE  chain[n].txs \cap Indexed = {}
    BY DEF DeployedAtStart
  <2>1. n = 0
    BY IndexerAssumption
  <2> QED
    BY <2>1
<1> QED
  BY <1>1, GenesisEmpty, PTL

\* Up to a stable block that is saved, the stored events are those of the
\* chain, however often it was cut above that block.
LEMMA CheckpointStored ==
  ASSUME IInv, DeployedAtStart, last # None, NEW n \in 0..head, n <= last, n < minFork
  PROVE  /\ Indexed \cap IncludedUpTo(n) = {t \in Stored : rows[t].number <= n}
         /\ IncludedUpTo(n) \subseteq Tx
<1>1. /\ head \in Nat /\ minFork \in Nat /\ last \in Nat /\ StartBlock \in Nat
      /\ Indexed \subseteq Tx
  BY HeadType, IndexerAssumption, ChainAssumption DEF IInv, ChainInv, TablesInv, Height
<1>2. ASSUME NEW t \in Stored
      PROVE  rows[t].number \in Nat /\ Known(t, rows[t].number)
  <2>1. t \in Indexed /\ t \in Tx /\ rows[t] # None
    BY <1>1 DEF Stored
  <2> QED
    BY <2>1, ChainAssumption DEF IInv, TablesInv, RowsKnown, Row, Height
<1>3. ASSUME NEW m \in 0..n, NEW t \in chain[m].txs \cap Indexed
      PROVE  t \in Stored /\ rows[t].number = m
  <2>1. m \in 0..head /\ m \in StartBlock..last /\ m < minFork
    <3>1. m \in 0..head /\ m <= last /\ m < minFork
      BY <1>1
    <3>2. ~(m < StartBlock)
      BY <1>3, <3>1 DEF DeployedAtStart
    <3> QED
      BY <1>1, <3>1, <3>2
  <2>2. t \in Stored /\ t \in Tx
    BY <1>1, <2>1 DEF IInv, TablesInv, Covered, Present, Stored
  <2>3. rows[t].number \in Nat /\ Known(t, rows[t].number)
    BY <1>2, <2>2
  <2>4. rows[t].number < minFork
    BY <1>3, <2>1, <2>3 DEF Known
  <2>5. rows[t].number \in 0..head /\ t \in chain[rows[t].number].txs
    BY <1>1, <2>3, <2>4 DEF Known
  <2> QED
    BY <1>3, <2>1, <2>2, <2>5 DEF IInv, ChainInv
<1>4. ASSUME NEW t \in Stored, rows[t].number <= n
      PROVE  t \in Indexed \cap IncludedUpTo(n)
  <2>1. rows[t].number \in 0..n /\ rows[t].number < minFork
    BY <1>1, <1>2, <1>4
  <2>2. t \in chain[rows[t].number].txs /\ t \in Indexed
    BY <1>2, <2>1 DEF Known, Stored
  <2> QED
    BY <2>1, <2>2 DEF IncludedUpTo
<1>5. ASSUME NEW t \in Indexed \cap IncludedUpTo(n)
      PROVE  t \in Stored /\ rows[t].number <= n
  <2>1. PICK m \in 0..n : t \in chain[m].txs
    BY <1>5 DEF IncludedUpTo
  <2> QED
    BY <1>1, <1>3, <2>1
<1>6. IncludedUpTo(n) \subseteq Tx
  <2>1. \A m \in 0..n : m \in 0..head
    BY <1>1
  <2> QED
    BY <2>1, HashType DEF IncludedUpTo, IInv, ChainInv
<1> QED
  BY <1>4, <1>5, <1>6

\* The rows of a holder add up to the subgraph's entity, computed by its
\* handlers one by one, at every block up to the checkpoint that no reorg has
\* replaced: two derivations of the same chain, whatever fails, crashes or is
\* reorganised above it.
THEOREM ApiTablesAgreeWithSubgraph ==
  ApiSpec /\ []DeployedAtStart => []TablesAgreeWithSubgraph
<1>1. ASSUME IInv, DeployedAtStart
      PROVE  TablesAgreeWithSubgraph
  <2> SUFFICES ASSUME last # None, NEW n \in 0..head, n <= last, n < minFork,
                      NEW o \in Account
               PROVE  User(o, n) = TableTotals(o, n)
    BY DEF TablesAgreeWithSubgraph
  <2> DEFINE upTo == {t \in Stored : rows[t].number <= n}
  <2>1. Indexed \cap IncludedUpTo(n) = upTo /\ IncludedUpTo(n) \subseteq Tx
    BY <1>1, CheckpointStored
  <2>2. TableTotals(o, n) = [totalDeposited |-> Sum(Assets, DepositsOf(o) \cap upTo),
                             totalWithdrawn |-> Sum(Assets, WithdrawalsOf(o) \cap upTo),
                             depositCount   |-> Cardinality(DepositsOf(o) \cap upTo),
                             withdrawCount  |-> Cardinality(WithdrawalsOf(o) \cap upTo)]
    BY DEF TableTotals
  <2> HIDE DEF upTo
  <2>3. DepositsOf(o) \subseteq Indexed /\ WithdrawalsOf(o) \subseteq Indexed
    BY SubgraphAssumption DEF DepositsOf, WithdrawalsOf
  <2>4. /\ IncludedUpTo(n) \cap DepositsOf(o) = DepositsOf(o) \cap upTo
        /\ IncludedUpTo(n) \cap WithdrawalsOf(o) = WithdrawalsOf(o) \cap upTo
    BY <2>1, <2>3
  <2> QED
    BY <2>1, <2>2, <2>4, UserTotals
<1> QED
  BY <1>1, ApiRefinesIndexer, IndexerInvariant, PTL

-----------------------------------------------------------------------------
(* The position request.                                                   *)

Request ==
    [done : 0..2, owner : Account \cup {None}, deposits : Nat, withdrawals : Nat,
     since : Height \cup {None}]

\* A sum read is of rows that stay: it bounds from below what the tables hold.
ReadInv ==
    /\ request \in Request
    /\ request.since # None => request.since \in 0..head
    /\ request.done >= 1 => request.deposits <= Deposited(request.owner)
    /\ request.done = 2 => request.withdrawals <= Withdrawn(request.owner)

\* A sum read counts all that was saved when the request came.
SinceInv ==
    LET o       == request.owner
        already == Indexed \cap IncludedUpTo(Saved(request.since))
    IN  /\ request.done >= 1 => /\ already \subseteq Stored
                                /\ Sum(Shares, already \cap DepositsOf(o)) <= request.deposits
        /\ request.done = 2 => Sum(Shares, already \cap WithdrawalsOf(o)) <= request.withdrawals

\* What a step of the API does to the request: a first query, a second one,
\* or the end.
LEMMA ServeStep ==
  ASSUME request \in Request, Serve
  PROVE  \/ \E o \in Account :
              /\ request = NoRequest
              /\ request' = [done |-> 1, owner |-> o, deposits |-> Deposited(o),
                             withdrawals |-> 0, since |-> last]
         \/ /\ request.done = 1
            /\ request' = [done |-> 2, owner |-> request.owner, deposits |-> request.deposits,
                           withdrawals |-> Withdrawn(request.owner), since |-> request.since]
         \/ request' = NoRequest
<1>1. Tables[1] = "deposits" /\ Tables[2] = "withdrawals"
  BY DEF Tables
<1>2. ASSUME NEW o \in Account, GetUserPosition(o)
      PROVE  /\ request = NoRequest
             /\ request' = [done |-> 1, owner |-> o, deposits |-> Deposited(o),
                            withdrawals |-> 0, since |-> last]
  <2> DEFINE r == [done |-> 0, owner |-> o, deposits |-> 0, withdrawals |-> 0, since |-> last]
  <2>1. request = NoRequest /\ Query(r)
    <3>1. ASSUME NEW q, q = [NoRequest EXCEPT !.owner = o, !.since = last]
          PROVE  q = r
      BY <3>1 DEF NoRequest
    <3> QED
      BY <1>2, <3>1 DEF GetUserPosition
  <2>2. r.done + 1 = 1 /\ r.owner = o
    OBVIOUS
  <2> HIDE DEF r
  <2>3. Tables[r.done + 1] = "deposits"
    BY <1>1, <2>2
  <2>4. request' = [r EXCEPT !.done = 1, !["deposits"] = Deposited(o)]
    BY <2>1, <2>2, <2>3 DEF Query
  <2>5. request' = [r EXCEPT !.done = 1, !.deposits = Deposited(o)]
    BY <2>4
  <2> QED
    BY <2>1, <2>5 DEF r
<1>3. ASSUME SecondQuery
      PROVE  /\ request.done = 1
             /\ request' = [done |-> 2, owner |-> request.owner, deposits |-> request.deposits,
                            withdrawals |-> Withdrawn(request.owner), since |-> request.since]
  <2>1. request.done = 1 /\ Query(request)
    BY <1>3 DEF SecondQuery
  <2>2. request.done + 1 = 2
    BY <2>1
  <2>3. Tables[request.done + 1] = "withdrawals"
    BY <1>1, <2>2
  <2>4. request' = [request EXCEPT !.done = 2, !["withdrawals"] = Withdrawn(request.owner)]
    BY <2>1, <2>2, <2>3 DEF Query
  <2>5. request' = [request EXCEPT !.done = 2, !.withdrawals = Withdrawn(request.owner)]
    BY <2>4
  <2> QED
    BY <2>1, <2>5 DEF Request
<1> QED
  BY <1>2, <1>3 DEF Serve, Answer, Fail

\* The sums of the rows never fall.
LEMMA TablesGrow ==
  ASSUME MaxReorgs = 0, Unforked, [Next]_vars, NEW o
  PROVE  /\ Deposited(o) \in Nat /\ Deposited(o)' \in Nat /\ Deposited(o) <= Deposited(o)'
         /\ Withdrawn(o) \in Nat /\ Withdrawn(o)' \in Nat /\ Withdrawn(o) <= Withdrawn(o)'
<1>1. Stored \subseteq Stored' /\ Stored' \subseteq Tx
  BY StoredGrows, ChainAssumption DEF Stored
<1>2. /\ DepositsOf(o) \cap Stored' \in SUBSET Tx
      /\ DepositsOf(o) \cap Stored \in SUBSET (DepositsOf(o) \cap Stored')
      /\ WithdrawalsOf(o) \cap Stored' \in SUBSET Tx
      /\ WithdrawalsOf(o) \cap Stored \in SUBSET (WithdrawalsOf(o) \cap Stored')
  BY <1>1
<1> QED
  BY <1>2, SumMonotone, SubgraphAssumption DEF Deposited, Withdrawn

\* The sums read stay below those of the tables.
LEMMA ReadStep ==
  ASSUME MaxReorgs = 0, Unforked, ReadInv, [ApiNext]_apiVars
  PROVE  ReadInv'
<1>1. [Next]_vars
  BY DEF ApiNext, apiVars
<1>2. /\ head \in Nat /\ head' \in Nat /\ head <= head'
      /\ last \in Height \cup {None} /\ (last # None => last \in 0..head)
  BY <1>1, ChainGrows, IndexerAssumption DEF Unforked, IInv, TablesInv, Growing, Height
<1>3. CASE UNCHANGED request
  <2>1. /\ Deposited(request.owner) \in Nat /\ Deposited(request.owner)' \in Nat
        /\ Deposited(request.owner) <= Deposited(request.owner)'
        /\ Withdrawn(request.owner) \in Nat /\ Withdrawn(request.owner)' \in Nat
        /\ Withdrawn(request.owner) <= Withdrawn(request.owner)'
    BY <1>1, <1>3, TablesGrow DEF Deposited, Withdrawn
  <2>2. request.deposits \in Nat /\ request.withdrawals \in Nat
    BY DEF ReadInv, Request
  <2> QED
    BY <1>2, <1>3, <2>1, <2>2 DEF ReadInv
<1>4. CASE Serve /\ UNCHANGED vars
  <2>1. UNCHANGED <<rows, head>>
    BY <1>4 DEF vars, chainVars, db, data
  <2>2. \A o : Deposited(o) \in Nat /\ Withdrawn(o) \in Nat
    BY <1>1, TablesGrow
  <2>3. ASSUME NEW o
        PROVE  Deposited(o)' = Deposited(o) /\ Withdrawn(o)' = Withdrawn(o)
    BY <2>1 DEF Deposited, Withdrawn, Stored
  <2>4. CASE \E o \in Account :
              request' = [done |-> 1, owner |-> o, deposits |-> Deposited(o),
                          withdrawals |-> 0, since |-> last]
    <3>1. PICK o \in Account :
              request' = [done |-> 1, owner |-> o, deposits |-> Deposited(o),
                          withdrawals |-> 0, since |-> last]
      BY <2>4
    <3> HIDE DEF Deposited, Withdrawn
    <3>2. request' \in Request
      BY <1>2, <2>2, <3>1 DEF Request
    <3>3. request'.since # None => request'.since \in 0..head'
      BY <1>2, <3>1
    <3>4. request'.done = 1 /\ request'.deposits = Deposited(o) /\ request'.owner = o
      BY <3>1
    <3>5. request'.deposits <= Deposited(request.owner)'
      <4>1. Deposited(request.owner)' = Deposited(o)'
        BY <3>4 DEF Deposited
      <4> QED
        BY <2>2, <2>3, <3>4, <4>1
    <3> QED
      BY <3>2, <3>3, <3>4, <3>5 DEF ReadInv
  <2>5. CASE /\ request.done = 1
             /\ request' = [done |-> 2, owner |-> request.owner, deposits |-> request.deposits,
                            withdrawals |-> Withdrawn(request.owner), since |-> request.since]
    <3>1. /\ request'.done = 2 /\ request'.owner = request.owner
          /\ request'.deposits = request.deposits /\ request'.since = request.since
          /\ request'.withdrawals = Withdrawn(request.owner)
      BY <2>5
    <3>2. request' \in Request
      BY <2>2, <2>5 DEF ReadInv, Request
    <3>3. Deposited(request.owner)' = Deposited(request.owner) /\ Withdrawn(request.owner)' = Withdrawn(request.owner)
      BY <2>1, <3>1 DEF Deposited, Withdrawn, Stored
    <3>4. request.deposits <= Deposited(request.owner)
      BY <2>5 DEF ReadInv
    <3> QED
      BY <2>1, <2>2, <3>1, <3>2, <3>3, <3>4 DEF ReadInv
  <2>6. CASE request' = NoRequest
    BY <2>6 DEF ReadInv, Request, NoRequest
  <2> QED
    BY <1>4, <2>4, <2>5, <2>6, ServeStep DEF ReadInv
<1> QED
  BY <1>3, <1>4 DEF ApiNext, apiVars

\* So they do in every behaviour without reorgs.
LEMMA ReadInvariant ==
  ASSUME MaxReorgs = 0
  PROVE  ApiSpec => [](Unforked /\ ReadInv)
<1>1. ApiInit => ReadInv
  BY DEF ApiInit, ReadInv, Request, NoRequest
<1> QED
  BY <1>1, ReadStep, UnforkedInvariant, PTL DEF ApiSpec

\* The net shares of a request, read in two queries, are never more than the
\* tables hold at the second of them: deposits are read first, and no deposit
\* read goes away.
THEOREM ApiPositionNotOverstated ==
  ASSUME MaxReorgs = 0
  PROVE  ApiSpec => PositionNotOverstated
<1>1. ASSUME Unforked, ReadInv, [ApiNext]_apiVars, request.done = 1, request'.done = 2
      PROVE  NetShares' <= Deposited(request.owner) - Withdrawn(request.owner)
  <2>1. [Next]_vars
    BY <1>1 DEF ApiNext, apiVars
  <2>2. Deposited(request.owner) \in Nat /\ Withdrawn(request.owner) \in Nat
    BY <1>1, <2>1, TablesGrow
  <2>3. request # NoRequest /\ request' # NoRequest
    BY <1>1 DEF NoRequest
  <2>4. Serve
    BY <1>1 DEF ApiNext, apiVars
  <2>5. request' = [done |-> 2, owner |-> request.owner, deposits |-> request.deposits,
                    withdrawals |-> Withdrawn(request.owner), since |-> request.since]
    BY <1>1, <2>3, <2>4, ServeStep DEF ReadInv
  <2>6. request.deposits \in Nat /\ request.deposits <= Deposited(request.owner)
    BY <1>1 DEF ReadInv, Request
  <2> QED
    BY <2>2, <2>5, <2>6 DEF NetShares
<1> QED
  BY <1>1, ReadInvariant, PTL DEF ApiSpec, PositionNotOverstated

\* All that is on the chain up to the saved block is in the tables.
LEMMA SavedStored ==
  ASSUME Unforked, DeployedAtStart
  PROVE  Indexed \cap IncludedUpTo(Saved(last)) \subseteq Stored
<1>1. CASE last = None
  <2>1. IncludedUpTo(0) = {}
    BY DEF IncludedUpTo, Unforked
  <2> QED
    BY <1>1, <2>1 DEF Saved
<1>2. CASE last # None
  <2>1. last \in 0..head /\ last < minFork
    BY <1>2, HeadType, IndexerAssumption, ChainAssumption
       DEF Unforked, IInv, ChainInv, TablesInv, Growing, Height
  <2>2. Indexed \cap IncludedUpTo(last) = {t \in Stored : rows[t].number <= last}
    BY <1>2, <2>1, CheckpointStored DEF Unforked
  <2> QED
    BY <1>2, <2>2 DEF Saved
<1> QED
  BY <1>1, <1>2

\* What was saved when the request came stays counted.
LEMMA SinceStep ==
  ASSUME MaxReorgs = 0, Unforked, DeployedAtStart, ReadInv, SinceInv, [ApiNext]_apiVars
  PROVE  SinceInv'
<1>1. [Next]_vars
  BY DEF ApiNext, apiVars
<1>2. Stored \subseteq Stored' /\ Stored \subseteq Tx
  BY <1>1, StoredGrows, ChainAssumption DEF Stored
<1>3. CASE UNCHANGED request
  <2>1. Saved(request.since) \in 0..head
    BY <1>1, ChainGrows DEF ReadInv, Saved
  <2>2. IncludedUpTo(Saved(request.since))' = IncludedUpTo(Saved(request.since))
    <3>1. ASSUME NEW n \in 0..head, n = Saved(request.since)
          PROVE  IncludedUpTo(n)' = IncludedUpTo(n)
      BY <1>1, IncludedGrows
    <3>2. Saved(request.since)' = Saved(request.since)
      BY <1>3 DEF Saved
    <3> QED
      BY <2>1, <3>1, <3>2 DEF IncludedUpTo
  <2> HIDE DEF SinceInv
  <2> QED
    BY <1>2, <1>3, <2>2 DEF SinceInv, DepositsOf, WithdrawalsOf
<1>4. CASE Serve /\ UNCHANGED vars
  <2>1. UNCHANGED <<rows, head, chain>>
    BY <1>4 DEF vars, chainVars, db, data
  <2>2. Stored' = Stored /\ \A n : IncludedUpTo(n)' = IncludedUpTo(n)
    BY <2>1 DEF Stored, IncludedUpTo
  <2>3. CASE \E o \in Account :
              request' = [done |-> 1, owner |-> o, deposits |-> Deposited(o),
                          withdrawals |-> 0, since |-> last]
    <3>1. PICK o \in Account :
              request' = [done |-> 1, owner |-> o, deposits |-> Deposited(o),
                          withdrawals |-> 0, since |-> last]
      BY <2>3
    <3> DEFINE already == Indexed \cap IncludedUpTo(Saved(last))
    <3>2. /\ request'.done = 1 /\ request'.owner = o /\ request'.since = last
          /\ request'.deposits = Deposited(o)
      BY <3>1
    <3>3. already \subseteq Stored
      BY SavedStored
    <3>4. Sum(Shares, already \cap DepositsOf(o)) <= Sum(Shares, DepositsOf(o) \cap Stored)
      BY <1>2, <3>3, SumMonotone, SubgraphAssumption
    <3>5. IncludedUpTo(Saved(request.since))' = IncludedUpTo(Saved(last))
      BY <2>1, <3>2 DEF IncludedUpTo, Saved
    <3> QED
      BY <2>2, <3>2, <3>3, <3>4, <3>5 DEF SinceInv, Deposited, DepositsOf
  <2>4. CASE /\ request.done = 1
             /\ request' = [done |-> 2, owner |-> request.owner, deposits |-> request.deposits,
                            withdrawals |-> Withdrawn(request.owner), since |-> request.since]
    <3> DEFINE o       == request.owner
               already == Indexed \cap IncludedUpTo(Saved(request.since))
    <3>1. /\ request'.done = 2 /\ request'.owner = o /\ request'.since = request.since
          /\ request'.deposits = request.deposits /\ request'.withdrawals = Withdrawn(o)
      BY <2>4
    <3>2. already \subseteq Stored /\ Sum(Shares, already \cap DepositsOf(o)) <= request.deposits
      BY <2>4 DEF SinceInv
    <3>3. Sum(Shares, already \cap WithdrawalsOf(o)) <= Sum(Shares, WithdrawalsOf(o) \cap Stored)
      BY <1>2, <3>2, SumMonotone, SubgraphAssumption
    <3>4. IncludedUpTo(Saved(request.since))' = IncludedUpTo(Saved(request.since))
      BY <2>1, <3>1 DEF IncludedUpTo, Saved
    <3> QED
      BY <2>2, <3>1, <3>2, <3>3, <3>4 DEF SinceInv, Withdrawn, DepositsOf, WithdrawalsOf
  <2>5. CASE request' = NoRequest
    BY <2>5 DEF SinceInv, NoRequest
  <2> QED
    BY <1>4, <2>3, <2>4, <2>5, ServeStep DEF ReadInv
<1> QED
  BY <1>3, <1>4 DEF ApiNext, apiVars

\* The net shares of an answer count every deposit saved before the request
\* and no withdrawal that is not on the chain, and the other way round,
\* whatever the indexer writes and the chain adds between the queries.
THEOREM ApiPositionWithinWindow ==
  ASSUME MaxReorgs = 0
  PROVE  ApiSpec /\ []DeployedAtStart => []PositionWithinWindow
<1>1. ApiInit => SinceInv
  BY DEF ApiInit, SinceInv, NoRequest
<1>2. ASSUME Unforked, ReadInv, SinceInv, request.done = 2
      PROVE  PositionWithinWindow
  <2> DEFINE o       == request.owner
             then    == IncludedUpTo(Saved(request.since))
             now     == IncludedUpTo(head)
             already == Indexed \cap then
  <2>1. now \subseteq Tx /\ then \subseteq now /\ Stored \subseteq now
    <3>1. Saved(request.since) \in 0..head /\ \A n \in 0..Saved(request.since) : n \in 0..head
      BY <1>2, HeadType DEF ReadInv, Saved, Unforked, IInv, ChainInv
    <3> QED
      BY <1>2, <3>1, StoredIncluded DEF IncludedUpTo
  <2>2. /\ already \cap DepositsOf(o) = then \cap DepositsOf(o)
        /\ already \cap WithdrawalsOf(o) = then \cap WithdrawalsOf(o)
    BY SubgraphAssumption DEF DepositsOf, WithdrawalsOf
  <2> HIDE DEF then, now
  <2>4. /\ Sum(Shares, then \cap DepositsOf(o)) \in Nat /\ Sum(Shares, then \cap WithdrawalsOf(o)) \in Nat
        /\ Sum(Shares, now \cap DepositsOf(o)) \in Nat /\ Sum(Shares, now \cap WithdrawalsOf(o)) \in Nat
        /\ Sum(Shares, DepositsOf(o) \cap Stored) \in Nat /\ Sum(Shares, WithdrawalsOf(o) \cap Stored) \in Nat
        /\ Sum(Shares, DepositsOf(o) \cap Stored) <= Sum(Shares, now \cap DepositsOf(o))
        /\ Sum(Shares, WithdrawalsOf(o) \cap Stored) <= Sum(Shares, now \cap WithdrawalsOf(o))
    BY <2>1, SumMonotone, SubgraphAssumption
  <2>5. /\ request.deposits \in Nat /\ request.withdrawals \in Nat
        /\ request.deposits <= Sum(Shares, DepositsOf(o) \cap Stored)
        /\ request.withdrawals <= Sum(Shares, WithdrawalsOf(o) \cap Stored)
    BY <1>2 DEF ReadInv, Request, Deposited, Withdrawn
  <2>6. /\ Sum(Shares, then \cap DepositsOf(o)) <= request.deposits
        /\ Sum(Shares, then \cap WithdrawalsOf(o)) <= request.withdrawals
    BY <1>2, <2>2 DEF SinceInv, then
  <2> HIDE DEF o
  <2> QED
    BY <2>4, <2>5, <2>6 DEF PositionWithinWindow, NetShares, Included, o, then, now
<1>3. Unforked /\ ReadInv /\ SinceInv => PositionWithinWindow
  BY <1>2 DEF PositionWithinWindow
<1> QED
  BY <1>1, <1>3, SinceStep, ReadInvariant, PTL DEF ApiSpec
=============================================================================
