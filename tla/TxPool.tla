------------------------------- MODULE TxPool -------------------------------
(***************************************************************************)
(* The pool of transactions that wait to be mined, lib_tx_pool/src/pool.rs.*)
(* A transaction stands for its id, the hash of its content.  Each call is *)
(* made with the pool's lock taken and is one step; no step is taken once  *)
(* a call has panicked and so poisoned the lock.                           *)
(***************************************************************************)
EXTENDS ChainData

CONSTANTS
    SignedTxs,      \* the transactions whose signature is right
    GarbledTxs,     \* those whose sender is no key, or signature no signature
    MaxTxPool,      \* MAX_TX_POOL: no more transactions are taken in; 10000
    Limits          \* the values of max_tx_in_one_block that are looked at

ASSUME PoolAssumption ==
    /\ SignedTxs \subseteq Txs
    /\ GarbledTxs \subseteq Txs \ SignedTxs
    /\ MaxTxPool \in Nat
    /\ Limits \subseteq Nat

VARIABLES
    poolTxIds,              \* the waiting transactions, oldest first
    poolTxMap,              \* the transactions whose content is kept
    removedTxIds,           \* the transactions never to be taken in again
    lastFinalizedBlockId,   \* the last finalized block the pool knows of
    poolPoisoned            \* a call has panicked with the pool's lock taken

poolVars == <<poolTxIds, poolTxMap, removedTxIds, lastFinalizedBlockId>>

\* Only transactions with a right signature wait or are kept.
PoolTypeOK ==
    /\ poolTxIds \in Seq(SignedTxs)
    /\ poolTxMap \subseteq SignedTxs
    /\ removedTxIds \subseteq Txs
    /\ lastFinalizedBlockId \in BlockIds
    /\ poolPoisoned \in BOOLEAN

PoolInit ==
    /\ poolTxIds = <<>>
    /\ poolTxMap = {}
    /\ removedTxIds = {}
    /\ lastFinalizedBlockId = RootId
    /\ poolPoisoned = FALSE

-----------------------------------------------------------------------------
(* Operations                                                              *)

FaultyAcceptable(t) ==          \* does not look at the signature
    /\ t \notin poolTxMap
    /\ t \notin removedTxIds
    /\ Len(poolTxIds) < MaxTxPool

FaultyReacceptable(t) ==        \* takes back what was removed
    /\ t \notin poolTxMap
    /\ Len(poolTxIds) < MaxTxPool
    /\ t \in SignedTxs

\* The conditions of add_tx.
Acceptable(t) ==
    /\ t \notin poolTxMap
    /\ t \notin removedTxIds
    /\ Len(poolTxIds) < MaxTxPool
    /\ t \in SignedTxs

\* add_tx; a transaction that is not acceptable changes nothing.  The signature
\* is verified first, whatever else is wrong, and verify_sig panics when there is
\* nothing it can verify.
AddTx(t) ==
    /\ poolPoisoned' = (t \in GarbledTxs)
    /\ IF Acceptable(t)
       THEN /\ poolTxMap' = poolTxMap \cup {t}
            /\ poolTxIds' = Append(poolTxIds, t)
            /\ UNCHANGED <<removedTxIds, lastFinalizedBlockId>>
       ELSE UNCHANGED poolVars

FaultyRetained(ids, gone) ==    \* fills the gap with the last one
    LET keep == SelectSeq(ids, LAMBDA t : t \notin gone)
    IN  IF Len(keep) < Len(ids) /\ Len(keep) > 1
        THEN <<Last(keep)>> \o Front(keep)
        ELSE keep

\* Vec::retain
Retained(ids, gone) ==
    LET kept[i \in 0..Len(ids)] ==
            IF i = 0 THEN <<>>
            ELSE IF ids[i] \in gone THEN kept[i - 1] ELSE Append(kept[i - 1], ids[i])
    IN  kept[Len(ids)]

FaultyDelTx(t) ==               \* leaves the transaction in the list
    IF t \in poolTxMap
    THEN /\ poolTxMap' = poolTxMap \ {t}
         /\ removedTxIds' = removedTxIds \cup {t}
         /\ UNCHANGED <<poolTxIds, lastFinalizedBlockId>>
    ELSE UNCHANGED poolVars

\* del_tx, which only the tests call.
DelTx(t) ==
    IF t \in poolTxMap
    THEN /\ poolTxMap' = poolTxMap \ {t}
         /\ poolTxIds' = Retained(poolTxIds, {t})
         /\ removedTxIds' = removedTxIds \cup {t}
         /\ UNCHANGED lastFinalizedBlockId
    ELSE UNCHANGED poolVars

FaultyTxsOf(blocks) ==          \* of the last block only
    IF blocks = <<>> \/ Last(blocks) = RootId THEN {} ELSE ToSet(BlockNode[Last(blocks)].txs)

\* The transactions in a list of blocks.  Those of the genesis block have ids
\* that no other transaction has, and are left out.
TxsOf(blocks) == UNION {ToSet(BlockNode[b].txs) : b \in ToSet(blocks) \ {RootId}}

\* remove_txs_from_finalized_blocks; poolTxMap is left as it is.
RemoveTxsFromFinalizedBlocks(blocks) ==
    /\ poolTxIds' = Retained(poolTxIds, TxsOf(blocks))
    /\ removedTxIds' = removedTxIds \cup TxsOf(blocks)
    /\ lastFinalizedBlockId' = IF blocks = <<>> THEN lastFinalizedBlockId ELSE Last(blocks)
    /\ UNCHANGED poolTxMap

FaultyFilterTx(ids, maxCount, excluding) ==     \* counts the excluded ones too
    SelectSeq(SubSeq(ids, 1, IF maxCount < Len(ids) THEN maxCount ELSE Len(ids)),
              LAMBDA t : t \notin excluding)

\* filter_tx: the loop over the list stops when the result has reached exactly
\* maxCount, which is looked at only after a transaction is added to it.
FilterTx(ids, maxCount, excluding) ==
    LET result[i \in 0..Len(ids)] ==
            IF i = 0 THEN <<>>
            ELSE LET before == result[i - 1]
                 IN  IF ids[i] \in excluding \/ (before # <<>> /\ Len(before) = maxCount)
                     THEN before
                     ELSE Append(before, ids[i])
    IN  result[Len(ids)]

\* The chain tells the pool of the blocks finalized since it was last told.
FinalizedSince(b) == OnPath(lastFinalizedBlockId, b)
                        /\ RemoveTxsFromFinalizedBlocks(BlocksAfter(lastFinalizedBlockId, b))

PoolNext ==
    /\ ~poolPoisoned
    /\ \/ \E t \in Txs : AddTx(t)
       \/ \E t \in Txs : DelTx(t) /\ UNCHANGED poolPoisoned
       \/ \E b \in BlockIds : FinalizedSince(b) /\ UNCHANGED poolPoisoned

PoolSpec == PoolInit /\ [][PoolNext]_<<poolVars, poolPoisoned>>

-----------------------------------------------------------------------------
(* Properties                                                              *)

\* The list, the map and the set of removed ids fit together: the list has no
\* duplicates and only transactions whose content is kept (filter_tx unwraps
\* it), none of them removed; what is kept beyond the list has been removed.
PoolExact ==
    /\ \A i, j \in DOMAIN poolTxIds : i # j => poolTxIds[i] # poolTxIds[j]
    /\ ToSet(poolTxIds) \subseteq poolTxMap
    /\ ToSet(poolTxIds) \cap removedTxIds = {}
    /\ poolTxMap \ ToSet(poolTxIds) \subseteq removedTxIds

\* The transactions of all finalized blocks up to the last one the pool knows
\* of are removed: a late copy of one is never mined again.
FinalizedRemoved ==
    UNION {ToSet(BlockNode[x].txs) : x \in ToSet(PathTo[lastFinalizedBlockId]) \ {RootId}}
        \subseteq removedTxIds

\* A transaction goes one way: outside, waiting, removed.  add_tx, del_tx and
\* finality never bring one back.
Stage(t) == IF t \in ToSet(poolTxIds) THEN 1 ELSE IF t \in removedTxIds THEN 2 ELSE 0

TxLifecycleOneWay == [][\A t \in Txs : Stage(t)' >= Stage(t)]_poolVars

\* a stands before b in the list.
Before(ids, a, b) == \E i, j \in DOMAIN ids : i < j /\ ids[i] = a /\ ids[j] = b

\* First come, first served: what stands before a transaction that was in the
\* list already was there before it too; what is new comes after (Vec::push and
\* Vec::retain).
OrderKept ==
    [][\A i, j \in DOMAIN poolTxIds' :
          i < j /\ poolTxIds'[j] \in ToSet(poolTxIds) =>
              Before(poolTxIds, poolTxIds'[i], poolTxIds'[j])]_poolVars

\* filter_tx gives the oldest waiting transactions that are not excluded, as
\* many as there are up to maxCount.  A maxCount of 0 is no limit: all of them
\* are given, where pool.rs:90 says that it is the maximum number.
FirstOf(wanted, maxCount) ==
    IF maxCount = 0 \/ Len(wanted) < maxCount THEN wanted ELSE SubSeq(wanted, 1, maxCount)

FilterOldestFirst ==
    \A excluding \in SUBSET Txs : \A maxCount \in Limits :
        FilterTx(poolTxIds, maxCount, excluding) = FirstOf(Retained(poolTxIds, excluding), maxCount)
=============================================================================
