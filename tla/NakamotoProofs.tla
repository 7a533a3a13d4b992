--------------------------- MODULE NakamotoProofs ---------------------------
(***************************************************************************)
(* Proofs about a node, for every tree of blocks, every set of             *)
(* transactions, every neighbour and any number of restarts.               *)
(*                                                                         *)
(* What the calls of the threads do to the chain and to the pool is known  *)
(* from BlockTreeProofs and TxPoolProofs; what is to be shown here is that *)
(* the threads call them with what they may be called with, and that what  *)
(* a thread has read stays good enough until it uses it.                   *)
(***************************************************************************)
EXTENDS Nakamoto, BlockTreeProofs, TxPoolProofs

\* The chain and the pool in the files, and the copy of a chain whose pool is still
\* to be copied, as chains and as a pool.
SavedChain == INSTANCE BlockTreeProofs
                WITH allBlocks <- saved.chain.allBlocks,
                     childrenMap <- saved.chain.childrenMap,
                     blockDepth <- saved.chain.blockDepth,
                     workingBlockId <- saved.chain.workingBlockId,
                     orphans <- saved.chain.orphans,
                     finalizedBlockId <- saved.chain.finalizedBlockId,
                     finalizedBalanceMap <- saved.chain.finalizedBalanceMap,
                     finalizedTxIds <- saved.chain.finalizedTxIds,
                     call <- NoBlock,
                     hung <- FALSE

CopiedChain == INSTANCE BlockTreeProofs
                WITH allBlocks <- copied[1].allBlocks,
                     childrenMap <- copied[1].childrenMap,
                     blockDepth <- copied[1].blockDepth,
                     workingBlockId <- copied[1].workingBlockId,
                     orphans <- copied[1].orphans,
                     finalizedBlockId <- copied[1].finalizedBlockId,
                     finalizedBalanceMap <- copied[1].finalizedBalanceMap,
                     finalizedTxIds <- copied[1].finalizedTxIds,
                     call <- NoBlock,
                     hung <- FALSE

SavedPool == INSTANCE TxPoolProofs
               WITH poolTxIds <- saved.pool.poolTxIds,
                    poolTxMap <- saved.pool.poolTxMap,
                    removedTxIds <- saved.pool.removedTxIds,
                    lastFinalizedBlockId <- saved.pool.lastFinalizedBlockId,
                    poolPoisoned <- FALSE

\* What the threads hold is what they have been given.
ThreadsHold ==
    /\ recvPc = "add" => recvBlock \in PeerBlocks
    /\ minerPc \in {"exclude", "choose", "solve"} => parentId \in allBlocks
    /\ minerPc = "add" =>
          minedBlock \in Blocks /\ BlockNode[minedBlock].parent \in allBlocks
    /\ minerPc = "adding" => minedBlock \in Blocks
    /\ orphans \subseteq PeerBlocks

\* Nobody but the miner thread tells the pool of finalized blocks.
SinceRead == minerPc = "finalized" => sinceBlockId = lastFinalizedBlockId

\* The list that the miner has from the chain, with the blocks that the pool knows
\* of, is the path to the last block of the list: also when the chain started on is
\* not the one the pool was told of.
ListCovers ==
    minerPc = "remove" /\ finalizedBlocks # <<>> =>
        ToSet(PathTo[Last(finalizedBlocks)])
            \subseteq ToSet(PathTo[lastFinalizedBlockId]) \cup ToSet(finalizedBlocks)

\* The list holds blocks that are finalized.
ListFinal == minerPc = "remove" => ToSet(finalizedBlocks) \subseteq ToSet(PathTo[finalizedBlockId])

\* When it is, the list leads from the last block the pool knows of to a block that
\* is still finalized, although the chain may have finalized more since.
ListFits ==
    fit /\ minerPc = "remove" =>
        \E b \in BlockIds : /\ OnPath(lastFinalizedBlockId, b)
                            /\ OnPath(b, finalizedBlockId)
                            /\ finalizedBlocks = BlocksAfter(lastFinalizedBlockId, b)

\* What the miner thread has read is still good.
MinerReads == SinceRead /\ ListCovers /\ ListFinal /\ ListFits

PoolBelow ==
    fit => /\ OnPath(lastFinalizedBlockId, finalizedBlockId)
           /\ removedTxIds = TxsUpTo(lastFinalizedBlockId)

\* What is saved, and what is being saved, is what a node can be started again from.
SavedSound ==
    /\ SavedChain!IInv /\ saved.chain.orphans \subseteq PeerBlocks
    /\ SavedPool!PoolIInv
    /\ copied # <<>> => CopiedChain!IInv /\ copied[1].orphans \subseteq PeerBlocks

NodeIInv ==
    /\ IInv
    /\ PoolIInv
    /\ NodeTypeOK
    /\ ThreadsHold
    /\ MinerReads
    /\ PoolBelow
    /\ SavedSound

-----------------------------------------------------------------------------
(* The chain                                                               *)

\* A call of add_block keeps the invariant of the chain, every attached block, and
\* every block that is finalized.
LEMMA ChainMoves ==
    ASSUME IInv, [Next]_vars
    PROVE  /\ IInv'
           /\ allBlocks \subseteq allBlocks'
           /\ finalizedBlockId \in BlockIds /\ finalizedBlockId' \in BlockIds
           /\ OnPath(finalizedBlockId, finalizedBlockId')
  <1>1. IInv'
    BY NextIInv
  <1>2. finalizedBlockId \in BlockIds /\ finalizedBlockId' \in BlockIds
    BY <1>1 DEF IInv, TypeOK
  <1>3. CASE UNCHANGED <<allBlocks, finalityVars>>
    BY <1>1, <1>2, <1>3, OnPathReflexive DEF finalityVars
  <1>4. ASSUME NEW b \in Blocks, BlockNode[b].parent \in allBlocks,
               RewardWalkStops(b), UpdateBlocktree(b)
        PROVE  /\ allBlocks \subseteq allBlocks'
               /\ OnPath(finalizedBlockId, finalizedBlockId')
    <2>1. allBlocks \subseteq allBlocks'
      BY <1>4 DEF UpdateBlocktree
    <2>2. OnPath(finalizedBlockId, BlockNode[b].parent)
      BY <1>4, RewardWalkMeetsFinalized DEF IInv
    <2>3. childrenMap' = WithChild(childrenMap, b) /\ FinalizeBlock(b)
      BY <1>4 DEF UpdateBlocktree
    <2>4. \/ UNCHANGED finalityVars
          \/ finalizedBlockId' \in Blocks /\ BlockNode[finalizedBlockId'].parent = finalizedBlockId
      BY <1>4, <2>2, <2>3, FinalizeCases DEF IInv
    <2>5. CASE UNCHANGED finalityVars
      BY <2>1, <2>5, <1>2, OnPathReflexive DEF finalityVars
    <2>6. CASE finalizedBlockId' \in Blocks /\ BlockNode[finalizedBlockId'].parent = finalizedBlockId
      <3>1. /\ Len(PathTo[finalizedBlockId]) \in Nat \ {0}
            /\ PathTo[finalizedBlockId][Len(PathTo[finalizedBlockId])] = finalizedBlockId
        BY <1>2, PathEnd
      <3>2. /\ Len(PathTo[finalizedBlockId']) = Len(PathTo[finalizedBlockId]) + 1
            /\ \A i \in 1..Len(PathTo[finalizedBlockId]) :
                  PathTo[finalizedBlockId'][i] = PathTo[finalizedBlockId][i]
        BY <2>6, StepPath
      <3>3. /\ Len(PathTo[finalizedBlockId]) <= Len(PathTo[finalizedBlockId'])
            /\ PathTo[finalizedBlockId'][Len(PathTo[finalizedBlockId])] = finalizedBlockId
        BY <3>1, <3>2
      <3>4. OnPath(finalizedBlockId, finalizedBlockId')
        BY <3>3, <1>2, OnPathBeginning
      <3> QED
        BY <2>1, <3>4
    <2> QED
      BY <2>4, <2>5, <2>6
  <1> QED
    BY <1>1, <1>2, <1>3, <1>4, StepCases DEF treeVars

\* add_block makes an orphan of a block only when its parent is not attached.
LEMMA OrphansMove ==
    ASSUME NEW b \in Blocks, AddBlock(b)
    PROVE  /\ orphans' \subseteq orphans \cup {b}
           /\ BlockNode[b].parent \in allBlocks => orphans' \subseteq orphans
  <1>1. CASE IgnoreBlock(b)
    BY <1>1 DEF IgnoreBlock, vars
  <1>2. CASE KeepOrphan(b)
    BY <1>2 DEF KeepOrphan
  <1>3. CASE AttachBlock(b)
    BY <1>3 DEF AttachBlock, ParentFound, AdoptOrphan
  <1>4. CASE PanicOnBlock(b)
    BY <1>4 DEF PanicOnBlock
  <1> QED
    BY <1>1, <1>2, <1>3, <1>4 DEF AddBlock

LEMMA RecursionOrphans ==
    ASSUME AddOrphanBlock
    PROVE  orphans' \subseteq orphans
  BY DEF AddOrphanBlock, ParentFound, AdoptOrphan

-----------------------------------------------------------------------------
(* What the miner thread reads                                             *)

\* get_pending_finalization_txs
LEMMA PendingTyped ==
    ASSUME IInv
    PROVE  PendingTxs \subseteq Txs
  <1>1. /\ finalizedBlockId \in BlockIds /\ workingBlockId \in BlockIds
        /\ OnPath(finalizedBlockId, workingBlockId)
    BY DEF IInv, TypeOK, WorkingBelowFinalized, PendingWalkStops
  <1>2. \A b \in ToSet(BlocksAfter(finalizedBlockId, workingBlockId)) : b \in Blocks
    BY <1>1, BlocksAfterRest
  <1>3. \A b \in Blocks : TxIdsOf(b) \subseteq Txs
    <2> TAKE b \in Blocks
    <2>1. BlockNode[b].txs \in Seq(Txs)
      BY BlockFields
    <2> QED
      BY <2>1 DEF TxIdsOf, ToSet
  <1> QED
    BY <1>2, <1>3 DEF PendingTxs

\* filter_tx gives signed transactions.
LEMMA FilterTyped ==
    ASSUME PoolIInv, NEW excluding
    PROVE  FilterTxs(excluding) \in Seq(SignedTxs)
  <1> DEFINE wanted == Retained(poolTxIds, excluding)
  <1>1. poolTxIds \in Seq(SignedTxs) /\ MaxTxInOneBlock \in Nat
    BY NakamotoAssumption, PoolAssumption DEF PoolIInv, PoolTypeOK
  <1>2. FilterTxs(excluding) = FirstOf(wanted, MaxTxInOneBlock)
    BY <1>1, FilterList DEF FilterTxs
  <1>3. wanted \in Seq(SignedTxs)
    BY <1>1, RetainedList
  <1> HIDE DEF wanted
  <1>4. CASE MaxTxInOneBlock = 0 \/ Len(wanted) < MaxTxInOneBlock
    BY <1>2, <1>3, <1>4 DEF FirstOf
  <1>5. CASE MaxTxInOneBlock # 0 /\ ~(Len(wanted) < MaxTxInOneBlock)
    <2>1. FilterTxs(excluding) = SubSeq(wanted, 1, MaxTxInOneBlock)
      BY <1>2, <1>5 DEF FirstOf
    <2>2. \A i \in 1..MaxTxInOneBlock : wanted[i] \in SignedTxs
      BY <1>1, <1>3, <1>5
    <2>3. SubSeq(wanted, 1, MaxTxInOneBlock) \in Seq(SignedTxs)
      BY <1>1, <1>3, <1>5, <2>2
    <2> QED
      BY <2>1, <2>3
  <1> QED
    BY <1>4, <1>5

\* get_finalized_blocks_since, whichever block the pool was last told of.
LEMMA SinceList ==
    ASSUME NEW a \in BlockIds, finalizedBlockId \in BlockIds
    PROVE  /\ BlocksSince(a) \in Seq(BlockIds)
           /\ BlocksSince(a) # <<>> =>
                 ToSet(PathTo[Last(BlocksSince(a))])
                     \subseteq ToSet(PathTo[a]) \cup ToSet(BlocksSince(a))
           /\ ToSet(BlocksSince(a)) \subseteq ToSet(PathTo[finalizedBlockId])
           /\ OnPath(a, finalizedBlockId) =>
                 BlocksSince(a) = BlocksAfter(a, finalizedBlockId)
  <1> DEFINE f == finalizedBlockId
  <1>1. CASE OnPath(a, f)
    <2>1. BlocksSince(a) = BlocksAfter(a, f)
      BY <1>1 DEF BlocksSince
    <2>2. /\ BlocksAfter(a, f) \in Seq(BlockIds)
          /\ ToSet(PathTo[f]) = ToSet(PathTo[a]) \cup ToSet(BlocksAfter(a, f))
          /\ BlocksAfter(a, f) # <<>> => Last(BlocksAfter(a, f)) = f
      BY <1>1, BlocksAfterRest
    <2> QED
      BY <2>1, <2>2
  <1>2. CASE ~OnPath(a, f) /\ f = RootId
    <2>1. BlocksSince(a) = <<RootId>>
      BY <1>2 DEF BlocksSince
    <2>2. PathTo[RootId] = <<RootId>> /\ RootId \in BlockIds
      BY BlocksAssumption DEF BlockIds
    <2>3. <<RootId>> \in Seq(BlockIds) /\ Last(<<RootId>>) = RootId
      BY <2>2 DEF Last
    <2>4. ToSet(<<RootId>>) = {RootId}
      BY DEF ToSet
    <2> QED
      BY <1>2, <2>1, <2>2, <2>3, <2>4
  <1>3. CASE ~OnPath(a, f) /\ f # RootId
    <2>1. BlocksSince(a) = BlocksAfter(RootId, f)
      BY <1>3 DEF BlocksSince
    <2>2. RootId \in BlockIds /\ OnPath(RootId, f) /\ PathTo[a][1] = RootId
      BY PathStart DEF BlockIds
    <2>3. /\ BlocksAfter(RootId, f) \in Seq(BlockIds)
          /\ BlocksAfter(RootId, f) # <<>> => Last(BlocksAfter(RootId, f)) = f
      BY <2>2, BlocksAfterRest
    <2>4. /\ ToSet(PathTo[f]) \subseteq {RootId} \cup ToSet(BlocksAfter(RootId, f))
          /\ ToSet(BlocksAfter(RootId, f)) \subseteq ToSet(PathTo[f])
      BY BlocksAfterRoot
    <2>5. RootId \in ToSet(PathTo[a])
      <3>1. 1 \in DOMAIN PathTo[a]
        BY PathEnd, BlocksAssumption
      <3> QED
        BY <3>1, <2>2 DEF ToSet
    <2> QED
      BY <1>3, <2>1, <2>3, <2>4, <2>5
  <1> QED
    BY <1>1, <1>2, <1>3

\* The transactions up to b are those up to a and those of the blocks after a.
LEMMA TxsUpToAfter ==
    ASSUME NEW a \in BlockIds, NEW b \in BlockIds, OnPath(a, b)
    PROVE  TxsUpTo(b) = TxsUpTo(a) \cup TxsOf(BlocksAfter(a, b))
  <1>1. /\ ToSet(BlocksAfter(RootId, a)) = ToSet(PathTo[a]) \ {RootId}
        /\ ToSet(BlocksAfter(RootId, b)) = ToSet(PathTo[b]) \ {RootId}
    BY BlocksAfterRoot
  <1>2. ToSet(PathTo[b]) = ToSet(PathTo[a]) \cup ToSet(BlocksAfter(a, b))
    BY BlocksAfterRest
  <1>3. ToSet(BlocksAfter(RootId, b))
            = ToSet(BlocksAfter(RootId, a)) \cup (ToSet(BlocksAfter(a, b)) \ {RootId})
    BY <1>1, <1>2
  <1> QED
    BY <1>3 DEF TxsUpTo, TxsOf, TxIdsOf

-----------------------------------------------------------------------------
(* The saved state                                                         *)

LEMMA SavedChainStays ==
    ASSUME SavedChain!IInv, saved'.chain = saved.chain
    PROVE  SavedChain!IInv'
  <1>1. SavedChain!TypeOK'
    BY DEF SavedChain!IInv, SavedChain!TypeOK
  <1>2. SavedChain!TreeExact'
    BY DEF SavedChain!IInv, SavedChain!TreeExact
  <1>3. SavedChain!PathsClosed' /\ SavedChain!OrphansSound'
    BY DEF SavedChain!IInv, SavedChain!PathsClosed, SavedChain!OrphansSound
  <1>4. SavedChain!WorkingBelowFinalized' /\ SavedChain!FinalityDepth'
    BY DEF SavedChain!IInv, SavedChain!WorkingBelowFinalized, SavedChain!PendingWalkStops,
           SavedChain!FinalityDepth
  <1>5. SavedChain!OrphanCallReady' /\ SavedChain!RecursionEnds'
    BY DEF SavedChain!OrphanCallReady, SavedChain!RecursionEnds
  <1> QED
    BY <1>1, <1>2, <1>3, <1>4, <1>5 DEF SavedChain!IInv

LEMMA CopiedChainStays ==
    ASSUME CopiedChain!IInv, copied'[1] = copied[1]
    PROVE  CopiedChain!IInv'
  <1>1. CopiedChain!TypeOK'
    BY DEF CopiedChain!IInv, CopiedChain!TypeOK
  <1>2. CopiedChain!TreeExact'
    BY DEF CopiedChain!IInv, CopiedChain!TreeExact
  <1>3. CopiedChain!PathsClosed' /\ CopiedChain!OrphansSound'
    BY DEF CopiedChain!IInv, CopiedChain!PathsClosed, CopiedChain!OrphansSound
  <1>4. CopiedChain!WorkingBelowFinalized' /\ CopiedChain!FinalityDepth'
    BY DEF CopiedChain!IInv, CopiedChain!WorkingBelowFinalized, CopiedChain!PendingWalkStops,
           CopiedChain!FinalityDepth
  <1>5. CopiedChain!OrphanCallReady' /\ CopiedChain!RecursionEnds'
    BY DEF CopiedChain!OrphanCallReady, CopiedChain!RecursionEnds
  <1> QED
    BY <1>1, <1>2, <1>3, <1>4, <1>5 DEF CopiedChain!IInv

LEMMA SavedPoolStays ==
    ASSUME SavedPool!PoolIInv, saved'.pool = saved.pool
    PROVE  SavedPool!PoolIInv'
  BY DEF SavedPool!PoolIInv, SavedPool!PoolTypeOK, SavedPool!PoolExact,
         SavedPool!FinalizedRemoved

LEMMA SavedStays ==
    ASSUME SavedSound, UNCHANGED savedVars
    PROVE  SavedSound' /\ UNCHANGED fit
  <1>1. UNCHANGED <<saved, copied, fit>>
    BY DEF savedVars
  <1>2. SavedChain!IInv' /\ SavedPool!PoolIInv'
    BY <1>1, SavedChainStays, SavedPoolStays DEF SavedSound
  <1>3. copied # <<>> => CopiedChain!IInv'
    BY <1>1, CopiedChainStays DEF SavedSound
  <1> QED
    BY <1>1, <1>2, <1>3 DEF SavedSound

\* A chain is saved while no call of add_block is running.
LEMMA CopyChainSound ==
    ASSUME IInv, copied' = <<ChainCopy>>
    PROVE  CopiedChain!IInv' /\ copied'[1].orphans = orphans
  <1> DEFINE c == ChainCopy
  <1>0. copied'[1] = c
    OBVIOUS
  <1>a. /\ c.allBlocks = allBlocks /\ c.childrenMap = childrenMap
        /\ c.blockDepth = blockDepth /\ c.workingBlockId = workingBlockId
        /\ c.orphans = orphans /\ c.finalizedBlockId = finalizedBlockId
        /\ c.finalizedBalanceMap = finalizedBalanceMap
        /\ c.finalizedTxIds = finalizedTxIds
    BY DEF ChainCopy
  <1> HIDE DEF c
  <1>1. /\ copied'[1].allBlocks = allBlocks /\ copied'[1].childrenMap = childrenMap
        /\ copied'[1].blockDepth = blockDepth /\ copied'[1].workingBlockId = workingBlockId
        /\ copied'[1].orphans = orphans /\ copied'[1].finalizedBlockId = finalizedBlockId
        /\ copied'[1].finalizedBalanceMap = finalizedBalanceMap /\ copied'[1].finalizedTxIds = finalizedTxIds
    BY <1>0, <1>a
  <1>2. CopiedChain!TypeOK'
    BY <1>1 DEF IInv, TypeOK, CopiedChain!TypeOK, BlockIds, CopiedChain!BlockIds
  <1>3. CopiedChain!TreeExact'
    BY <1>1 DEF IInv, TreeExact, CopiedChain!TreeExact, Depth, CopiedChain!Depth, Children, CopiedChain!Children,
       TxIdsOf, CopiedChain!TxIdsOf, ToSet, CopiedChain!ToSet
  <1>4. CopiedChain!PathsClosed' /\ CopiedChain!OrphansSound'
    BY <1>1 DEF IInv, PathsClosed, CopiedChain!PathsClosed, OrphansSound, CopiedChain!OrphansSound
  <1>5. CopiedChain!WorkingBelowFinalized' /\ CopiedChain!FinalityDepth'
    BY <1>1 DEF IInv, WorkingBelowFinalized, CopiedChain!WorkingBelowFinalized, PendingWalkStops, CopiedChain!PendingWalkStops,
       FinalityDepth, CopiedChain!FinalityDepth, OnPath, CopiedChain!OnPath
  <1>6. CopiedChain!OrphanCallReady' /\ CopiedChain!RecursionEnds'
    BY <1>1 DEF CopiedChain!OrphanCallReady, CopiedChain!RecursionEnds
  <1> QED
    BY <1>2, <1>3, <1>4, <1>5, <1>6, <1>1 DEF CopiedChain!IInv

\* It is the chain of the files once the pool is copied too.
LEMMA WriteChainSound ==
    ASSUME CopiedChain!IInv, saved'.chain = copied[1]
    PROVE  SavedChain!IInv'
  <1>2. SavedChain!TypeOK'
    BY DEF CopiedChain!IInv, CopiedChain!TypeOK, SavedChain!TypeOK, CopiedChain!BlockIds, SavedChain!BlockIds
  <1>3. SavedChain!TreeExact'
    BY DEF CopiedChain!IInv, CopiedChain!TreeExact, SavedChain!TreeExact, CopiedChain!Depth, SavedChain!Depth, CopiedChain!Children, SavedChain!Children,
       CopiedChain!TxIdsOf, SavedChain!TxIdsOf, CopiedChain!ToSet, SavedChain!ToSet
  <1>4. SavedChain!PathsClosed' /\ SavedChain!OrphansSound'
    BY DEF CopiedChain!IInv, CopiedChain!PathsClosed, SavedChain!PathsClosed, CopiedChain!OrphansSound, SavedChain!OrphansSound
  <1>5. SavedChain!WorkingBelowFinalized' /\ SavedChain!FinalityDepth'
    BY DEF CopiedChain!IInv, CopiedChain!WorkingBelowFinalized, SavedChain!WorkingBelowFinalized, CopiedChain!PendingWalkStops, SavedChain!PendingWalkStops,
       CopiedChain!FinalityDepth, SavedChain!FinalityDepth, CopiedChain!OnPath, SavedChain!OnPath
  <1>6. SavedChain!OrphanCallReady' /\ SavedChain!RecursionEnds'
    BY DEF SavedChain!OrphanCallReady, SavedChain!RecursionEnds
  <1> QED
    BY <1>2, <1>3, <1>4, <1>5, <1>6 DEF SavedChain!IInv

LEMMA WritePoolSound ==
    ASSUME PoolIInv, saved'.pool = PoolCopy
    PROVE  SavedPool!PoolIInv'
  <1>1. /\ saved'.pool.poolTxIds = poolTxIds /\ saved'.pool.poolTxMap = poolTxMap
        /\ saved'.pool.removedTxIds = removedTxIds
        /\ saved'.pool.lastFinalizedBlockId = lastFinalizedBlockId
    BY DEF PoolCopy
  <1>2. SavedPool!PoolTypeOK' /\ SavedPool!PoolExact'
    BY <1>1 DEF PoolIInv, PoolTypeOK, PoolExact, BlockIds, ToSet,
       SavedPool!PoolTypeOK, SavedPool!PoolExact, SavedPool!BlockIds, SavedPool!ToSet
  <1>3. SavedPool!FinalizedRemoved'
    BY <1>1 DEF PoolIInv, FinalizedRemoved, ToSet,
       SavedPool!FinalizedRemoved, SavedPool!ToSet
  <1> QED
    BY <1>2, <1>3 DEF SavedPool!PoolIInv

\* The files of the first node.
LEMMA FirstChainSound ==
    ASSUME IInv, saved.chain = ChainCopy
    PROVE  SavedChain!IInv /\ saved.chain.orphans = orphans
  <1> DEFINE c == ChainCopy
  <1>0. saved.chain = c
    OBVIOUS
  <1>a. /\ c.allBlocks = allBlocks /\ c.childrenMap = childrenMap
        /\ c.blockDepth = blockDepth /\ c.workingBlockId = workingBlockId
        /\ c.orphans = orphans /\ c.finalizedBlockId = finalizedBlockId
        /\ c.finalizedBalanceMap = finalizedBalanceMap
        /\ c.finalizedTxIds = finalizedTxIds
    BY DEF ChainCopy
  <1> HIDE DEF c
  <1>1. /\ saved.chain.allBlocks = allBlocks /\ saved.chain.childrenMap = childrenMap
        /\ saved.chain.blockDepth = blockDepth /\ saved.chain.workingBlockId = workingBlockId
        /\ saved.chain.orphans = orphans /\ saved.chain.finalizedBlockId = finalizedBlockId
        /\ saved.chain.finalizedBalanceMap = finalizedBalanceMap /\ saved.chain.finalizedTxIds = finalizedTxIds
    BY <1>0, <1>a
  <1>2. SavedChain!TypeOK
    BY <1>1 DEF IInv, TypeOK, SavedChain!TypeOK, BlockIds, SavedChain!BlockIds
  <1>3. SavedChain!TreeExact
    BY <1>1 DEF IInv, TreeExact, SavedChain!TreeExact, Depth, SavedChain!Depth, Children, SavedChain!Children,
       TxIdsOf, SavedChain!TxIdsOf, ToSet, SavedChain!ToSet
  <1>4. SavedChain!PathsClosed /\ SavedChain!OrphansSound
    BY <1>1 DEF IInv, PathsClosed, SavedChain!PathsClosed, OrphansSound, SavedChain!OrphansSound
  <1>5. SavedChain!WorkingBelowFinalized /\ SavedChain!FinalityDepth
    BY <1>1 DEF IInv, WorkingBelowFinalized, SavedChain!WorkingBelowFinalized, PendingWalkStops, SavedChain!PendingWalkStops,
       FinalityDepth, SavedChain!FinalityDepth, OnPath, SavedChain!OnPath
  <1>6. SavedChain!OrphanCallReady /\ SavedChain!RecursionEnds
    BY <1>1 DEF SavedChain!OrphanCallReady, SavedChain!RecursionEnds
  <1> QED
    BY <1>2, <1>3, <1>4, <1>5, <1>6, <1>1 DEF SavedChain!IInv

LEMMA FirstPoolSound ==
    ASSUME PoolIInv, saved.pool = PoolCopy
    PROVE  SavedPool!PoolIInv
  <1>1. /\ saved.pool.poolTxIds = poolTxIds /\ saved.pool.poolTxMap = poolTxMap
        /\ saved.pool.removedTxIds = removedTxIds
        /\ saved.pool.lastFinalizedBlockId = lastFinalizedBlockId
    BY DEF PoolCopy
  <1>2. SavedPool!PoolTypeOK /\ SavedPool!PoolExact
    BY <1>1 DEF PoolIInv, PoolTypeOK, PoolExact, BlockIds, ToSet,
       SavedPool!PoolTypeOK, SavedPool!PoolExact, SavedPool!BlockIds, SavedPool!ToSet
  <1>3. SavedPool!FinalizedRemoved
    BY <1>1 DEF PoolIInv, FinalizedRemoved, ToSet,
       SavedPool!FinalizedRemoved, SavedPool!ToSet
  <1> QED
    BY <1>2, <1>3 DEF SavedPool!PoolIInv

\* The chain a node is started on again satisfies what a running chain does.
LEMMA RestoredChain ==
    ASSUME SavedChain!IInv, RestoreChain(saved.chain)
    PROVE  IInv'
  <1>1. /\ allBlocks' = saved.chain.allBlocks /\ childrenMap' = saved.chain.childrenMap
        /\ blockDepth' = saved.chain.blockDepth /\ workingBlockId' = saved.chain.workingBlockId
        /\ orphans' = saved.chain.orphans /\ finalizedBlockId' = saved.chain.finalizedBlockId
        /\ finalizedBalanceMap' = saved.chain.finalizedBalanceMap /\ finalizedTxIds' = saved.chain.finalizedTxIds
        /\ call' = NoBlock /\ hung' = FALSE
    BY DEF RestoreChain
  <1>2. TypeOK'
    BY <1>1 DEF SavedChain!IInv, SavedChain!TypeOK, TypeOK, SavedChain!BlockIds, BlockIds
  <1>3. TreeExact'
    BY <1>1 DEF SavedChain!IInv, SavedChain!TreeExact, TreeExact, SavedChain!Depth, Depth, SavedChain!Children, Children,
       SavedChain!TxIdsOf, TxIdsOf, SavedChain!ToSet, ToSet
  <1>4. PathsClosed' /\ OrphansSound'
    BY <1>1 DEF SavedChain!IInv, SavedChain!PathsClosed, PathsClosed, SavedChain!OrphansSound, OrphansSound
  <1>5. WorkingBelowFinalized' /\ FinalityDepth'
    BY <1>1 DEF SavedChain!IInv, SavedChain!WorkingBelowFinalized, WorkingBelowFinalized, SavedChain!PendingWalkStops, PendingWalkStops,
       SavedChain!FinalityDepth, FinalityDepth, SavedChain!OnPath, OnPath
  <1>6. OrphanCallReady' /\ RecursionEnds'
    BY <1>1 DEF OrphanCallReady, RecursionEnds
  <1> QED
    BY <1>2, <1>3, <1>4, <1>5, <1>6 DEF IInv

LEMMA RestoredPool ==
    ASSUME SavedPool!PoolIInv, RestorePool(saved.pool)
    PROVE  PoolIInv'
  <1>1. /\ poolTxIds' = saved.pool.poolTxIds /\ poolTxMap' = saved.pool.poolTxMap
        /\ removedTxIds' = saved.pool.removedTxIds
        /\ lastFinalizedBlockId' = saved.pool.lastFinalizedBlockId
        /\ poolPoisoned' = FALSE
    BY DEF RestorePool
  <1>2. PoolTypeOK' /\ PoolExact'
    BY <1>1 DEF SavedPool!PoolIInv, PoolTypeOK, PoolExact, BlockIds, ToSet,
       SavedPool!PoolTypeOK, SavedPool!PoolExact, SavedPool!BlockIds, SavedPool!ToSet
  <1>3. FinalizedRemoved'
    BY <1>1 DEF SavedPool!PoolIInv, FinalizedRemoved, ToSet,
       SavedPool!FinalizedRemoved, SavedPool!ToSet
  <1> QED
    BY <1>2, <1>3 DEF PoolIInv

-----------------------------------------------------------------------------
(* What a step leaves alone                                                *)

minerReading == <<minerPc, sinceBlockId, finalizedBlocks>>

\* Whatever add_block does, and the user does with the saved state, the pool stays
\* at a finalized block, and the list that the miner holds stays good.
LEMMA CallKeeps ==
    ASSUME NodeIInv, [Next]_vars, UNCHANGED <<removedTxIds, lastFinalizedBlockId, fit>>
    PROVE  /\ IInv' /\ PoolBelow' /\ allBlocks \subseteq allBlocks'
           /\ UNCHANGED minerReading => MinerReads'
  <1>1. /\ IInv' /\ allBlocks \subseteq allBlocks'
        /\ finalizedBlockId \in BlockIds /\ finalizedBlockId' \in BlockIds
        /\ OnPath(finalizedBlockId, finalizedBlockId')
    BY ChainMoves DEF NodeIInv
  <1>2. lastFinalizedBlockId \in BlockIds
    BY DEF NodeIInv, PoolIInv, PoolTypeOK
  <1>3. \A b \in BlockIds : OnPath(b, finalizedBlockId) => OnPath(b, finalizedBlockId')
    BY <1>1, OnPathTransitive
  <1>4. PoolBelow'
    <2>1. TxsUpTo(lastFinalizedBlockId)' = TxsUpTo(lastFinalizedBlockId)
      BY DEF TxsUpTo
    <2> QED
      BY <1>2, <1>3, <2>1 DEF NodeIInv, PoolBelow
  <1>5. ASSUME UNCHANGED minerReading
        PROVE  MinerReads'
    <2>1. SinceRead' /\ ListCovers'
      BY <1>5 DEF minerReading, NodeIInv, MinerReads, SinceRead, ListCovers
    <2>2. ListFinal'
      <3>1. ToSet(PathTo[finalizedBlockId'])
              = ToSet(PathTo[finalizedBlockId])
                  \cup ToSet(BlocksAfter(finalizedBlockId, finalizedBlockId'))
        BY <1>1, BlocksAfterRest
      <3> QED
        BY <1>5, <3>1 DEF minerReading, NodeIInv, MinerReads, ListFinal
    <2>3. ListFits'
      <3>1. SUFFICES ASSUME fit', minerPc' = "remove"
                     PROVE  \E b \in BlockIds :
                               /\ OnPath(lastFinalizedBlockId', b)
                               /\ OnPath(b, finalizedBlockId')
                               /\ finalizedBlocks' = BlocksAfter(lastFinalizedBlockId', b)
        BY DEF ListFits
      <3>2. PICK b \in BlockIds : /\ OnPath(lastFinalizedBlockId, b)
                                  /\ OnPath(b, finalizedBlockId)
                                  /\ finalizedBlocks = BlocksAfter(lastFinalizedBlockId, b)
        BY <1>5, <3>1 DEF NodeIInv, MinerReads, ListFits, minerReading
      <3>3. OnPath(b, finalizedBlockId')
        BY <1>3, <3>2
      <3> QED
        BY <1>5, <3>2, <3>3 DEF minerReading
    <2> QED
      BY <2>1, <2>2, <2>3 DEF MinerReads
  <1> QED
    BY <1>1, <1>4, <1>5

\* A step that takes no lock, or takes it to read.
LEMMA QuietKeeps ==
    ASSUME NodeIInv, UNCHANGED <<vars, nodePool, savedVars>>
    PROVE  /\ IInv' /\ PoolIInv' /\ PoolBelow' /\ SavedSound'
           /\ UNCHANGED minerReading => MinerReads'
  <1>1. SavedSound' /\ UNCHANGED fit
    BY SavedStays DEF NodeIInv
  <1>2. PoolIInv'
    BY PoolStutters DEF NodeIInv, nodePool
  <1>3. UNCHANGED <<removedTxIds, lastFinalizedBlockId>>
    BY DEF poolVars, nodePool
  <1> QED
    BY <1>1, <1>2, <1>3, CallKeeps

-----------------------------------------------------------------------------
(* The steps of the threads                                                *)

LEMMA TakeInTxStep ==
    ASSUME NodeIInv, NEW t \in IncomingTxs, TakeInTx(t)
    PROVE  NodeIInv'
  <1>1. /\ AddTx(t) /\ transOut' \in BOOLEAN
        /\ UNCHANGED <<vars, recvVars, minerVars, cancellationToken, lockHolder, woken, acked, savedVars>>
    BY DEF TakeInTx, chainVars, NodeIInv, NodeTypeOK
  <1>2. PoolIInv'
    BY <1>1, AddTxStep, NakamotoAssumption DEF NodeIInv
  <1>3. SavedSound' /\ UNCHANGED fit
    BY <1>1, SavedStays DEF NodeIInv
  <1>4. UNCHANGED <<removedTxIds, lastFinalizedBlockId>>
    BY <1>1 DEF AddTx, poolVars
  <1>5. UNCHANGED minerReading
    BY <1>1 DEF minerReading, minerVars
  <1>6. IInv' /\ PoolBelow' /\ MinerReads'
    BY <1>1, <1>3, <1>4, <1>5, CallKeeps
  <1>7. NodeTypeOK'
    BY <1>1 DEF NodeIInv, NodeTypeOK, recvVars, minerVars
  <1>8. ThreadsHold'
    BY <1>1 DEF NodeIInv, ThreadsHold, recvVars, minerVars, vars, treeVars
  <1> QED
    BY <1>2, <1>3, <1>6, <1>7, <1>8 DEF NodeIInv

LEMMA SendTxStep ==
    ASSUME NodeIInv, SendTx
    PROVE  NodeIInv'
  <1>1. /\ transOut' = FALSE /\ woken' = TRUE
        /\ UNCHANGED <<vars, nodePool, recvVars, minerVars, cancellationToken, lockHolder, acked, savedVars>>
    BY DEF SendTx, chainVars
  <1>2. UNCHANGED minerReading
    BY <1>1 DEF minerReading, minerVars
  <1>3. NodeTypeOK'
    BY <1>1 DEF NodeIInv, NodeTypeOK, recvVars, minerVars
  <1>4. ThreadsHold'
    BY <1>1 DEF NodeIInv, ThreadsHold, recvVars, minerVars, vars, treeVars
  <1> QED
    BY <1>1, <1>2, <1>3, <1>4, QuietKeeps DEF NodeIInv

LEMMA RecvBlockStep ==
    ASSUME NodeIInv, NEW b \in PeerBlocks, RecvBlock(b)
    PROVE  NodeIInv'
  <1>1. /\ recvPc' = "add" /\ recvBlock' = b /\ cancellationToken' = TRUE
        /\ acked' = acked \cup {b}
        /\ UNCHANGED <<vars, nodePool, minerVars, lockHolder, signalVars, savedVars>>
    BY DEF RecvBlock, chainVars
  <1>2. UNCHANGED minerReading
    BY <1>1 DEF minerReading, minerVars
  <1>3. NodeTypeOK'
    BY <1>1, NakamotoAssumption DEF NodeIInv, NodeTypeOK, signalVars, minerVars
  <1>4. ThreadsHold'
    BY <1>1 DEF NodeIInv, ThreadsHold, minerVars, vars, treeVars
  <1> QED
    BY <1>1, <1>2, <1>3, <1>4, QuietKeeps DEF NodeIInv

LEMMA RecvAddStep ==
    ASSUME NodeIInv, RecvAdd
    PROVE  NodeIInv'
  <1>1. /\ recvPc = "add" /\ AddBlock(recvBlock) /\ recvPc' = "adding" /\ lockHolder' = "recv"
        /\ UNCHANGED <<recvBlock, nodePool, minerVars, cancellationToken, signalVars, acked, savedVars>>
    BY DEF RecvAdd
  <1>2. recvBlock \in PeerBlocks /\ recvBlock \in Blocks
    BY <1>1, NakamotoAssumption DEF NodeIInv, ThreadsHold
  <1>3. [Next]_vars
    BY <1>1, <1>2 DEF Next
  <1>4. SavedSound' /\ UNCHANGED fit /\ PoolIInv'
    BY <1>1, SavedStays, PoolStutters DEF NodeIInv, nodePool
  <1>5. UNCHANGED <<removedTxIds, lastFinalizedBlockId>> /\ UNCHANGED minerReading
    BY <1>1 DEF nodePool, poolVars, minerReading, minerVars
  <1>6. /\ IInv' /\ PoolBelow' /\ allBlocks \subseteq allBlocks'
        /\ MinerReads'
    BY <1>3, <1>4, <1>5, CallKeeps
  <1>7. NodeTypeOK'
    BY <1>1 DEF NodeIInv, NodeTypeOK, signalVars, minerVars
  <1>8. orphans' \subseteq PeerBlocks
    BY <1>1, <1>2, OrphansMove DEF NodeIInv, ThreadsHold
  <1>9. ThreadsHold'
    BY <1>1, <1>6, <1>8 DEF NodeIInv, ThreadsHold, minerVars
  <1> QED
    BY <1>4, <1>6, <1>7, <1>9 DEF NodeIInv

LEMMA RecvDoneStep ==
    ASSUME NodeIInv, RecvDone
    PROVE  NodeIInv'
  <1>1. /\ recvPc' = "idle" /\ recvBlock' = NoBlock
        /\ cancellationToken' = FALSE /\ woken' = TRUE
        /\ lockHolder' \in {lockHolder, "nobody"}
        /\ UNCHANGED <<vars, nodePool, minerVars, transOut, acked, savedVars>>
    BY DEF RecvDone, Release, chainVars
  <1>2. UNCHANGED minerReading
    BY <1>1 DEF minerReading, minerVars
  <1>3. NodeTypeOK'
    BY <1>1 DEF NodeIInv, NodeTypeOK, minerVars
  <1>4. ThreadsHold'
    BY <1>1 DEF NodeIInv, ThreadsHold, minerVars, vars, treeVars
  <1> QED
    BY <1>1, <1>2, <1>3, <1>4, QuietKeeps DEF NodeIInv

LEMMA RecursionStep ==
    ASSUME NodeIInv, Recursion
    PROVE  NodeIInv'
  <1>1. /\ AddOrphanBlock
        /\ UNCHANGED <<nodePool, recvVars, minerVars, cancellationToken, lockHolder, signalVars,
                       acked, savedVars>>
    BY DEF Recursion
  <1>2. [Next]_vars
    BY <1>1 DEF Next
  <1>3. SavedSound' /\ UNCHANGED fit /\ PoolIInv'
    BY <1>1, SavedStays, PoolStutters DEF NodeIInv, nodePool
  <1>4. UNCHANGED <<removedTxIds, lastFinalizedBlockId>> /\ UNCHANGED minerReading
    BY <1>1 DEF nodePool, poolVars, minerReading, minerVars
  <1>5. /\ IInv' /\ PoolBelow' /\ allBlocks \subseteq allBlocks'
        /\ MinerReads'
    BY <1>2, <1>3, <1>4, CallKeeps
  <1>6. NodeTypeOK'
    BY <1>1 DEF NodeIInv, NodeTypeOK, recvVars, signalVars, minerVars
  <1>7. ThreadsHold'
    BY <1>1, <1>5, RecursionOrphans DEF NodeIInv, ThreadsHold, recvVars, minerVars
  <1> QED
    BY <1>3, <1>5, <1>6, <1>7 DEF NodeIInv

LEMMA AddMinedStep ==
    ASSUME NodeIInv, AddMined
    PROVE  NodeIInv'
  <1>1. /\ minerPc = "add" /\ AddBlock(minedBlock) /\ minerPc' = "adding" /\ lockHolder' = "miner"
        /\ UNCHANGED <<nodePool, excludingTxs, sinceBlockId, finalizedBlocks, parentId, newTxs,
                       minedBlock, woken, recvVars, cancellationToken, transOut, acked, savedVars>>
    BY DEF AddMined, othersUnchanged
  <1>2. minedBlock \in Blocks /\ BlockNode[minedBlock].parent \in allBlocks
    BY <1>1 DEF NodeIInv, ThreadsHold
  <1>3. [Next]_vars
    BY <1>1, <1>2 DEF Next
  <1>4. SavedSound' /\ UNCHANGED fit /\ PoolIInv'
    BY <1>1, SavedStays, PoolStutters DEF NodeIInv, nodePool
  <1>5. UNCHANGED <<removedTxIds, lastFinalizedBlockId>>
    BY <1>1 DEF nodePool, poolVars
  <1>6. IInv' /\ PoolBelow' /\ allBlocks \subseteq allBlocks'
    BY <1>3, <1>4, <1>5, CallKeeps
  <1>7. MinerReads'
    BY <1>1 DEF MinerReads, SinceRead, ListCovers, ListFinal, ListFits
  <1>8. NodeTypeOK'
    BY <1>1 DEF NodeIInv, NodeTypeOK, recvVars, MinerPcs
  <1>9. orphans' \subseteq PeerBlocks
    BY <1>1, <1>2, OrphansMove DEF NodeIInv, ThreadsHold
  <1>10. ThreadsHold'
    BY <1>1, <1>2, <1>9 DEF NodeIInv, ThreadsHold, recvVars
  <1> QED
    BY <1>4, <1>6, <1>7, <1>8, <1>10 DEF NodeIInv

-----------------------------------------------------------------------------
(* The steps of the miner thread                                           *)

LEMMA WakeStep ==
    ASSUME NodeIInv, Wake
    PROVE  NodeIInv'
  <1>1. /\ minerPc' = "pending" /\ woken' = FALSE
        /\ UNCHANGED <<vars, nodePool, excludingTxs, sinceBlockId, finalizedBlocks, parentId, newTxs,
                       minedBlock, lockHolder, recvVars, cancellationToken, transOut, acked, savedVars>>
    BY DEF Wake, chainVars, othersUnchanged
  <1>2. MinerReads'
    BY <1>1 DEF MinerReads, SinceRead, ListCovers, ListFinal, ListFits
  <1>3. NodeTypeOK'
    BY <1>1 DEF NodeIInv, NodeTypeOK, MinerPcs, recvVars
  <1>4. ThreadsHold'
    BY <1>1 DEF NodeIInv, ThreadsHold, recvVars, vars, treeVars
  <1> QED
    BY <1>1, <1>2, <1>3, <1>4, QuietKeeps DEF NodeIInv

LEMMA GetPendingStep ==
    ASSUME NodeIInv, GetPending
    PROVE  NodeIInv'
  <1>1. /\ minerPc' = "filter" /\ excludingTxs' = PendingTxs
        /\ UNCHANGED <<vars, nodePool, sinceBlockId, finalizedBlocks, parentId, newTxs,
                       minedBlock, woken, lockHolder, recvVars, cancellationToken, transOut, acked, savedVars>>
    BY DEF GetPending, chainVars, othersUnchanged
  <1>2. MinerReads'
    BY <1>1 DEF MinerReads, SinceRead, ListCovers, ListFinal, ListFits
  <1>3. NodeTypeOK'
    BY <1>1, PendingTyped DEF NodeIInv, NodeTypeOK, MinerPcs, recvVars
  <1>4. ThreadsHold'
    BY <1>1 DEF NodeIInv, ThreadsHold, recvVars, vars, treeVars
  <1> QED
    BY <1>1, <1>2, <1>3, <1>4, QuietKeeps DEF NodeIInv

LEMMA LookForTxsStep ==
    ASSUME NodeIInv, LookForTxs
    PROVE  NodeIInv'
  <1>1. /\ minerPc' \in {"pending", "since"} /\ excludingTxs' = {}
        /\ UNCHANGED <<vars, nodePool, sinceBlockId, finalizedBlocks, parentId, newTxs,
                       minedBlock, woken, lockHolder, recvVars, cancellationToken, transOut, acked, savedVars>>
    BY DEF LookForTxs, chainVars, othersUnchanged
  <1>2. MinerReads'
    BY <1>1 DEF MinerReads, SinceRead, ListCovers, ListFinal, ListFits
  <1>3. NodeTypeOK'
    BY <1>1 DEF NodeIInv, NodeTypeOK, MinerPcs, recvVars
  <1>4. ThreadsHold'
    BY <1>1 DEF NodeIInv, ThreadsHold, recvVars, vars, treeVars
  <1> QED
    BY <1>1, <1>2, <1>3, <1>4, QuietKeeps DEF NodeIInv

LEMMA GetSinceStep ==
    ASSUME NodeIInv, GetSince
    PROVE  NodeIInv'
  <1>1. /\ minerPc' = "finalized" /\ sinceBlockId' = lastFinalizedBlockId
        /\ UNCHANGED <<vars, nodePool, excludingTxs, finalizedBlocks, parentId, newTxs,
                       minedBlock, woken, lockHolder, recvVars, cancellationToken, transOut,
                       acked, savedVars>>
    BY DEF GetSince, chainVars, othersUnchanged
  <1>2. MinerReads'
    BY <1>1 DEF MinerReads, SinceRead, ListCovers, ListFinal, ListFits, nodePool, poolVars
  <1>3. NodeTypeOK'
    BY <1>1 DEF NodeIInv, PoolIInv, PoolTypeOK, NodeTypeOK, MinerPcs, recvVars
  <1>4. ThreadsHold'
    BY <1>1 DEF NodeIInv, ThreadsHold, recvVars, vars, treeVars
  <1> QED
    BY <1>1, <1>2, <1>3, <1>4, QuietKeeps DEF NodeIInv

LEMMA GetFinalizedStep ==
    ASSUME NodeIInv, GetFinalized
    PROVE  NodeIInv'
  <1>1. /\ minerPc = "finalized"
        /\ UNCHANGED <<vars, nodePool, excludingTxs, sinceBlockId, parentId, newTxs,
                       minedBlock, woken, lockHolder, recvVars, cancellationToken, transOut,
                       acked, savedVars>>
    BY DEF GetFinalized, chainVars, othersUnchanged
  <1>2. \/ minerPc' = "panicked" /\ UNCHANGED finalizedBlocks
        \/ minerPc' = "remove" /\ finalizedBlocks' = BlocksSince(sinceBlockId)
    BY DEF GetFinalized
  <1>3. sinceBlockId = lastFinalizedBlockId
    BY <1>1 DEF NodeIInv, MinerReads, SinceRead
  <1>4. lastFinalizedBlockId \in BlockIds /\ finalizedBlockId \in BlockIds
    BY DEF NodeIInv, PoolIInv, PoolTypeOK, IInv, TypeOK
  <1>5. /\ lastFinalizedBlockId' = lastFinalizedBlockId
        /\ finalizedBlockId' = finalizedBlockId
        /\ fit' = fit /\ allBlocks' = allBlocks /\ orphans' = orphans
    BY <1>1 DEF nodePool, poolVars, vars, finalityVars, treeVars, savedVars
  <1> DEFINE list == BlocksSince(lastFinalizedBlockId)
  <1>6. /\ list \in Seq(BlockIds)
        /\ list # <<>> =>
              ToSet(PathTo[Last(list)]) \subseteq ToSet(PathTo[lastFinalizedBlockId]) \cup ToSet(list)
        /\ ToSet(list) \subseteq ToSet(PathTo[finalizedBlockId])
        /\ OnPath(lastFinalizedBlockId, finalizedBlockId) =>
              list = BlocksAfter(lastFinalizedBlockId, finalizedBlockId)
    BY <1>4, SinceList
  <1>7. minerPc' = "remove" => finalizedBlocks' = list
    BY <1>2, <1>3
  <1> HIDE DEF list
  <1>8. SinceRead' /\ ListCovers' /\ ListFinal'
    BY <1>2, <1>5, <1>6, <1>7 DEF SinceRead, ListCovers, ListFinal
  <1>9. ListFits'
    <2>1. SUFFICES ASSUME fit', minerPc' = "remove"
                   PROVE  \E b \in BlockIds :
                             /\ OnPath(lastFinalizedBlockId', b)
                             /\ OnPath(b, finalizedBlockId')
                             /\ finalizedBlocks' = BlocksAfter(lastFinalizedBlockId', b)
      BY DEF ListFits
    <2>3. OnPath(lastFinalizedBlockId, finalizedBlockId)
      BY <2>1, <1>5 DEF NodeIInv, PoolBelow
    <2>4. OnPath(finalizedBlockId, finalizedBlockId)
      BY <1>4, OnPathReflexive
    <2> QED
      BY <1>4, <1>5, <1>6, <1>7, <2>1, <2>3, <2>4
  <1>10. NodeTypeOK'
    <2>1. finalizedBlocks' \in Seq(BlockIds)
      BY <1>2, <1>3, <1>6 DEF NodeIInv, NodeTypeOK, list
    <2> QED
      BY <1>1, <1>2, <2>1 DEF NodeIInv, NodeTypeOK, MinerPcs, recvVars
  <1>11. ThreadsHold'
    BY <1>1, <1>2 DEF NodeIInv, ThreadsHold, recvVars, vars, treeVars
  <1> QED
    BY <1>1, <1>8, <1>9, <1>10, <1>11, QuietKeeps DEF NodeIInv, MinerReads

\* The pool is told of a list that was read from the chain some time ago.
LEMMA RemoveFinalizedStep ==
    ASSUME NodeIInv, RemoveFinalized
    PROVE  NodeIInv'
  <1>1. /\ minerPc = "remove" /\ RemoveTxsFromFinalizedBlocks(finalizedBlocks)
        /\ minerPc' = "working" /\ finalizedBlocks' = <<>> /\ sinceBlockId' = RootId
        /\ UNCHANGED <<vars, poolPoisoned, excludingTxs, parentId, newTxs, minedBlock, woken,
                       lockHolder, recvVars, cancellationToken, transOut, acked, savedVars>>
    BY DEF RemoveFinalized, chainVars, othersUnchanged
  <1>2. finalizedBlocks \in Seq(BlockIds)
    BY DEF NodeIInv, NodeTypeOK
  <1>3. PoolIInv'
    BY <1>1, <1>2, FinalizedStep DEF NodeIInv, MinerReads, ListCovers
  <1>4. SavedSound' /\ UNCHANGED fit
    BY <1>1, SavedStays DEF NodeIInv
  <1>5. IInv'
    BY <1>1, NextIInv DEF NodeIInv
  <1>6. PoolBelow'
    <2>1. SUFFICES ASSUME fit
                   PROVE  /\ OnPath(lastFinalizedBlockId', finalizedBlockId')
                          /\ removedTxIds' = TxsUpTo(lastFinalizedBlockId')
      <3>1. TxsUpTo(lastFinalizedBlockId)' = TxsUpTo(lastFinalizedBlockId')
        BY DEF TxsUpTo
      <3> QED
        BY <1>4, <3>1 DEF PoolBelow
    <2>2. PICK b \in BlockIds : /\ OnPath(lastFinalizedBlockId, b)
                                /\ OnPath(b, finalizedBlockId)
                                /\ finalizedBlocks = BlocksAfter(lastFinalizedBlockId, b)
      BY <1>1, <2>1 DEF NodeIInv, MinerReads, ListFits
    <2>3. lastFinalizedBlockId \in BlockIds
      BY DEF NodeIInv, PoolIInv, PoolTypeOK
    <2>4. lastFinalizedBlockId' = b
      BY <1>1, <2>2, <2>3, BlocksAfterRest DEF RemoveTxsFromFinalizedBlocks
    <2>5. removedTxIds' = TxsUpTo(lastFinalizedBlockId) \cup TxsOf(finalizedBlocks)
      BY <1>1, <2>1 DEF NodeIInv, PoolBelow, RemoveTxsFromFinalizedBlocks
    <2>6. removedTxIds' = TxsUpTo(b)
      BY <2>2, <2>3, <2>5, TxsUpToAfter
    <2>7. finalizedBlockId' = finalizedBlockId
      BY <1>1 DEF vars, finalityVars
    <2> QED
      BY <2>2, <2>4, <2>6, <2>7
  <1>7. MinerReads'
    BY <1>1 DEF MinerReads, SinceRead, ListCovers, ListFinal, ListFits
  <1>8. NodeTypeOK'
    BY <1>1 DEF NodeIInv, NodeTypeOK, MinerPcs, recvVars, BlockIds
  <1>9. ThreadsHold'
    BY <1>1 DEF NodeIInv, ThreadsHold, recvVars, vars, treeVars
  <1> QED
    BY <1>3, <1>4, <1>5, <1>6, <1>7, <1>8, <1>9 DEF NodeIInv

LEMMA ReadWorkingStep ==
    ASSUME NodeIInv, ReadWorking
    PROVE  NodeIInv'
  <1>1. /\ minerPc' = "exclude" /\ parentId' = workingBlockId
        /\ UNCHANGED <<vars, nodePool, excludingTxs, sinceBlockId, finalizedBlocks, newTxs,
                       minedBlock, woken, lockHolder, recvVars, cancellationToken, transOut, acked, savedVars>>
    BY DEF ReadWorking, chainVars, othersUnchanged
  <1>2. MinerReads'
    BY <1>1 DEF MinerReads, SinceRead, ListCovers, ListFinal, ListFits
  <1>3. NodeTypeOK'
    BY <1>1 DEF NodeIInv, IInv, TypeOK, NodeTypeOK, MinerPcs, recvVars
  <1>4. ThreadsHold'
    BY <1>1 DEF NodeIInv, IInv, TypeOK, ThreadsHold, recvVars, vars, treeVars
  <1> QED
    BY <1>1, <1>2, <1>3, <1>4, QuietKeeps DEF NodeIInv

LEMMA ReadPendingStep ==
    ASSUME NodeIInv, ReadPending
    PROVE  NodeIInv'
  <1>1. /\ minerPc = "exclude" /\ minerPc' = "choose" /\ excludingTxs' = PendingTxs
        /\ UNCHANGED <<vars, nodePool, sinceBlockId, finalizedBlocks, parentId, newTxs,
                       minedBlock, woken, lockHolder, recvVars, cancellationToken, transOut, acked, savedVars>>
    BY DEF ReadPending, chainVars, othersUnchanged
  <1>2. MinerReads'
    BY <1>1 DEF MinerReads, SinceRead, ListCovers, ListFinal, ListFits
  <1>3. NodeTypeOK'
    BY <1>1, PendingTyped DEF NodeIInv, NodeTypeOK, MinerPcs, recvVars
  <1>4. ThreadsHold'
    BY <1>1 DEF NodeIInv, ThreadsHold, recvVars, vars, treeVars
  <1> QED
    BY <1>1, <1>2, <1>3, <1>4, QuietKeeps DEF NodeIInv

LEMMA ChooseTxsStep ==
    ASSUME NodeIInv, ChooseTxs
    PROVE  NodeIInv'
  <1>1. /\ minerPc = "choose" /\ minerPc' \in {"pending", "solve"}
        /\ excludingTxs' = {} /\ newTxs' = FilterTxs(excludingTxs)
        /\ UNCHANGED <<vars, nodePool, sinceBlockId, finalizedBlocks, parentId,
                       minedBlock, woken, lockHolder, recvVars, cancellationToken, transOut, acked, savedVars>>
    BY DEF ChooseTxs, chainVars, othersUnchanged
  <1>2. MinerReads'
    BY <1>1 DEF MinerReads, SinceRead, ListCovers, ListFinal, ListFits
  <1>3. NodeTypeOK'
    BY <1>1, FilterTyped DEF NodeIInv, NodeTypeOK, MinerPcs, recvVars
  <1>4. ThreadsHold'
    BY <1>1 DEF NodeIInv, ThreadsHold, recvVars, vars, treeVars
  <1> QED
    BY <1>1, <1>2, <1>3, <1>4, QuietKeeps DEF NodeIInv

LEMMA SolvePuzzleStep ==
    ASSUME NodeIInv, SolvePuzzle
    PROVE  NodeIInv'
  <1>1. /\ minerPc = "solve" /\ minerPc' = "add" /\ parentId' = RootId /\ newTxs' = <<>>
        /\ UNCHANGED <<vars, nodePool, excludingTxs, sinceBlockId, finalizedBlocks, woken,
                       lockHolder, recvVars, cancellationToken, transOut, acked, savedVars>>
    BY DEF SolvePuzzle, chainVars, othersUnchanged
  <1>2. minedBlock' \in Blocks /\ BlockNode[minedBlock'].parent = parentId
    BY DEF SolvePuzzle, Solves
  <1>3. MinerReads'
    BY <1>1 DEF MinerReads, SinceRead, ListCovers, ListFinal, ListFits
  <1>4. NodeTypeOK'
    BY <1>1, <1>2 DEF NodeIInv, NodeTypeOK, MinerPcs, recvVars, BlockIds
  <1>5. ThreadsHold'
    BY <1>1, <1>2 DEF NodeIInv, ThreadsHold, recvVars, vars, treeVars
  <1> QED
    BY <1>1, <1>3, <1>4, <1>5, QuietKeeps DEF NodeIInv

LEMMA InterruptedStep ==
    ASSUME NodeIInv, Interrupted
    PROVE  NodeIInv'
  <1>1. /\ minerPc' = "pending" /\ parentId' = RootId /\ newTxs' = <<>>
        /\ UNCHANGED <<vars, nodePool, excludingTxs, sinceBlockId, finalizedBlocks,
                       minedBlock, woken, lockHolder, recvVars, cancellationToken, transOut, acked, savedVars>>
    BY DEF Interrupted, chainVars, othersUnchanged
  <1>2. MinerReads'
    BY <1>1 DEF MinerReads, SinceRead, ListCovers, ListFinal, ListFits
  <1>3. NodeTypeOK'
    BY <1>1 DEF NodeIInv, NodeTypeOK, MinerPcs, recvVars, BlockIds
  <1>4. ThreadsHold'
    BY <1>1 DEF NodeIInv, ThreadsHold, recvVars, vars, treeVars
  <1> QED
    BY <1>1, <1>2, <1>3, <1>4, QuietKeeps DEF NodeIInv

LEMMA BroadcastStep ==
    ASSUME NodeIInv, Broadcast
    PROVE  NodeIInv'
  <1>1. /\ minerPc = "adding" /\ minerPc' = "pending" /\ minedBlock' = NoBlock
        /\ acked' = acked \cup {minedBlock}
        /\ lockHolder' \in {lockHolder, "nobody"}
        /\ UNCHANGED <<vars, nodePool, excludingTxs, sinceBlockId, finalizedBlocks, parentId,
                       newTxs, signalVars, recvVars, cancellationToken, savedVars>>
    BY DEF Broadcast, Release, chainVars
  <1>2. minedBlock \in Blocks
    BY <1>1 DEF NodeIInv, ThreadsHold
  <1>3. MinerReads'
    BY <1>1 DEF MinerReads, SinceRead, ListCovers, ListFinal, ListFits
  <1>4. NodeTypeOK'
    BY <1>1, <1>2 DEF NodeIInv, NodeTypeOK, MinerPcs, recvVars, signalVars
  <1>5. ThreadsHold'
    BY <1>1 DEF NodeIInv, ThreadsHold, recvVars, vars, treeVars
  <1> QED
    BY <1>1, <1>3, <1>4, <1>5, QuietKeeps DEF NodeIInv

LEMMA MinerStepKeeps ==
    ASSUME NodeIInv, MinerStep
    PROVE  NodeIInv'
  BY WakeStep, GetPendingStep, LookForTxsStep, GetSinceStep, GetFinalizedStep,
     RemoveFinalizedStep, ReadWorkingStep, ReadPendingStep, ChooseTxsStep,
     SolvePuzzleStep, InterruptedStep, AddMinedStep, BroadcastStep DEF MinerStep

-----------------------------------------------------------------------------
(* The steps that save the state and start again from it                   *)

LEMMA SaveChainStep ==
    ASSUME NodeIInv, SaveChain
    PROVE  NodeIInv'
  <1>1. UNCHANGED <<vars, nodePool, recvVars, minerVars, cancellationToken, lockHolder,
                    signalVars, acked, fit>>
    BY DEF SaveChain, chainVars
  <1>2. SavedSound'
    <2>1. copied' = <<ChainCopy>> /\ saved' = saved
      BY DEF SaveChain
    <2>2. CopiedChain!IInv' /\ copied'[1].orphans = orphans
      BY <2>1, CopyChainSound DEF NodeIInv
    <2>3. SavedChain!IInv' /\ SavedPool!PoolIInv'
      BY <2>1, SavedChainStays, SavedPoolStays DEF NodeIInv, SavedSound
    <2> QED
      BY <2>1, <2>2, <2>3 DEF NodeIInv, SavedSound, ThreadsHold
  <1>3. UNCHANGED <<removedTxIds, lastFinalizedBlockId>> /\ UNCHANGED minerReading
    BY <1>1 DEF nodePool, poolVars, minerReading, minerVars
  <1>4. IInv' /\ PoolBelow' /\ MinerReads'
    BY <1>1, <1>3, CallKeeps
  <1>5. PoolIInv'
    BY <1>1, PoolStutters DEF NodeIInv, nodePool
  <1>6. NodeTypeOK'
    BY <1>1 DEF NodeIInv, NodeTypeOK, recvVars, signalVars, minerVars
  <1>7. ThreadsHold'
    BY <1>1 DEF NodeIInv, ThreadsHold, recvVars, minerVars, vars, treeVars
  <1> QED
    BY <1>2, <1>4, <1>5, <1>6, <1>7 DEF NodeIInv

LEMMA SavePoolStep ==
    ASSUME NodeIInv, SavePool
    PROVE  NodeIInv'
  <1>1. UNCHANGED <<vars, nodePool, recvVars, minerVars, cancellationToken, lockHolder,
                    signalVars, acked, fit>>
    BY DEF SavePool, chainVars
  <1>2. SavedSound'
    <2>1. copied # <<>> /\ copied' = <<>> /\ saved' = [chain |-> copied[1], pool |-> PoolCopy]
      BY DEF SavePool
    <2>2. saved'.chain = copied[1] /\ saved'.pool = PoolCopy
      BY <2>1
    <2>3. CopiedChain!IInv /\ copied[1].orphans \subseteq PeerBlocks
      BY <2>1 DEF NodeIInv, SavedSound
    <2>4. SavedChain!IInv' /\ SavedPool!PoolIInv'
      BY <2>2, <2>3, WriteChainSound, WritePoolSound DEF NodeIInv
    <2> QED
      BY <2>1, <2>2, <2>3, <2>4 DEF SavedSound
  <1>3. UNCHANGED <<removedTxIds, lastFinalizedBlockId>> /\ UNCHANGED minerReading
    BY <1>1 DEF nodePool, poolVars, minerReading, minerVars
  <1>4. IInv' /\ PoolBelow' /\ MinerReads'
    BY <1>1, <1>3, CallKeeps
  <1>5. PoolIInv'
    BY <1>1, PoolStutters DEF NodeIInv, nodePool
  <1>6. NodeTypeOK'
    BY <1>1 DEF NodeIInv, NodeTypeOK, recvVars, signalVars, minerVars
  <1>7. ThreadsHold'
    BY <1>1 DEF NodeIInv, ThreadsHold, recvVars, minerVars, vars, treeVars
  <1> QED
    BY <1>2, <1>4, <1>5, <1>6, <1>7 DEF NodeIInv

LEMMA RestartStep ==
    ASSUME NodeIInv, Restart
    PROVE  NodeIInv'
  <1>1. /\ RestoreChain(saved.chain) /\ RestorePool(saved.pool)
        /\ minerPc' = "wait" /\ excludingTxs' = {} /\ sinceBlockId' = RootId
        /\ finalizedBlocks' = <<>> /\ parentId' = RootId /\ newTxs' = <<>>
        /\ minedBlock' = NoBlock /\ recvPc' = "idle" /\ recvBlock' = NoBlock
        /\ cancellationToken' = FALSE /\ lockHolder' = "nobody"
        /\ transOut' = FALSE /\ woken' = FALSE /\ acked' = {}
        /\ saved' = saved /\ copied' = <<>>
    BY DEF Restart
  <1>2. fit' = FilesFit
    BY DEF Restart
  <1>3. /\ SavedChain!IInv /\ saved.chain.orphans \subseteq PeerBlocks
        /\ SavedPool!PoolIInv
    BY DEF NodeIInv, SavedSound
  <1>4. IInv' /\ PoolIInv'
    BY <1>1, <1>3, RestoredChain, RestoredPool
  <1>5. SavedSound'
    <2>1. SavedChain!IInv' /\ SavedPool!PoolIInv'
      BY <1>1, <1>3, SavedChainStays, SavedPoolStays
    <2> QED
      BY <1>1, <1>3, <2>1 DEF SavedSound
  <1>6. PoolBelow'
    <2>1. /\ lastFinalizedBlockId' = saved.pool.lastFinalizedBlockId
          /\ removedTxIds' = saved.pool.removedTxIds
          /\ finalizedBlockId' = saved.chain.finalizedBlockId
      BY <1>1 DEF RestoreChain, RestorePool
    <2>2. TxsUpTo(lastFinalizedBlockId)' = TxsUpTo(lastFinalizedBlockId')
      BY DEF TxsUpTo
    <2>3. SUFFICES ASSUME fit'
                   PROVE  /\ OnPath(lastFinalizedBlockId', finalizedBlockId')
                          /\ removedTxIds' = TxsUpTo(lastFinalizedBlockId')
      BY <2>2 DEF PoolBelow
    <2>4. FilesFit
      BY <1>2, <2>3
    <2> QED
      BY <2>1, <2>4 DEF FilesFit
  <1>7. MinerReads'
    BY <1>1 DEF MinerReads, SinceRead, ListCovers, ListFinal, ListFits
  <1>8. NodeTypeOK'
    <2>1. <<>> \in Seq(BlockIds) /\ <<>> \in Seq(SignedTxs) /\ RootId \in BlockIds
      BY DEF BlockIds
    <2> QED
      BY <1>1, <2>1 DEF NodeTypeOK, MinerPcs
  <1>9. ThreadsHold'
    BY <1>1, <1>3 DEF ThreadsHold, RestoreChain
  <1> QED
    BY <1>4, <1>5, <1>6, <1>7, <1>8, <1>9 DEF NodeIInv

-----------------------------------------------------------------------------
(* The specification                                                       *)

LEMMA NodeInitIInv == NodeInit => NodeIInv
  <1> SUFFICES ASSUME NodeInit PROVE NodeIInv
    OBVIOUS
  <1>1. IInv /\ PoolIInv
    BY InitIInv, PoolInitIInv DEF NodeInit
  <1>2. /\ minerPc = "wait" /\ excludingTxs = {} /\ sinceBlockId = RootId
        /\ finalizedBlocks = <<>> /\ parentId = RootId /\ newTxs = <<>>
        /\ minedBlock = NoBlock /\ recvPc = "idle" /\ recvBlock = NoBlock
        /\ cancellationToken = FALSE /\ lockHolder = "nobody"
        /\ transOut = FALSE /\ woken = FALSE /\ acked = {}
    BY DEF NodeInit, MinerInit, ThreadsInit
  <1>3. NodeTypeOK
    <2>1. <<>> \in Seq(BlockIds) /\ <<>> \in Seq(SignedTxs) /\ RootId \in BlockIds
      BY DEF BlockIds
    <2> QED
      BY <1>2, <2>1 DEF NodeTypeOK, MinerPcs
  <1>4. orphans = {} /\ finalizedBlockId = RootId
        /\ lastFinalizedBlockId = RootId /\ removedTxIds = {}
    BY DEF NodeInit, Init, PoolInit
  <1>5. ThreadsHold /\ MinerReads
    BY <1>2, <1>4 DEF ThreadsHold, MinerReads, SinceRead, ListCovers, ListFinal, ListFits
  <1>6. PoolBelow
    <2>1. RootId \in BlockIds /\ PathTo[RootId] = <<RootId>>
      BY BlocksAssumption DEF BlockIds
    <2>2. ToSet(BlocksAfter(RootId, RootId)) = {}
      <3>1. ToSet(<<RootId>>) = {RootId}
        BY DEF ToSet
      <3> QED
        BY <2>1, <3>1, BlocksAfterRoot
    <2>3. TxsUpTo(RootId) = {}
      BY <2>2 DEF TxsUpTo
    <2>4. OnPath(RootId, RootId)
      BY <2>1, OnPathReflexive
    <2> QED
      BY <1>4, <2>3, <2>4 DEF PoolBelow
  <1>7. SavedSound
    <2>1. saved = [chain |-> ChainCopy, pool |-> PoolCopy] /\ copied = <<>>
      BY DEF NodeInit, FilesInit
    <2>2. saved.chain = ChainCopy /\ saved.pool = PoolCopy
      BY <2>1
    <2>3. SavedChain!IInv /\ saved.chain.orphans = orphans
      BY <1>1, <2>2, FirstChainSound
    <2>4. SavedPool!PoolIInv
      BY <1>1, <2>2, FirstPoolSound
    <2> QED
      BY <1>4, <2>1, <2>3, <2>4 DEF SavedSound
  <1> QED
    BY <1>1, <1>3, <1>5, <1>6, <1>7 DEF NodeIInv

LEMMA NodeNextIInv == NodeIInv /\ [NodeNext]_nodeVars => NodeIInv'
  <1> SUFFICES ASSUME NodeIInv, [NodeNext]_nodeVars PROVE NodeIInv'
    OBVIOUS
  <1>1. CASE UNCHANGED nodeVars
    <2>1. UNCHANGED <<vars, nodePool, savedVars>> /\ UNCHANGED minerReading
      BY <1>1 DEF nodeVars, chainVars, minerVars, minerReading
    <2>2. NodeTypeOK'
      BY <1>1 DEF NodeIInv, NodeTypeOK, nodeVars, recvVars, signalVars, minerVars
    <2>3. ThreadsHold'
      BY <1>1 DEF NodeIInv, ThreadsHold, nodeVars, recvVars, minerVars, chainVars, vars, treeVars
    <2> QED
      BY <2>1, <2>2, <2>3, QuietKeeps DEF NodeIInv
  <1>2. ASSUME NEW t \in IncomingTxs, TakeInTx(t)
        PROVE  NodeIInv'
    BY <1>2, TakeInTxStep
  <1>3. ASSUME NEW b \in PeerBlocks, RecvBlock(b)
        PROVE  NodeIInv'
    BY <1>3, RecvBlockStep
  <1>4. CASE SendTx \/ RecvAdd \/ RecvDone \/ Recursion
    BY <1>4, SendTxStep, RecvAddStep, RecvDoneStep, RecursionStep
  <1>5. CASE MinerStep
    BY <1>5, MinerStepKeeps
  <1>6. CASE SaveChain \/ SavePool \/ Restart
    BY <1>6, SaveChainStep, SavePoolStep, RestartStep
  <1> QED
    BY <1>1, <1>2, <1>3, <1>4, <1>5, <1>6 DEF NodeNext

LEMMA NodeInductive == NodeSpec => []NodeIInv
  BY NodeInitIInv, NodeNextIInv, PTL DEF NodeSpec

\* The threads' variables keep their types: a puzzle holds signed transactions only,
\* and what is added and broadcast are blocks.
THEOREM NodeTypeCorrect == NodeSpec => []NodeTypeOK
  <1>1. NodeIInv => NodeTypeOK
    BY DEF NodeIInv
  <1> QED
    BY <1>1, NodeInductive, PTL

\* Every life that is started on files that fit has a pool that fits its chain:
\* get_finalized_blocks_since is called with the finalized block or an ancestor of
\* it, the list it gives continues what the pool has been told of, and removed is
\* what that contains.  In every life at all, that much is removed.
THEOREM PoolFollows == NodeSpec => []PoolFollowsChain
  <1>1. ASSUME NodeIInv
        PROVE  PoolFollowsChain
    <2>1. FinalizedRemoved
      BY <1>1 DEF NodeIInv, PoolIInv
    <2>2. ASSUME fit, minerPc = "remove", finalizedBlocks # <<>>
          PROVE  BlockNode[finalizedBlocks[1]].parent = lastFinalizedBlockId
      <3>1. PICK b \in BlockIds : /\ OnPath(lastFinalizedBlockId, b)
                                  /\ finalizedBlocks = BlocksAfter(lastFinalizedBlockId, b)
        BY <1>1, <2>2 DEF NodeIInv, MinerReads, ListFits
      <3>2. lastFinalizedBlockId \in BlockIds
        BY <1>1 DEF NodeIInv, PoolIInv, PoolTypeOK
      <3> QED
        BY <2>2, <3>1, <3>2, BlocksAfterRest
    <2> QED
      BY <1>1, <2>1, <2>2 DEF NodeIInv, PoolBelow, MinerReads, SinceRead, PoolFollowsChain
  <1> QED
    BY <1>1, NodeInductive, PTL

\* In every life of a node, whatever files it was started on and however often it
\* was saved and started again, a transaction that its pool removes for ever is in
\* a block that is finalized in its chain at that moment.
THEOREM RemovedOnlyWhenFinal == NodeSpec => RemovedIsFinalized
  <1> DEFINE Gone == Restart \/ removedTxIds' \subseteq removedTxIds \cup TxsUpTo(finalizedBlockId)
  <1>1. ASSUME NodeIInv, [NodeNext]_nodeVars
        PROVE  [Gone]_removedTxIds
    <2>1. CASE RemoveFinalized
      <3>1. removedTxIds' = removedTxIds \cup TxsOf(finalizedBlocks)
        BY <2>1 DEF RemoveFinalized, RemoveTxsFromFinalizedBlocks
      <3>2. ToSet(finalizedBlocks) \subseteq ToSet(PathTo[finalizedBlockId])
        BY <1>1, <2>1 DEF NodeIInv, MinerReads, ListFinal, RemoveFinalized
      <3>3. ToSet(BlocksAfter(RootId, finalizedBlockId)) = ToSet(PathTo[finalizedBlockId]) \ {RootId}
        BY <1>1, BlocksAfterRoot DEF NodeIInv, IInv, TypeOK
      <3>4. TxsOf(finalizedBlocks) \subseteq TxsUpTo(finalizedBlockId)
        BY <3>2, <3>3 DEF TxsOf, TxsUpTo, TxIdsOf
      <3> QED
        BY <3>1, <3>4
    <2>2. CASE UNCHANGED nodePool
      BY <2>2 DEF nodePool, poolVars
    <2>3. ASSUME NEW t \in IncomingTxs, TakeInTx(t)
          PROVE  UNCHANGED removedTxIds
      BY <2>3 DEF TakeInTx, AddTx, poolVars
    <2>4. ASSUME MinerStep, ~RemoveFinalized
          PROVE  UNCHANGED nodePool
      BY <2>4 DEF MinerStep, Wake, GetPending, LookForTxs, GetSince, GetFinalized,
         ReadWorking, ReadPending, ChooseTxs, SolvePuzzle, Interrupted, AddMined, Broadcast
    <2>5. ASSUME SendTx \/ RecvAdd \/ RecvDone \/ Recursion \/ SaveChain \/ SavePool
          PROVE  UNCHANGED nodePool
      BY <2>5 DEF SendTx, RecvAdd, RecvDone, Recursion, SaveChain, SavePool
    <2>6. ASSUME NEW b \in PeerBlocks, RecvBlock(b)
          PROVE  UNCHANGED nodePool
      BY <2>6 DEF RecvBlock
    <2>7. UNCHANGED nodeVars => UNCHANGED nodePool
      BY DEF nodeVars
    <2> QED
      BY <1>1, <2>1, <2>2, <2>3, <2>4, <2>5, <2>6, <2>7 DEF NodeNext
  <1>2. NodeIInv /\ [NodeNext]_nodeVars => [Gone]_removedTxIds
    BY <1>1
  <1> QED
    BY <1>2, NodeInductive, PTL DEF NodeSpec, RemovedIsFinalized

\* The chain keeps its invariants through the threads' calls and through restarts.
THEOREM ChainAlwaysSound == NodeSpec => []ChainSound
  <1>1. NodeIInv => ChainSound
    BY DEF NodeIInv, IInv, ChainSound
  <1> QED
    BY <1>1, NodeInductive, PTL

\* The parent of a puzzle stays in the tree until the puzzle is solved, and its
\* block in the tree or refused.
THEOREM MinedHasParent == NodeSpec => []MinedNeverOrphan
  <1>1. NodeIInv => MinedNeverOrphan
    BY DEF NodeIInv, ThreadsHold, MinedNeverOrphan
  <1> QED
    BY <1>1, NodeInductive, PTL

\* The node's pool is as exact as one that nobody shares, through restarts as well.
THEOREM NodePoolExact == NodeSpec => [](PoolTypeOK /\ PoolExact)
  <1>1. NodeIInv => PoolTypeOK /\ PoolExact
    BY DEF NodeIInv, PoolIInv
  <1> QED
    BY <1>1, NodeInductive, PTL
=============================================================================
