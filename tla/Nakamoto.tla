------------------------------ MODULE Nakamoto ------------------------------
(***************************************************************************)
(* One node, bin_nakamoto/src/nakamoto.rs: the threads that share a block  *)
(* tree and a transaction pool, each under a lock of its own that is taken *)
(* for one call at a time.  What happens between two calls of a thread is  *)
(* what this module is about.                                              *)
(*                                                                         *)
(* The chain and the pool are the modules BlockTree and TxPool, whose      *)
(* operations the threads call; their own Next and PoolNext are not used.  *)
(* A thread takes one step for each lock it takes.  Transactions come from *)
(* the user (publish_tx) or from the network; blocks come from the network *)
(* and from the miner; solving a puzzle is a step that may happen any      *)
(* time, unless the cancellation token is set.                             *)
(***************************************************************************)
EXTENDS BlockTree, TxPool

CONSTANTS
    MaxTxInOneBlock,    \* max_tx_in_one_block of the configuration
    Self,               \* mining_reward_receiver of the configuration
    IncomingTxs,        \* transactions published here or sent by neighbours
    PeerBlocks,         \* blocks the neighbours may send
    Saving              \* whether the user saves the state and restarts from it

ASSUME NakamotoAssumption ==
    /\ MaxTxInOneBlock \in Limits
    /\ Self \in Users
    /\ IncomingTxs \subseteq Txs
    /\ PeerBlocks \subseteq Blocks
    /\ Saving \in BOOLEAN

VARIABLES
    \* the thread that receives blocks
    recvPc, recvBlock,
    cancellationToken,  \* shared with the miner
    lockHolder,         \* the thread whose call of add_block has not returned yet
    transOut,           \* there is a transaction in the channel trans_tx
    woken,              \* there is a signal in the miner thread's channel
    \* the miner thread: where it is, and its local variables
    minerPc, excludingTxs, sinceBlockId, finalizedBlocks,
    parentId, newTxs, minedBlock,
    acked,              \* blocks sent or received, for the network not to repeat
    saved,              \* the two files a node can be started on: chain and pool
    copied,             \* the chain's copy, while the pool's is still to be made
    fit                 \* history: the files this node was started on fit each other

chainVars == vars
recvVars == <<recvPc, recvBlock>>
minerVars == <<minerPc, excludingTxs, sinceBlockId, finalizedBlocks,
               parentId, newTxs, minedBlock>>
signalVars == <<transOut, woken>>
savedVars == <<saved, copied, fit>>
nodePool == <<poolVars, poolPoisoned>>
nodeVars == <<chainVars, nodePool, recvVars, minerVars, cancellationToken,
              lockHolder, signalVars, acked, savedVars>>

MinerPcs == {"wait", "pending", "filter", "since", "finalized", "remove", "working",
             "exclude", "choose", "solve", "add", "adding", "panicked"}

NodeTypeOK ==
    /\ recvPc \in {"idle", "add", "adding"}
    /\ recvBlock \in Blocks \cup {NoBlock}
    /\ minerPc \in MinerPcs
    /\ excludingTxs \subseteq Txs
    /\ sinceBlockId \in BlockIds
    /\ finalizedBlocks \in Seq(BlockIds)
    /\ parentId \in BlockIds
    /\ newTxs \in Seq(SignedTxs)
    /\ minedBlock \in Blocks \cup {NoBlock}
    /\ cancellationToken \in BOOLEAN /\ woken \in BOOLEAN /\ transOut \in BOOLEAN
    /\ lockHolder \in {"nobody", "recv", "miner"}
    /\ acked \subseteq Blocks

-----------------------------------------------------------------------------
(* Starting                                                                *)

MinerInit ==
    /\ minerPc = "wait"
    /\ excludingTxs = {} /\ sinceBlockId = RootId /\ finalizedBlocks = <<>>
    /\ parentId = RootId /\ newTxs = <<>> /\ minedBlock = NoBlock

ThreadsInit ==
    /\ recvPc = "idle" /\ recvBlock = NoBlock
    /\ cancellationToken = FALSE /\ lockHolder = "nobody"
    /\ transOut = FALSE /\ woken = FALSE
    /\ acked = {}

\* The chain as it is, and the pool, the way they are written to the files.
ChainCopy ==
    [allBlocks |-> allBlocks, childrenMap |-> childrenMap, blockDepth |-> blockDepth,
     workingBlockId |-> workingBlockId, orphans |-> orphans,
     finalizedBlockId |-> finalizedBlockId, finalizedBalanceMap |-> finalizedBalanceMap,
     finalizedTxIds |-> finalizedTxIds]

PoolCopy ==
    [poolTxIds |-> poolTxIds, poolTxMap |-> poolTxMap, removedTxIds |-> removedTxIds,
     lastFinalizedBlockId |-> lastFinalizedBlockId]

\* The first node is started on files with the genesis block and an empty pool.
FilesInit == saved = [chain |-> ChainCopy, pool |-> PoolCopy] /\ copied = <<>> /\ fit = TRUE

NodeInit == Init /\ PoolInit /\ MinerInit /\ ThreadsInit /\ FilesInit

\* The chain's lock can be taken: no call of add_block is running, and no
\* thread has panicked with the lock, which makes everybody else panic.
ChainFree == Ready /\ minerPc # "panicked"

\* So can the pool's, which is poisoned by a transaction that cannot be verified.
PoolFree == ~poolPoisoned

\* The call of add_block that the thread has made has returned.
Returned(thread) == lockHolder = thread => Ready
Release(thread) == lockHolder' = IF lockHolder = thread THEN "nobody" ELSE lockHolder

-----------------------------------------------------------------------------
(* Transactions                                                            *)

\* publish_tx, and the thread that receives transactions: whether the pool has
\* taken it or not, the transaction is sent to the channel trans_tx, unless
\* add_tx panics.  (In publish_tx that ends the process: a behaviour in which
\* nothing happens any more until a restart.)
TakeInTx(t) ==
    /\ PoolFree
    /\ AddTx(t)
    /\ transOut' = (transOut \/ t \notin GarbledTxs)
    /\ UNCHANGED <<chainVars, recvVars, minerVars, cancellationToken, lockHolder, woken,
                   acked, savedVars>>

FaultySendTx ==                 \* does not signal the miner thread
    /\ transOut /\ transOut' = FALSE
    /\ UNCHANGED <<chainVars, nodePool, recvVars, minerVars, cancellationToken, lockHolder,
                   woken, acked, savedVars>>

\* The thread behind the channel broadcasts what is in it and signals the miner
\* thread.  (The receiving thread sends a signal of its own besides.)
SendTx ==
    /\ transOut /\ transOut' = FALSE
    /\ woken' = TRUE
    /\ UNCHANGED <<chainVars, nodePool, recvVars, minerVars, cancellationToken, lockHolder,
                   acked, savedVars>>

-----------------------------------------------------------------------------
(* The thread that receives blocks                                         *)

\* The token is set before the chain's lock is asked for.
\* The network passes a block on once.
RecvBlock(b) ==
    /\ recvPc = "idle" /\ b \notin acked
    /\ recvPc' = "add" /\ recvBlock' = b
    /\ cancellationToken' = TRUE
    /\ acked' = acked \cup {b}
    /\ UNCHANGED <<chainVars, nodePool, minerVars, lockHolder, signalVars, savedVars>>

RecvAdd ==
    /\ recvPc = "add" /\ ChainFree
    /\ AddBlock(recvBlock)
    /\ recvPc' = "adding" /\ lockHolder' = "recv"
    /\ UNCHANGED <<recvBlock, nodePool, minerVars, cancellationToken, signalVars, acked, savedVars>>

\* add_block has returned; the token is reset and the miner thread signalled.
RecvDone ==
    /\ recvPc = "adding" /\ Returned("recv") /\ Release("recv")
    /\ recvPc' = "idle" /\ recvBlock' = NoBlock
    /\ cancellationToken' = FALSE /\ woken' = TRUE
    /\ UNCHANGED <<chainVars, nodePool, minerVars, transOut, acked, savedVars>>

\* The rest of an add_block that has met an orphan, whoever called it.
Recursion ==
    /\ AddOrphanBlock
    /\ UNCHANGED <<nodePool, recvVars, minerVars, cancellationToken, lockHolder, signalVars,
                   acked, savedVars>>

-----------------------------------------------------------------------------
(* The miner thread                                                        *)

othersUnchanged == <<recvVars, cancellationToken, transOut, acked, savedVars>>

\* get_pending_finalization_txs
PendingTxs == UNION {TxIdsOf(b) : b \in ToSet(BlocksAfter(finalizedBlockId, workingBlockId))}

FaultyBlocksSince(since) ==     \* from the working block down
    IF OnPath(since, workingBlockId) THEN BlocksAfter(since, workingBlockId)
    ELSE BlocksAfter(RootId, workingBlockId)

\* get_finalized_blocks_since: from the finalized block down to a block whose
\* parent is either the given block or the genesis block, which the genesis
\* block itself is.
BlocksSince(since) ==
    IF OnPath(since, finalizedBlockId) THEN BlocksAfter(since, finalizedBlockId)
    ELSE IF finalizedBlockId = RootId THEN <<RootId>>
    ELSE BlocksAfter(RootId, finalizedBlockId)

\* It panics when the given block is deeper than the finalized one.
SincePanics(since) ==
    since \in allBlocks /\ blockDepth[since] > blockDepth[finalizedBlockId]

FilterTxs(excluding) == FilterTx(poolTxIds, MaxTxInOneBlock, excluding)

\* The first signal starts the loop, which is never left again.
Wake ==
    /\ minerPc = "wait" /\ woken
    /\ minerPc' = "pending" /\ woken' = FALSE
    /\ UNCHANGED <<chainVars, nodePool, excludingTxs, sinceBlockId, finalizedBlocks,
                   parentId, newTxs, minedBlock, lockHolder, othersUnchanged>>

GetPending ==
    /\ minerPc = "pending" /\ ChainFree
    /\ excludingTxs' = PendingTxs
    /\ minerPc' = "filter"
    /\ UNCHANGED <<chainVars, nodePool, sinceBlockId, finalizedBlocks, parentId, newTxs,
                   minedBlock, woken, lockHolder, othersUnchanged>>

\* With nothing to mine the loop starts again at once.
LookForTxs ==
    /\ minerPc = "filter" /\ PoolFree
    /\ minerPc' = IF FilterTxs(excludingTxs) = <<>> THEN "pending" ELSE "since"
    /\ excludingTxs' = {}
    /\ UNCHANGED <<chainVars, nodePool, sinceBlockId, finalizedBlocks, parentId, newTxs,
                   minedBlock, woken, lockHolder, othersUnchanged>>

GetSince ==
    /\ minerPc = "since" /\ PoolFree
    /\ sinceBlockId' = lastFinalizedBlockId
    /\ minerPc' = "finalized"
    /\ UNCHANGED <<chainVars, nodePool, excludingTxs, finalizedBlocks, parentId, newTxs,
                   minedBlock, woken, lockHolder, othersUnchanged>>

\* A panic ends the thread and poisons the chain's lock.
GetFinalized ==
    /\ minerPc = "finalized" /\ ChainFree
    /\ IF SincePanics(sinceBlockId)
       THEN minerPc' = "panicked" /\ UNCHANGED finalizedBlocks
       ELSE minerPc' = "remove" /\ finalizedBlocks' = BlocksSince(sinceBlockId)
    /\ UNCHANGED <<chainVars, nodePool, excludingTxs, sinceBlockId, parentId, newTxs,
                   minedBlock, woken, lockHolder, othersUnchanged>>

RemoveFinalized ==
    /\ minerPc = "remove" /\ PoolFree
    /\ RemoveTxsFromFinalizedBlocks(finalizedBlocks)
    /\ minerPc' = "working"
    /\ finalizedBlocks' = <<>> /\ sinceBlockId' = RootId
    /\ UNCHANGED <<chainVars, poolPoisoned, excludingTxs, parentId, newTxs, minedBlock, woken,
                   lockHolder, othersUnchanged>>

FaultyReadWorking ==            \* mines on the block that is being received
    /\ minerPc = "working" /\ ChainFree
    /\ parentId' = IF recvBlock = NoBlock THEN workingBlockId ELSE recvBlock
    /\ minerPc' = "exclude"
    /\ UNCHANGED <<chainVars, nodePool, excludingTxs, sinceBlockId, finalizedBlocks, newTxs,
                   minedBlock, woken, lockHolder, othersUnchanged>>

\* create_puzzle, in three locks: the parent, what to exclude, what to mine.
ReadWorking ==
    /\ minerPc = "working" /\ ChainFree
    /\ parentId' = workingBlockId
    /\ minerPc' = "exclude"
    /\ UNCHANGED <<chainVars, nodePool, excludingTxs, sinceBlockId, finalizedBlocks, newTxs,
                   minedBlock, woken, lockHolder, othersUnchanged>>

ReadPending ==
    /\ minerPc = "exclude" /\ ChainFree
    /\ excludingTxs' = PendingTxs
    /\ minerPc' = "choose"
    /\ UNCHANGED <<chainVars, nodePool, sinceBlockId, finalizedBlocks, parentId, newTxs,
                   minedBlock, woken, lockHolder, othersUnchanged>>

ChooseTxs ==
    /\ minerPc = "choose" /\ PoolFree
    /\ newTxs' = FilterTxs(excludingTxs)
    /\ minerPc' = IF newTxs' = <<>> THEN "pending" ELSE "solve"
    /\ excludingTxs' = {}
    /\ UNCHANGED <<chainVars, nodePool, sinceBlockId, finalizedBlocks, parentId,
                   minedBlock, woken, lockHolder, othersUnchanged>>

\* The block the puzzle stands for.
Solves(b) ==
    /\ BlockNode[b].parent = parentId
    /\ BlockNode[b].txs = newTxs /\ BlockNode[b].root = newTxs
    /\ BlockNode[b].receiver = Self
    /\ BlockNode[b].sound

SolvePuzzle ==
    /\ minerPc = "solve" /\ ~cancellationToken
    /\ \E b \in Blocks : Solves(b) /\ minedBlock' = b
    /\ minerPc' = "add"
    /\ parentId' = RootId /\ newTxs' = <<>>
    /\ UNCHANGED <<chainVars, nodePool, excludingTxs, sinceBlockId, finalizedBlocks, woken,
                   lockHolder, othersUnchanged>>

\* solve_puzzle returns nothing when its threads see the token.
Interrupted ==
    /\ minerPc = "solve" /\ cancellationToken
    /\ minerPc' = "pending"
    /\ parentId' = RootId /\ newTxs' = <<>>
    /\ UNCHANGED <<chainVars, nodePool, excludingTxs, sinceBlockId, finalizedBlocks,
                   minedBlock, woken, lockHolder, othersUnchanged>>

AddMined ==
    /\ minerPc = "add" /\ ChainFree
    /\ AddBlock(minedBlock)
    /\ minerPc' = "adding" /\ lockHolder' = "miner"
    /\ UNCHANGED <<nodePool, excludingTxs, sinceBlockId, finalizedBlocks, parentId, newTxs,
                   minedBlock, woken, othersUnchanged>>

\* The block is broadcast, whether add_block has kept it or not.
Broadcast ==
    /\ minerPc = "adding" /\ Returned("miner") /\ Release("miner")
    /\ acked' = acked \cup {minedBlock}
    /\ minerPc' = "pending" /\ minedBlock' = NoBlock
    /\ UNCHANGED <<chainVars, nodePool, excludingTxs, sinceBlockId, finalizedBlocks, parentId,
                   newTxs, signalVars, recvVars, cancellationToken, savedVars>>

MinerStep ==
    \/ Wake \/ GetPending \/ LookForTxs \/ GetSince \/ GetFinalized \/ RemoveFinalized
    \/ ReadWorking \/ ReadPending \/ ChooseTxs
    \/ SolvePuzzle \/ Interrupted \/ AddMined \/ Broadcast

-----------------------------------------------------------------------------
(* Saving the state and starting again from it                             *)

\* RequestStateSerialization: the chain is copied under its lock, then the pool
\* under its own; the client writes both copies to the files.
SaveChain ==
    /\ Saving /\ copied = <<>> /\ ChainFree
    /\ copied' = <<ChainCopy>>
    /\ UNCHANGED <<chainVars, nodePool, recvVars, minerVars, cancellationToken, lockHolder,
                   signalVars, acked, saved, fit>>

SavePool ==
    /\ copied # <<>> /\ PoolFree
    /\ saved' = [chain |-> copied[1], pool |-> PoolCopy] /\ copied' = <<>>
    /\ UNCHANGED <<chainVars, nodePool, recvVars, minerVars, cancellationToken, lockHolder,
                   signalVars, acked, fit>>

FaultyRestoreChain(c) ==        \* works on the genesis block again
    /\ allBlocks' = c.allBlocks /\ childrenMap' = c.childrenMap
    /\ blockDepth' = c.blockDepth /\ workingBlockId' = RootId
    /\ orphans' = c.orphans
    /\ finalizedBlockId' = c.finalizedBlockId
    /\ finalizedBalanceMap' = c.finalizedBalanceMap
    /\ finalizedTxIds' = c.finalizedTxIds
    /\ call' = NoBlock /\ hung' = FALSE

RestoreChain(c) ==
    /\ allBlocks' = c.allBlocks /\ childrenMap' = c.childrenMap
    /\ blockDepth' = c.blockDepth /\ workingBlockId' = c.workingBlockId
    /\ orphans' = c.orphans
    /\ finalizedBlockId' = c.finalizedBlockId
    /\ finalizedBalanceMap' = c.finalizedBalanceMap
    /\ finalizedTxIds' = c.finalizedTxIds
    /\ call' = NoBlock /\ hung' = FALSE

FaultyRestorePool(p) ==         \* has not kept what was removed
    /\ poolTxIds' = p.poolTxIds /\ poolTxMap' = p.poolTxMap
    /\ removedTxIds' = {}
    /\ lastFinalizedBlockId' = p.lastFinalizedBlockId
    /\ poolPoisoned' = FALSE

RestorePool(p) ==
    /\ poolTxIds' = p.poolTxIds /\ poolTxMap' = p.poolTxMap
    /\ removedTxIds' = p.removedTxIds
    /\ lastFinalizedBlockId' = p.lastFinalizedBlockId
    /\ poolPoisoned' = FALSE

\* The transactions of the blocks above the genesis block, up to b.
TxsUpTo(b) == UNION {TxIdsOf(x) : x \in ToSet(BlocksAfter(RootId, b))}

\* A condition and no property: block.rs:323, the precondition of
\* get_finalized_blocks_since, and what the pool would have removed when it was
\* told of the chain's blocks.  The files are saved under two locks and need not
\* fit.
FilesFit ==
    /\ OnPath(saved.pool.lastFinalizedBlockId, saved.chain.finalizedBlockId)
    /\ saved.pool.removedTxIds = TxsUpTo(saved.pool.lastFinalizedBlockId)

\* create_nakamoto with the saved state, after the process has been ended.
Restart ==
    /\ Saving
    /\ RestoreChain(saved.chain) /\ RestorePool(saved.pool)
    /\ fit' = FilesFit
    /\ minerPc' = "wait" /\ excludingTxs' = {} /\ sinceBlockId' = RootId
    /\ finalizedBlocks' = <<>> /\ parentId' = RootId /\ newTxs' = <<>>
    /\ minedBlock' = NoBlock
    /\ recvPc' = "idle" /\ recvBlock' = NoBlock
    /\ cancellationToken' = FALSE /\ lockHolder' = "nobody"
    /\ transOut' = FALSE /\ woken' = FALSE
    /\ acked' = {}
    /\ copied' = <<>> /\ UNCHANGED saved

-----------------------------------------------------------------------------

NodeNext ==
    \/ \E t \in IncomingTxs : TakeInTx(t)
    \/ SendTx
    \/ \E b \in PeerBlocks : RecvBlock(b)
    \/ RecvAdd \/ RecvDone \/ Recursion
    \/ MinerStep
    \/ SaveChain \/ SavePool \/ Restart

NodeSpec == NodeInit /\ [][NodeNext]_nodeVars

\* The threads are scheduled, and a puzzle that is not given up is solved some
\* time.  Nothing is assumed of users and neighbours.
NodeFairness ==
    /\ WF_nodeVars(MinerStep)
    /\ WF_nodeVars(SendTx)
    /\ WF_nodeVars(RecvAdd \/ RecvDone)
    /\ WF_nodeVars(Recursion)

FairNodeSpec == NodeSpec /\ NodeFairness

-----------------------------------------------------------------------------
(* Properties                                                              *)

\* Every transaction of the blocks that the pool was told of is removed, also in a
\* node started again from any files.  Where the files fit, whatever the lives
\* before were: the block the pool was last told of is the finalized block or an
\* ancestor of it (block.rs:323, the precondition of get_finalized_blocks_since),
\* although the miner reads it, asks the chain and tells the pool under three
\* locks, and nothing else is removed than those transactions.
PoolFollowsChain ==
    /\ FinalizedRemoved
    /\ fit =>
        /\ OnPath(lastFinalizedBlockId, finalizedBlockId)
        /\ removedTxIds = TxsUpTo(lastFinalizedBlockId)
        /\ minerPc = "finalized" => sinceBlockId = lastFinalizedBlockId
        /\ minerPc = "remove" => finalizedBlocks = <<>> \/
             BlockNode[finalizedBlocks[1]].parent = lastFinalizedBlockId

\* remove_txs_from_finalized_blocks: what the pool removes for ever is finalized by
\* then, in the chain of the node itself, whether the files it was started on fit or
\* not: a transaction that may still be dropped with its branch is not given up.
RemovedIsFinalized ==
    [][Restart \/ removedTxIds' \subseteq removedTxIds \cup TxsUpTo(finalizedBlockId)]_removedTxIds

\* get_serialized_chain, create_nakamoto: the chain a node runs on is one that
\* calls of add_block have built, in this life of the process or an earlier one.
ChainSound == TreeExact /\ WorkingBelowFinalized /\ FinalityDepth

\* A block mined here never becomes an orphan: the block it extends stays in
\* the tree while the puzzle is solved, whatever arrives meanwhile.  Orphans come
\* from neighbours only.
MinedNeverOrphan ==
    /\ minerPc \in {"exclude", "choose", "solve"} => parentId \in allBlocks
    /\ orphans \subseteq PeerBlocks

\* nakamoto.rs:225: the loop clears out the pool; every transaction waiting in
\* it is mined on the branch worked on, or finalized.
TxsMined ==
    \A t \in SignedTxs :
        t \in ToSet(poolTxIds) ~>
            \/ t \in removedTxIds
            \/ \E b \in ToSet(Tail(PathTo[workingBlockId])) : t \in TxIdsOf(b)

\* block.rs:252: a puzzle holds no transaction of an ancestor of its block.
NothingMinedTwice ==
    minerPc = "solve" =>
        ToSet(newTxs) \cap UNION {TxIdsOf(b) : b \in ToSet(Tail(PathTo[parentId]))} = {}
=============================================================================
