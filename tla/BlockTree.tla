----------------------------- MODULE BlockTree -----------------------------
(***************************************************************************)
(* The block tree of one node, lib_chain/src/block.rs: which blocks are    *)
(* attached, which are kept as orphans, which one is worked on, and which  *)
(* ones are finalized with their effect on the balances.                   *)
(*                                                                         *)
(* The node holds the lock of its chain for a whole call of add_block, so  *)
(* a block and the orphans it brings in are attached without interference. *)
(* The recursion of add_orphan_block is one step per block: `call' is the  *)
(* orphan the recursion is about to treat, and no other step is taken      *)
(* while there is one.  `hung' says that the lock is lost: a loop of the   *)
(* code that does not end leaves it taken for ever, and a panic poisons    *)
(* it, so that everybody who takes it panics as well.                      *)
(***************************************************************************)
EXTENDS ChainData

CONSTANT NoBlock        \* not the id of a block

ASSUME NoBlockAssumption == NoBlock \notin BlockIds

VARIABLES
    allBlocks,              \* the attached blocks
    childrenMap,            \* the children of each block that has any
    blockDepth,             \* the depth of each attached block
    workingBlockId,         \* the block the next one is mined on
    orphans,                \* blocks kept until their parent is attached
    finalizedBlockId,       \* the latest finalized block
    finalizedBalanceMap,    \* balances after the finalized blocks
    finalizedTxIds,         \* transactions in the finalized blocks
    call,                   \* the orphan add_orphan_block is called with
    hung                    \* a call of add_block never returns the lock

treeVars == <<allBlocks, childrenMap, blockDepth, workingBlockId>>
finalityVars == <<finalizedBlockId, finalizedBalanceMap, finalizedTxIds>>
vars == <<treeVars, orphans, finalityVars, call, hung>>

TypeOK ==
    /\ allBlocks \subseteq BlockIds
    /\ childrenMap \in [DOMAIN childrenMap -> SUBSET Blocks]
    /\ DOMAIN childrenMap \subseteq allBlocks
    /\ blockDepth \in [allBlocks -> Nat]
    /\ workingBlockId \in allBlocks
    /\ orphans \subseteq Blocks
    /\ finalizedBlockId \in allBlocks
    /\ DOMAIN finalizedBalanceMap = Users
    /\ finalizedTxIds \subseteq Txs
    /\ call \in Blocks \cup {NoBlock}
    /\ hung \in BOOLEAN

Init ==
    /\ allBlocks = {RootId}
    /\ childrenMap = [b \in {} |-> {}]
    /\ blockDepth = [b \in {RootId} |-> 0]
    /\ workingBlockId = RootId
    /\ orphans = {}
    /\ finalizedBlockId = RootId
    /\ finalizedBalanceMap = GenesisBalance
    /\ finalizedTxIds = {}
    /\ call = NoBlock
    /\ hung = FALSE

-----------------------------------------------------------------------------
(* The conditions of add_block                                             *)

Known(b) == b \in allBlocks \/ b \in orphans

\* verify_block_ancestry fails: an ancestor has the very same merkle root.
\* The loop stops at the block whose parent is the genesis block and compares
\* neither of the two.
DuplicateRoot(b) ==
    LET path == PathTo[BlockNode[b].parent]
    IN  \E i \in 3..Len(path) : BlockNode[path[i]].root = BlockNode[b].root

\* get_pending_finalization_txs reaches the finalized block on its way down
\* from the working block.
PendingWalkStops == OnPath(finalizedBlockId, workingBlockId)

\* The operators named Faulty... are variants of the operator that follows them,
\* each with one slip a programmer could make; no action uses them.
FaultyRewardWalkStops(b) == TRUE    \* also stops at the genesis block

\* The walk that adds rewards reaches, on its way down from the parent, a
\* block whose parent is the finalized block.
RewardWalkStops(b) ==
    \E x \in ToSet(PathTo[BlockNode[b].parent]) : HeaderParent(x) = finalizedBlockId

\* The blocks whose rewards that walk adds: those from the parent down to the
\* one above the child of the finalized block.
RewardBlocks(b) ==
    LET path == PathTo[BlockNode[b].parent]
    IN  SubSeq(path, Len(PathTo[finalizedBlockId]) + 2, Len(path))

\* The balances the senders of b are held against: the finalized ones, the
\* transactions pending on the working block's path, the rewards on b's own.
CheckedBalance(b) ==
    LET pending == BlocksAfter(finalizedBlockId, workingBlockId)
    IN  PayRewards(PayBlocks(finalizedBalanceMap, pending), RewardBlocks(b))

FaultySufficientBalance(b) ==   \* holds each transaction alone against them
    \A t \in ToSet(BlockNode[b].txs) :
        CheckedBalance(b)[Transaction[t].sender] >= Transaction[t].amount

SufficientBalance(b) == Funded(CheckedBalance(b), BlockNode[b].txs)

FaultyUnreadable(b) == FALSE    \* takes any message for one with an amount

\* The check of the balances, which is left at the first sender that cannot
\* pay, comes to a message without an amount, and panics.
Unreadable(b) ==
    \E i \in DOMAIN BlockNode[b].txs :
        /\ ~Transaction[BlockNode[b].txs[i]].readable
        /\ \A j \in 1..(i - 1) : CanPay(CheckedBalance(b), BlockNode[b].txs, j)

-----------------------------------------------------------------------------
(* Attaching a block                                                       *)

Children(map, p) == IF p \in DOMAIN map THEN map[p] ELSE {}

FaultyWithChild(map, b) ==      \* replaces the children instead of adding one
    LET p == BlockNode[b].parent
    IN  [q \in DOMAIN map \cup {p} |-> IF q = p THEN {b} ELSE map[q]]

WithChild(map, b) ==
    LET p == BlockNode[b].parent
    IN  [q \in DOMAIN map \cup {p} |->
            Children(map, q) \cup (IF q = p THEN {b} ELSE {})]

\* The child whose id is the largest string, whatever its descendants.
LargestChild(siblings, w) == w \in siblings /\ \A s \in siblings : Rank[s] <= Rank[w]

TxIdsOf(b) == ToSet(BlockNode[b].txs)

\* One of the first K steps down from b arrives at the finalized block.
TooShallow(b) == \E j \in 0..(ConfirmationDepth - 1) :
                    HeaderParent(Ancestor(b, j)) = finalizedBlockId

FaultyFinalizeEarly(b) ==       \* one confirmation too few
    LET new == Ancestor(b, ConfirmationDepth - 1)
    IN  IF new \in childrenMap'[finalizedBlockId]
        THEN /\ finalizedBlockId' = new
             /\ finalizedBalanceMap' = Settle(finalizedBalanceMap, new)
             /\ finalizedTxIds' = finalizedTxIds \cup TxIdsOf(new)
        ELSE UNCHANGED finalityVars

FaultyFinalizeUnpaid(b) ==      \* forgets the mining reward
    LET new == Ancestor(b, ConfirmationDepth)
    IN  IF ~TooShallow(b) /\ new \in childrenMap'[finalizedBlockId]
        THEN /\ finalizedBlockId' = new
             /\ finalizedBalanceMap' = PayTxs(finalizedBalanceMap, new)
             /\ finalizedTxIds' = finalizedTxIds \cup TxIdsOf(new)
        ELSE UNCHANGED finalityVars

\* finalize_block, called with the new block b after childrenMap is updated.
FinalizeBlock(b) ==
    LET new == Ancestor(b, ConfirmationDepth)
    IN  IF ~TooShallow(b) /\ new \in childrenMap'[finalizedBlockId]
        THEN /\ finalizedBlockId' = new
             /\ finalizedBalanceMap' = Settle(finalizedBalanceMap, new)
             /\ finalizedTxIds' = finalizedTxIds \cup TxIdsOf(new)
        ELSE UNCHANGED finalityVars

FaultyUpdateBlocktree(b) ==     \* does not record the depth
    /\ allBlocks' = allBlocks \cup {b}
    /\ childrenMap' = WithChild(childrenMap, b)
    /\ LargestChild(childrenMap'[BlockNode[b].parent], workingBlockId')
    /\ FinalizeBlock(b)
    /\ UNCHANGED blockDepth

UpdateBlocktree(b) ==
    /\ allBlocks' = allBlocks \cup {b}
    /\ blockDepth' = [x \in allBlocks \cup {b} |->
                        IF x = b THEN blockDepth[BlockNode[b].parent] + 1
                                 ELSE blockDepth[x]]
    /\ childrenMap' = WithChild(childrenMap, b)
    /\ LargestChild(childrenMap'[BlockNode[b].parent], workingBlockId')
    /\ FinalizeBlock(b)

FaultyOrphanChildren(b) ==      \* any orphan whose parent is attached
    {o \in orphans : BlockNode[o].parent \in allBlocks \cup {b}}

OrphanChildren(b) == {o \in orphans : BlockNode[o].parent = b}


\* The loop over the orphans after b is attached: the first child of b it
\* meets, in the arbitrary order of a hash map, is handed to
\* add_orphan_block; then b's own entry is removed, and the loop is left.
AdoptOrphan(b) ==
    \/ \E o \in OrphanChildren(b) : call' = o /\ orphans' = orphans \ {b}
    \/ OrphanChildren(b) = {} /\ call' = NoBlock /\ UNCHANGED orphans

\* The common end of add_block and add_orphan_block: b has passed the
\* conditions on itself and its parent is attached.
ParentFound(b) ==
    IF DuplicateRoot(b)
    THEN call' = NoBlock /\ UNCHANGED <<treeVars, orphans, finalityVars, hung>>
    ELSE IF ~(PendingWalkStops /\ RewardWalkStops(b)) \/ Unreadable(b)
    THEN hung' = TRUE /\ UNCHANGED <<treeVars, orphans, finalityVars, call>>
    ELSE IF ~SufficientBalance(b)
    THEN call' = NoBlock /\ UNCHANGED <<treeVars, orphans, finalityVars, hung>>
    ELSE UpdateBlocktree(b) /\ AdoptOrphan(b) /\ UNCHANGED hung

Ready == ~hung /\ call = NoBlock

\* add_block refuses a block it has, or one whose hash or signatures are wrong.
IgnoreBlock(b) ==
    /\ Ready
    /\ Known(b) \/ (~BlockNode[b].sound /\ ~BlockNode[b].garbled)
    /\ UNCHANGED vars

\* verify_block_integrity panics in verify_sig.
PanicOnBlock(b) ==
    /\ Ready
    /\ ~Known(b) /\ BlockNode[b].garbled
    /\ hung' = TRUE
    /\ UNCHANGED <<treeVars, orphans, finalityVars, call>>

\* add_block keeps a block whose parent is not attached.
KeepOrphan(b) ==
    /\ Ready
    /\ ~Known(b) /\ BlockNode[b].sound
    /\ BlockNode[b].parent \notin allBlocks
    /\ orphans' = orphans \cup {b}
    /\ UNCHANGED <<treeVars, finalityVars, call, hung>>

\* add_block with a block whose parent is attached.
AttachBlock(b) ==
    /\ Ready
    /\ ~Known(b) /\ BlockNode[b].sound
    /\ BlockNode[b].parent \in allBlocks
    /\ ParentFound(b)

AddBlock(b) == IgnoreBlock(b) \/ PanicOnBlock(b) \/ KeepOrphan(b) \/ AttachBlock(b)

\* add_orphan_block refuses an attached or a wrong block and keeps one without
\* parent.  Neither happens (OrphanCallReady): it is called with a checked
\* orphan, right after the orphan's parent has been attached.
AddOrphanBlock ==
    /\ ~hung /\ call # NoBlock
    /\ ParentFound(call)

Next == AddOrphanBlock \/ \E b \in Blocks : AddBlock(b)

Spec == Init /\ [][Next]_vars

\* Every block is delivered sooner or later, and add_block, which runs with
\* the lock taken, comes to its end.
Fairness ==
    /\ WF_vars(AddOrphanBlock)
    /\ \A b \in Blocks : WF_vars(AddBlock(b))

FairSpec == Spec /\ Fairness
-----------------------------------------------------------------------------
(* What the tree guarantees, whatever blocks arrive in whatever order      *)

\* update_blocktree keeps its four maps together: every attached block is
\* checked, its amounts can be read (finalize_block unwraps them again) and it
\* hangs below an attached block, its depth is its distance from the genesis
\* block, and childrenMap is exactly the inverse of the parents.
TreeExact ==
    /\ RootId \in allBlocks
    /\ \A b \in allBlocks \ {RootId} :
          /\ BlockNode[b].sound /\ BlockNode[b].parent \in allBlocks
          /\ \A t \in TxIdsOf(b) : Transaction[t].readable
    /\ \A b \in allBlocks : blockDepth[b] = Depth(b)
    /\ \A p \in allBlocks :
          Children(childrenMap, p) = {b \in allBlocks \ {RootId} : BlockNode[b].parent = p}

\* The working block, chosen by its id alone (update_blocktree), always
\* descends from the finalized block, so the walk of
\* get_pending_finalization_txs ends.
WorkingBelowFinalized == PendingWalkStops

\* finalize_block follows the k-deep rule exactly: the finalized block is k
\* steps from a descendant of it, and no block is deeper than that one.
FinalityDepth ==
    /\ \A b \in allBlocks : blockDepth[b] <= blockDepth[finalizedBlockId] + ConfirmationDepth
    /\ \/ finalizedBlockId = RootId
       \/ \E b \in allBlocks :
             /\ OnPath(finalizedBlockId, b)
             /\ blockDepth[b] = blockDepth[finalizedBlockId] + ConfirmationDepth

\* finalize_block's unwrap of the finalized block's children never fails.
NoUnwrapPanic ==
    [][allBlocks' # allBlocks => finalizedBlockId \in DOMAIN childrenMap']_vars

\* When the recursion calls add_orphan_block the orphan is sound, its parent
\* is attached and itself is not: the early returns there are never taken.
OrphanCallReady ==
    call # NoBlock => /\ BlockNode[call].sound
                      /\ call \notin allBlocks
                      /\ BlockNode[call].parent \in allBlocks

\* block.rs:472: the walk that adds rewards can run past the finalized block and
\* never end, but not in the recursion: the parent of an orphan that is being
\* adopted is strictly below the finalized block, also when attaching that
\* parent has just finalized another block.
RecursionEnds == call # NoBlock => RewardWalkStops(call)

Finality == INSTANCE FinalityLog
              WITH Parent <- HeaderParent,
                   log <- PathTo[finalizedBlockId],
                   balances <- finalizedBalanceMap,
                   txIds <- finalizedTxIds

\* The finalized block, balances and transactions implement a log that only
\* grows, whatever becomes of the working block.
FinalityOnlyGrows == Finality!LogSpec

-----------------------------------------------------------------------------
(* What the comments of block.rs say, and what becomes of it               *)

\* block.rs:253: every sender could pay when its transaction's turn came,
\* counting all the blocks from the genesis block.
NoOverdraft ==
    \A b \in allBlocks \ {RootId} :
        Funded(LedgerAt(BlockNode[b].parent), BlockNode[b].txs)

\* No two checked blocks have one parent.
NoForks ==
    \A a, b \in Blocks :
        BlockNode[a].sound /\ BlockNode[b].sound /\ BlockNode[a].parent = BlockNode[b].parent
            => a = b

\* The same of each block that is attached to the working block, forks or not:
\* there the balances that it is held against are not above the real ones.
FundedOnWorking ==
    [][\A b \in allBlocks' \ allBlocks :
          BlockNode[b].parent = workingBlockId =>
              Funded(LedgerAt(workingBlockId), BlockNode[b].txs)]_vars

\* block.rs:242: a block that satisfies the conditions is added.  The valid
\* blocks are all attached in the end, whatever the order they arrive in.
Valid(b) == \A x \in ToSet(Tail(PathTo[b])) :
    /\ BlockNode[x].sound
    /\ \A t \in TxIdsOf(x) : Transaction[t].readable
    /\ Funded(LedgerAt(BlockNode[x].parent), BlockNode[x].txs)


\* block.rs:242: add_block ignores a block or adds it; it returns.
AddBlockReturns == ~hung
=============================================================================
