----------------------------- MODULE ChainData -----------------------------
(***************************************************************************)
(* The data of lib_chain/src/block.rs and the pure computations over it.   *)
(*                                                                         *)
(* A block id is the SHA-256 hash of a puzzle, which holds the parent's id *)
(* and a merkle root, so the ids of all blocks that can exist form a tree, *)
(* given once and for all by the constant BlockNode.  The list of a        *)
(* block's transactions is not part of its id, and add_block compares it   *)
(* with the merkle root nowhere: a block has a list and, apart from it,    *)
(* the list its root was made of.  (A node keeps one block under an id;    *)
(* an id stands here for that block.)  Hashes, nonces, signatures and the  *)
(* text of a transaction's message are not spelled out: `sound' is the     *)
(* verdict of verify_block_integrity on them, `garbled' that it has none:  *)
(* a key or a signature that cannot be parsed makes verify_sig panic.      *)
(***************************************************************************)
EXTENDS Integers, Sequences, FiniteSets, SequencesExt

CONSTANTS
    Blocks,             \* ids of the blocks that may be delivered to a node
    RootId,             \* id of the genesis block, "0" in the code
    BlockNode,          \* the content of each block
    Rank,               \* position of each id in the order of strings
    PathTo,             \* the ids from the genesis block to a block
    Users,              \* wallet addresses
    Txs,                \* transaction ids
    Transaction,        \* the content of each transaction
    GenesisBalance,     \* what the genesis block pays
    ConfirmationDepth   \* k of the k-deep rule; 6 in the code

BlockIds == Blocks \cup {RootId}

BlockRecord ==
    [parent : BlockIds, root : Seq(Txs), txs : Seq(Txs), receiver : Users,
     sound : BOOLEAN, garbled : BOOLEAN]

\* The amount is whatever parses as a number after `SEND $', negative ones
\* included; a message without one is not readable, and its amount is no matter.
TxRecord == [sender : Users, receiver : Users, amount : Int, readable : BOOLEAN]

\* The hash of a header covers the parent's id, so no block is its own
\* ancestor and the path from the genesis block is well defined.
ASSUME BlocksAssumption ==
    /\ RootId \notin Blocks
    /\ BlockNode \in [Blocks -> BlockRecord]
    /\ \A b \in Blocks : BlockNode[b].sound => ~BlockNode[b].garbled
    /\ PathTo \in [BlockIds -> Seq(BlockIds)]
    /\ PathTo[RootId] = <<RootId>>
    /\ \A b \in Blocks : PathTo[b] = Append(PathTo[BlockNode[b].parent], b)

\* Ids are distinct strings; `cmp' orders them totally.
ASSUME RankAssumption ==
    /\ Rank \in [Blocks -> Nat]
    /\ \A a, b \in Blocks : Rank[a] = Rank[b] => a = b

ASSUME LedgerAssumption ==
    /\ Transaction \in [Txs -> TxRecord]
    /\ GenesisBalance \in [Users -> Nat]

ASSUME DepthAssumption == ConfirmationDepth \in Nat \ {0}

MiningReward == 10

-----------------------------------------------------------------------------
(* Walking up the tree                                                     *)

\* `header.parent' of a block; the genesis block is its own parent.
HeaderParent(b) == IF b = RootId THEN RootId ELSE BlockNode[b].parent

\* a is b or one of its ancestors.
OnPath(a, b) == \E i \in DOMAIN PathTo[b] : PathTo[b][i] = a

Depth(b) == Len(PathTo[b]) - 1

\* The block reached from b by n steps to the parent.
Ancestor(b, n) == IF n <= Depth(b) THEN PathTo[b][Depth(b) + 1 - n] ELSE RootId

\* The blocks above a, up to and including b, for a on the path to b.
BlocksAfter(a, b) == SubSeq(PathTo[b], Len(PathTo[a]) + 1, Len(PathTo[b]))

-----------------------------------------------------------------------------
(* Balances                                                                *)

Transfer(balance, t) ==
    LET paid == [balance EXCEPT ![Transaction[t].sender] = @ - Transaction[t].amount]
    IN  [paid EXCEPT ![Transaction[t].receiver] = @ + Transaction[t].amount]

\* The balances after the first n of the transactions, one after the other.
Paid(balance, txs, n) ==
    LET after[i \in 0..Len(txs)] ==
            IF i = 0 THEN balance ELSE Transfer(after[i - 1], txs[i])
    IN  after[n]

PayTxs(balance, b) == Paid(balance, BlockNode[b].txs, Len(BlockNode[b].txs))

PayReward(balance, b) ==
    [u \in Users |-> balance[u] + IF u = BlockNode[b].receiver THEN MiningReward ELSE 0]

\* The transactions of a block, then its mining reward.
Settle(balance, b) == PayReward(PayTxs(balance, b), b)

\* The transactions of several blocks, without the rewards, and the other way.
PayBlocks(balance, blocks) ==
    LET after[i \in 0..Len(blocks)] ==
            IF i = 0 THEN balance ELSE PayTxs(after[i - 1], blocks[i])
    IN  after[Len(blocks)]

PayRewards(balance, blocks) ==
    LET after[i \in 0..Len(blocks)] ==
            IF i = 0 THEN balance ELSE PayReward(after[i - 1], blocks[i])
    IN  after[Len(blocks)]

\* The sender of the i-th transaction can pay for it when its turn comes.
CanPay(balance, txs, i) ==
    Paid(balance, txs, i - 1)[Transaction[txs[i]].sender] >= Transaction[txs[i]].amount

Funded(balance, txs) == \A i \in DOMAIN txs : CanPay(balance, txs, i)

\* The balances the documentation defines: every block from the genesis block
\* to b, in order.
LedgerAt(b) ==
    LET after[i \in 0..Depth(b)] ==
            IF i = 0 THEN GenesisBalance ELSE Settle(after[i - 1], PathTo[b][i + 1])
    IN  after[Depth(b)]
=============================================================================
