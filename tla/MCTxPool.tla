------------------------------ MODULE MCTxPool ------------------------------
(***************************************************************************)
(* A pool of at most three transactions beside a tree of four blocks that  *)
(* finalizes along either of two branches; one transaction is not signed,  *)
(* one has a sender that is no key, and one block's transaction is not     *)
(* known to the pool before.  The limits reach beyond the pool's size.     *)
(***************************************************************************)
EXTENDS TxPool

Block(p, ts) ==
    [parent |-> p, root |-> ts, txs |-> ts, receiver |-> "M", sound |-> TRUE, garbled |-> FALSE]

MCBlockNode ==
    << Block(0, <<"t1", "t2">>), Block(1, <<"t3">>), Block(1, <<"t4", "t3">>), Block(3, <<"t2">>) >>

MCPathTo ==
    LET path[b \in BlockIds] ==
            IF b = RootId THEN <<RootId>> ELSE Append(path[BlockNode[b].parent], b)
    IN  path

MCBlocks == DOMAIN MCBlockNode
MCRank == [b \in MCBlocks |-> b]
MCUsers == {"A", "B", "M"}
MCTxs == {"t1", "t2", "t3", "t4", "bad", "nokey"}
MCGarbled == {"nokey"}
MCSigned == MCTxs \ {"bad", "nokey"}
MCLimits == 0..4
MCTransaction == [t \in MCTxs |-> [sender |-> "A", receiver |-> "B", amount |-> 1,
                                 readable |-> TRUE]]
MCGenesis == [u \in MCUsers |-> 100]
=============================================================================
