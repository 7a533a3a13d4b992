---------------------------- MODULE MCBlockTree ----------------------------
(***************************************************************************)
(* Small universes of blocks for the module BlockTree.  A configuration    *)
(* picks one as BlockNode; ids are numbers, the genesis block is 0, and    *)
(* the number is also the id's rank.                                       *)
(***************************************************************************)
EXTENDS BlockTree

Block(p, ts, r) ==
    [parent |-> p, root |-> ts, txs |-> ts, receiver |-> r, sound |-> TRUE, garbled |-> FALSE]
Tampered(p) == [Block(p, <<>>, "M") EXCEPT !.sound = FALSE]
Garbled(p) == [Tampered(p) EXCEPT !.garbled = TRUE]

MCPathTo ==
    LET path[b \in BlockIds] ==
            IF b = RootId THEN <<RootId>> ELSE Append(path[BlockNode[b].parent], b)
    IN  path

MCBlocks == DOMAIN BlockNode

MCRank == [b \in Blocks |-> b]

MCUsers == {"A", "B", "M"}

MCGenesis == [u \in MCUsers |-> IF u = "A" THEN 50 ELSE 0]

Tx(s, r, a) == [sender |-> s, receiver |-> r, amount |-> a, readable |-> TRUE]

\* t2 spends what B has from t1; t3 and t4 spend rewards of M; t5 takes most
\* of what A has left and cannot be paid twice; t9 and t10 can
\* each be paid after the chain below, but not both; t11 takes from its
\* receiver, and t12 is a greeting.
MCTransaction ==
    [t1 |-> Tx("A", "B", 10), t2 |-> Tx("B", "A", 5), t3 |-> Tx("M", "B", 10),
     t4 |-> Tx("M", "A", 10), t5 |-> Tx("A", "B", 40), t6 |-> Tx("B", "M", 15),
     t7 |-> Tx("A", "A", 30), t8 |-> Tx("A", "M", 1),
     t9 |-> Tx("A", "M", 20), t10 |-> Tx("A", "B", 10), t11 |-> Tx("B", "A", -5),
     t12 |-> [Tx("A", "B", 0) EXCEPT !.readable = FALSE]]

MCTxs == DOMAIN MCTransaction

\* A chain of eight blocks, as in the tests of lib_chain, a ninth that spends
\* more than its sender has after them, and a tampered block.
ChainNodes ==
    << Block(0, <<"t1">>, "M"), Block(1, <<"t2">>, "M"), Block(2, <<"t3">>, "B"),
       Block(3, <<"t8">>, "M"), Block(4, <<"t7">>, "M"), Block(5, <<"t4">>, "M"),
       Block(6, <<"t5", "t6">>, "A"), Block(7, <<"t1">>, "A"),
       Block(8, <<"t9", "t10">>, "M"), Tampered(2) >>

\* A spine 1, 3, 5, 7, 9, 11 with a fork at every level, one of them two blocks
\* long.  Among the forks are an overdraft (10), a tampered block (12) and another
\* list under the merkle root of block 5 (8); block 9 has the list of block 5
\* under a root of its own, and a negative amount.
LateForkNodes ==
    << Block(0, <<"t1">>, "M"), Block(0, <<"t8">>, "M"),
       Block(1, <<"t2">>, "M"), Block(1, <<"t8">>, "B"),
       Block(3, <<"t8">>, "A"), Block(4, <<"t2">>, "B"),
       Block(5, <<"t7">>, "M"), [Block(5, <<"t4">>, "M") EXCEPT !.root = <<"t8">>],
       [Block(7, <<"t8", "t11">>, "M") EXCEPT !.root = <<"t4">>],
       Block(7, <<"t5", "t5">>, "M"), Block(9, <<"t3">>, "A"), Tampered(3) >>

\* The same with a message that has no amount, behind one that can be paid and
\* behind one that cannot, and with a signature that cannot be parsed.
ForkNodes == LateForkNodes \o
    << Block(7, <<"t8", "t12">>, "M"), Block(5, <<"t5", "t5", "t12">>, "M"), Garbled(3) >>

=============================================================================
