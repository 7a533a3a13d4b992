----------------------------- MODULE MCNakamoto -----------------------------
(***************************************************************************)
(* A universe of blocks that holds everything the node may mine: an id is  *)
(* the list of the bodies from the genesis block to the block, each body   *)
(* given by its position in Bodies.  Odd positions are mined here, even    *)
(* ones by a neighbour; a block holds one transaction.                     *)
(***************************************************************************)
EXTENDS Nakamoto

CONSTANTS MaxLength, Bodies     \* bound: the longest branch; the bodies used

MCBlocks == UNION {[1..n -> DOMAIN Bodies] : n \in 1..MaxLength}

Body(t, r) == [root |-> <<t>>, txs |-> <<t>>, receiver |-> r, garbled |-> FALSE]

\* Two transactions, each in a body of this node and in one of a neighbour.
TwoTxs == <<Body("t1", "Me"), Body("t1", "You"), Body("t2", "Me"), Body("t2", "You")>>

\* Three transactions, mined here.
OwnTxs == <<Body("t1", "Me"), Body("t2", "Me"), Body("t3", "Me")>>

MCBlockNode ==
    [b \in MCBlocks |-> [parent |-> Front(b), root |-> Bodies[Last(b)].root,
                         txs |-> Bodies[Last(b)].txs, receiver |-> Bodies[Last(b)].receiver,
                         sound |-> ~Bodies[Last(b)].garbled, garbled |-> Bodies[Last(b)].garbled]]

MCPathTo == [b \in MCBlocks \cup {<<>>} |-> [i \in 1..(Len(b) + 1) |-> SubSeq(b, 1, i - 1)]]

MCRoot == <<>>

\* Longer lists rank higher, then the later bodies.
MCRank ==
    [b \in MCBlocks |-> FoldLeft(LAMBDA n, i : n * (Len(Bodies) + 1) + i, 0, b)]

MCTxs == {"t1", "t2", "t3", "unsigned", "nokey"}
MCSigned == MCTxs \ {"unsigned", "nokey"}
MCGarbled == {"nokey"}
MCLimits == {1}
MCUsers == {"A", "B", "Me", "You"}
MCTransaction ==
    [t \in MCTxs |-> [sender |-> "A", receiver |-> "B", amount |-> 1, readable |-> TRUE]]
MCGenesis == [u \in MCUsers |-> IF u = "A" THEN 100 ELSE 0]

BodyTxs == UNION {ToSet(Bodies[i].txs) : i \in DOMAIN Bodies}

\* Besides, one with a wrong signature, and one with a sender that is no key.
BodyTxsAndWrong == BodyTxs \cup {"unsigned", "nokey"}

NoPeers == {}

\* A neighbour's branch of two, which forks off what is mined here.
ForkingPeers == {<<2>>, <<2, 4>>}
=============================================================================
