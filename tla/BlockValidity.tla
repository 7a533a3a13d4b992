--------------------------- MODULE BlockValidity ---------------------------
(***************************************************************************)
(* What a block's id commits to: the miner hashes the transactions into a  *)
(* merkle root and the header into an id.  validate_block computes both    *)
(* again; verify_block_integrity, which add_block calls, only the id.      *)
(* ChainData, where an id stands for the whole block, rests on the first.  *)
(*                                                                         *)
(* SHA-256 is taken to be free of collisions, so a hash is what has been   *)
(* hashed: a transaction's is the tuple of it, that of two hashes is the   *)
(* pair of them, and the id is what the puzzle and the nonce are made of.  *)
(* Which nonces give an id with enough leading zeros is a constant.        *)
(***************************************************************************)
EXTENDS Naturals, Sequences, SequencesExt

CONSTANTS
    Txs,                \* transactions
    Signed,             \* those of them whose signature is right
    Parents, Receivers, \* the ids and the users that a header may name
    Times,              \* the time stamps
    Nonces,
    Solving,            \* the nonces that solve a puzzle
    Bodies,             \* the lists of transactions that blocks are made of
    MaxTxs              \* bound: the length of the lists that arrive

ASSUME ValidityAssumption ==
    /\ Signed \subseteq Txs /\ Solving \subseteq Nonces
    /\ Bodies \subseteq Seq(Txs)
    /\ MaxTxs \in Nat

VARIABLES
    block,              \* the block that is being made, on its way, or checked
    mined,              \* the block as the miner has sent it
    level,              \* the last level of the merkle tree so far
    stage               \* "making", "sent", "checking", or a verdict

vars == <<block, mined, level, stage>>

\* The first level: each transaction is hashed by itself.
Leaves(txs) == [i \in DOMAIN txs |-> <<txs[i]>>]

FaultyNextLevel(hashes) ==      \* forgets the last one of an odd number
    [i \in 1..(Len(hashes) \div 2) |-> <<hashes[2*i - 1], hashes[2*i]>>]

\* Pairs are hashed together, the last one of an odd number with itself.
NextLevel(hashes) ==
    [i \in 1..((Len(hashes) + 1) \div 2) |->
        <<hashes[2*i - 1], IF 2*i <= Len(hashes) THEN hashes[2*i] ELSE hashes[2*i - 1]>>]

Complete == Len(level) <= 1
RootHash(hashes) == IF hashes = <<>> THEN <<>> ELSE hashes[1]

\* SHA-256 of the nonce and the puzzle; the time stamp is not part of it.
BlockId(b) == <<b.nonce, b.parent, b.root, b.receiver>>

\* create_puzzle has the transactions; root, nonce and id are still empty.
Init ==
    /\ \E parent \in Parents, receiver \in Receivers, txs \in Bodies,
          time \in Times, nonce \in Nonces :
          block = [parent |-> parent, receiver |-> receiver, txs |-> txs, time |-> time,
                   root |-> <<>>, nonce |-> nonce, id |-> <<>>]
    /\ mined = block
    /\ level = Leaves(block.txs)
    /\ stage = "making"

\* One turn of the loop of create_merkle_tree.
HashLevel ==
    /\ stage \in {"making", "checking"} /\ ~Complete
    /\ level' = NextLevel(level)
    /\ UNCHANGED <<block, mined, stage>>

Seal ==
    /\ stage = "making" /\ Complete
    /\ LET withRoot == [block EXCEPT !.root = RootHash(level)]
       IN  block' = [withRoot EXCEPT !.id = BlockId(withRoot)]
    /\ mined' = block' /\ stage' = "sent"
    /\ UNCHANGED level

\* The block with whatever header: any of its parts may be another one.
Headers ==
    [parent : Parents, receiver : Receivers, txs : {block.txs}, time : Times,
     root : {block.root, <<>>}, nonce : Nonces, id : {block.id, <<>>}]

\* The block as it was sent, or with another header, or with other transactions.
Arriving == Headers \cup {[block EXCEPT !.txs = txs] : txs \in BoundedSeq(Txs, MaxTxs)}

Arrive ==
    /\ stage = "sent" /\ stage' = "checking"
    /\ block' \in Arriving
    /\ level' = Leaves(block'.txs)
    /\ UNCHANGED mined

IdChecked ==
    /\ block.id = BlockId(block)
    /\ block.nonce \in Solving
    /\ ToSet(block.txs) \subseteq Signed

ValidateBlock ==
    /\ stage = "checking" /\ Complete
    /\ stage' = IF IdChecked /\ RootHash(level) = block.root THEN "valid" ELSE "invalid"
    /\ UNCHANGED <<block, mined, level>>

VerifyBlockIntegrity ==
    /\ stage = "checking" /\ level = Leaves(block.txs)
    /\ stage' = IF IdChecked THEN "accepted" ELSE "refused"
    /\ UNCHANGED <<block, mined, level>>

Decided == stage \in {"valid", "invalid", "accepted", "refused"} /\ UNCHANGED vars

Next == HashLevel \/ Seal \/ Arrive \/ ValidateBlock \/ VerifyBlockIntegrity \/ Decided

Spec == Init /\ [][Next]_vars

-----------------------------------------------------------------------------

\* Every b in the list comes after an a, or is it.
ComesBefore(txs, a, b) == \A j \in DOMAIN txs : txs[j] = b => \E i \in 1..j : txs[i] = a

\* The same transactions, which come for the first time in the same order.
SameTxs(x, y) ==
    /\ ToSet(x) = ToSet(y)
    /\ \A a, b \in ToSet(x) : ComesBefore(x, a, b) <=> ComesBefore(y, a, b)

SameHeader == [block EXCEPT !.txs = mined.txs, !.time = mined.time] = mined

\* lib_chain/src/block.rs:23, "to verify the integrity of transactions", and :707:
\* a block passes either check only with the header it was mined with, but for
\* the time stamp, which no check looks at, and validate_block only with its
\* transactions, in their order; that the last of them come once more goes
\* unnoticed, as the tree repeats them.  A block as it was mined passes if its
\* transactions are signed and its nonce solves the puzzle.
ValidAsMined ==
    /\ stage \in {"valid", "accepted"} => SameHeader
    /\ stage = "valid" => SameTxs(block.txs, mined.txs)
    /\ stage \in {"invalid", "refused"} /\ block = mined =>
          ~(ToSet(mined.txs) \subseteq Signed /\ mined.nonce \in Solving)
=============================================================================
