-------------------------- MODULE MCBlockValidity --------------------------
(***************************************************************************)
(* Blocks of up to five transactions, so that the second level of the tree *)
(* may be odd as well as the first, and one with a bad signature.  Which   *)
(* transactions a mined block has makes no difference; they are the first  *)
(* ones.                                                                   *)
(***************************************************************************)
EXTENDS BlockValidity

CONSTANTS t1, t2, t3, t4, t5, forged

MCSigned == {t1, t2, t3, t4, t5}
MCTxs == MCSigned \cup {forged}
MCBodies == {SubSeq(<<t1, t2, t3, t4, t5>>, 1, n) : n \in 1..5} \cup {<<t1, forged>>}
=============================================================================
