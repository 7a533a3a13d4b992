------------------------------ MODULE MCMiner ------------------------------
(***************************************************************************)
(* Three threads; two of them meet a solution after a different number of  *)
(* tries, and one never does.                                              *)
(***************************************************************************)
EXTENDS Miner

MCSolving == {6, 10}
=============================================================================
