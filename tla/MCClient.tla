------------------------------ MODULE MCClient ------------------------------
(***************************************************************************)
(* A bot, a user who presses Enter or control and s, and two rounds of     *)
(* status requests.  Roomy pipes take all that the children still write    *)
(* when nobody reads any more; narrow ones do not.                         *)
(***************************************************************************)
EXTENDS Client

Text(key) == [ids |-> TRUE, key |-> key, amount |-> 1]
MCTexts == {Text(TRUE), Text(FALSE)}
MCDefault == Text(TRUE)
Roomy == [nodeIn |-> 1, nodeOut |-> 8, nodeErr |-> 2, walletIn |-> 1, walletOut |-> 4]
Narrow == [p \in Pipes |-> IF p = "nodeOut" THEN 1 ELSE 2]
=============================================================================
