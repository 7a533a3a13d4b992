---------------------------- MODULE MCP2PNetwork ----------------------------
(***************************************************************************)
(* Three nodes in a line, so that messages need two hops.                  *)
(***************************************************************************)
EXTENDS P2PNetwork

Trio == {"n1", "n2", "n3"}
Line == [n \in Nodes |-> IF n = "n2" THEN {"n1", "n3"} ELSE {"n2"}]

\* A block from one end of the line and a transaction from the other.
Few == {"b", "t"}
FewKinds == [m \in Few |-> IF m = "b" THEN "block" ELSE "tx"]
FewOrigins == [m \in Few |-> IF m = "b" THEN "n1" ELSE "n3"]
=============================================================================
