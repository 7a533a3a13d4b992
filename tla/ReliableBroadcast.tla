------------------------- MODULE ReliableBroadcast -------------------------
(***************************************************************************)
(* What the network promises to the node above it: a message that was sent *)
(* is handed to every other node once, and never back to its sender.       *)
(***************************************************************************)
EXTENDS Integers

CONSTANTS Nodes, Messages, Origin

VARIABLES
    sent,               \* the messages given to the network
    delivered           \* how often each was handed to each node

BroadcastInit ==
    /\ sent = {}
    /\ delivered = [n \in Nodes |-> [m \in Messages |-> 0]]

Give(m) == m \notin sent /\ sent' = sent \cup {m} /\ UNCHANGED delivered

Deliver(n, m) ==
    /\ m \in sent /\ Origin[m] # n
    /\ delivered[n][m] = 0
    /\ delivered' = [delivered EXCEPT ![n][m] = 1]
    /\ UNCHANGED sent

BroadcastNext ==
    \/ \E m \in Messages : Give(m)
    \/ \E n \in Nodes, m \in Messages : Deliver(n, m)

BroadcastSpec == BroadcastInit /\ [][BroadcastNext]_<<sent, delivered>>
=============================================================================
