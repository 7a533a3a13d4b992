----------------------------- MODULE P2PNetwork -----------------------------
(***************************************************************************)
(* lib_network: the nodes' P2PNetwork instances, netchannel.rs between     *)
(* them.  A message is broadcast to the connected neighbours; a node that  *)
(* receives one it has not seen hands it on, blocks and transactions to    *)
(* its Nakamoto threads, and forwards it to all its own neighbours, the    *)
(* one it came from included.                                              *)
(*                                                                         *)
(* Each node has a thread for each kind of message to broadcast, which     *)
(* starts a thread for every write, and a thread for each incoming         *)
(* connection, which forwards by itself, with the lock of the channels     *)
(* taken while it writes.  A write waits while the connection is full.     *)
(* The counters for the status display are left out.                       *)
(***************************************************************************)
EXTENDS Integers, Sequences, FiniteSets

CONSTANTS
    Nodes,
    Neighbors,          \* the neighbours in each node's configuration
    Messages,
    Kind,               \* "block", "tx" or "request"
    Origin,             \* the node whose user or miner makes the message
    Capacity,           \* how many messages the sockets of a connection hold
    NoMessage, NoNode

ASSUME NetworkAssumption ==
    /\ Neighbors \in [Nodes -> SUBSET Nodes]
    /\ Kind \in [Messages -> {"block", "tx", "request"}]
    /\ Origin \in [Messages -> Nodes]
    /\ Capacity \in Nat \ {0}
    /\ NoMessage \notin Messages /\ NoNode \notin Nodes

Kinds == {"block", "tx", "request"}

\* A connection, from the node that opens it and writes to the one that reads.
Links == {l \in Nodes \X Nodes : l[2] \in Neighbors[l[1]]}

VARIABLES
    toSend,             \* the channels of messages to broadcast, by node and kind
    ack,                \* the messages each node has seen
    channels,           \* the neighbours each node is connected to, in order
    writers,            \* how many threads are about to write each message
    wire,               \* what is in each connection
    reading,            \* what the thread that reads a connection is handling
    lock,               \* the neighbour whose thread has the lock of the channels
    todo,               \* whom the thread with the lock has yet to write to
    sent, delivered     \* what Nakamoto gives, and how often each node has handed
                        \* each message on (see ReliableBroadcast)

vars == <<toSend, ack, channels, writers, wire, reading, lock, todo, sent, delivered>>

P2PTypeOK ==
    /\ toSend \in [Nodes \X Kinds -> Seq(Messages)]
    /\ ack \in [Nodes -> SUBSET Messages]
    /\ channels \in [Nodes -> Seq(Nodes)]
    /\ writers \in [Links -> [Messages -> Nat]]
    /\ wire \in [Links -> Seq(Messages)]
    /\ reading \in [Links -> Messages \cup {NoMessage}]
    /\ lock \in [Nodes -> Nodes \cup {NoNode}]
    /\ todo \in [Nodes -> Seq(Nodes)]
    /\ sent \subseteq Messages
    /\ delivered \in [Nodes -> [Messages -> Nat]]

Init ==
    /\ toSend = [q \in Nodes \X Kinds |-> <<>>]
    /\ ack = [n \in Nodes |-> {}]
    /\ channels = [n \in Nodes |-> <<>>]
    /\ writers = [l \in Links |-> [m \in Messages |-> 0]]
    /\ wire = [l \in Links |-> <<>>]
    /\ reading = [l \in Links |-> NoMessage]
    /\ lock = [n \in Nodes |-> NoNode]
    /\ todo = [n \in Nodes |-> <<>>]
    /\ sent = {}
    /\ delivered = [n \in Nodes |-> [m \in Messages |-> 0]]

Connected(n) == {channels[n][i] : i \in DOMAIN channels[n]}

\* create has joined the threads that connect, and returned.
Created(n) == Connected(n) = Neighbors[n]

HasRoom(l) == Len(wire[l]) < Capacity

-----------------------------------------------------------------------------

\* from_addr tries until the neighbour listens; the connections are opened in
\* parallel and listed in the order they come about.
Connect(n, to) ==
    /\ to \in Neighbors[n] \ Connected(n) /\ lock[n] = NoNode
    /\ channels' = [channels EXCEPT ![n] = Append(@, to)]
    /\ UNCHANGED <<toSend, ack, writers, wire, reading, lock, todo, sent, delivered>>

\* Nakamoto puts a message in a channel that create has returned.  (Bound: its
\* user or miner makes each message once.)
Send(m) ==
    /\ m \notin sent /\ Created(Origin[m])
    /\ toSend' = [toSend EXCEPT ![<<Origin[m], Kind[m]>>] = Append(@, m)]
    /\ sent' = sent \cup {m}
    /\ UNCHANGED <<ack, channels, writers, wire, reading, lock, todo, delivered>>

\* The broadcasting thread of a kind notes its next message as seen ...
Mark(n, k) ==
    /\ toSend[<<n, k>>] # <<>> /\ Created(n)
    /\ Head(toSend[<<n, k>>]) \notin ack[n]
    /\ ack' = [ack EXCEPT ![n] = @ \cup {Head(toSend[<<n, k>>])}]
    /\ UNCHANGED <<toSend, channels, writers, wire, reading, lock, todo, sent, delivered>>

FaultyBroadcast(n, k) ==        \* does not wait for the message to be marked
    /\ toSend[<<n, k>>] # <<>> /\ Created(n) /\ lock[n] = NoNode
    /\ LET m == Head(toSend[<<n, k>>])
       IN  writers' = [l \in Links |-> IF l[1] = n /\ l[2] \in Connected(n)
                                       THEN [writers[l] EXCEPT ![m] = @ + 1]
                                       ELSE writers[l]]
    /\ toSend' = [toSend EXCEPT ![<<n, k>>] = Tail(@)]
    /\ UNCHANGED <<ack, channels, wire, reading, lock, todo, sent, delivered>>

\* ... and starts a thread that writes it for each channel.
Broadcast(n, k) ==
    /\ toSend[<<n, k>>] # <<>> /\ Created(n) /\ lock[n] = NoNode
    /\ LET m == Head(toSend[<<n, k>>])
       IN  /\ m \in ack[n]
           /\ writers' = [l \in Links |-> IF l[1] = n /\ l[2] \in Connected(n)
                                          THEN [writers[l] EXCEPT ![m] = @ + 1]
                                          ELSE writers[l]]
    /\ toSend' = [toSend EXCEPT ![<<n, k>>] = Tail(@)]
    /\ UNCHANGED <<ack, channels, wire, reading, lock, todo, sent, delivered>>

Write(l, m) ==
    /\ writers[l][m] > 0 /\ HasRoom(l)
    /\ writers' = [writers EXCEPT ![l][m] = @ - 1]
    /\ wire' = [wire EXCEPT ![l] = Append(@, m)]
    /\ UNCHANGED <<toSend, ack, channels, reading, lock, todo, sent, delivered>>

-----------------------------------------------------------------------------
(* The thread that reads a connection                                      *)

FaultyHandOver(n, m) ==         \* transactions are only sent on
    IF Kind[m] = "tx"
    THEN /\ toSend' = [toSend EXCEPT ![<<n, "tx">>] = Append(@, m)]
         /\ UNCHANGED delivered
    ELSE /\ delivered' = [delivered EXCEPT ![n][m] = @ + 1]
         /\ UNCHANGED toSend

\* A message seen for the first time is handed on, and delivered counts it: a
\* block to Nakamoto; a transaction to Nakamoto, whose receiving thread puts it
\* in trans_tx and so in the channel for transactions; a request to no more than
\* the channel that this node broadcasts requests from, since nobody answers one.
\* Transactions and requests are so broadcast a second time.
HandOver(n, m) ==
    /\ delivered' = [delivered EXCEPT ![n][m] = @ + 1]
    /\ IF Kind[m] = "block"
       THEN UNCHANGED toSend
       ELSE toSend' = [toSend EXCEPT ![<<n, Kind[m]>>] = Append(@, m)]

Fresh(n, m) == m \notin ack[n]

\* What was seen before is dropped.
Receive(l) ==
    /\ wire[l] # <<>> /\ reading[l] = NoMessage
    /\ LET n == l[2]
           m == Head(wire[l])
       IN  IF Fresh(n, m)
           THEN /\ ack' = [ack EXCEPT ![n] = @ \cup {m}]
                /\ reading' = [reading EXCEPT ![l] = m]
                /\ HandOver(n, m)
           ELSE UNCHANGED <<ack, reading, delivered, toSend>>
    /\ wire' = [wire EXCEPT ![l] = Tail(@)]
    /\ UNCHANGED <<channels, writers, lock, todo, sent>>

FaultyLock(l) ==                \* takes the lock before it has a message
    /\ lock[l[2]] = NoNode
    /\ lock' = [lock EXCEPT ![l[2]] = l[1]]
    /\ todo' = [todo EXCEPT ![l[2]] = channels[l[2]]]
    /\ UNCHANGED <<toSend, ack, channels, writers, wire, reading, sent, delivered>>

Lock(l) ==
    /\ reading[l] # NoMessage /\ lock[l[2]] = NoNode
    /\ lock' = [lock EXCEPT ![l[2]] = l[1]]
    /\ todo' = [todo EXCEPT ![l[2]] = channels[l[2]]]
    /\ UNCHANGED <<toSend, ack, channels, writers, wire, reading, sent, delivered>>

FaultyForward(l) ==             \* to the first channel only
    /\ lock[l[2]] = l[1] /\ todo[l[2]] # <<>>
    /\ LET out == <<l[2], Head(todo[l[2]])>>
       IN  HasRoom(out) /\ wire' = [wire EXCEPT ![out] = Append(@, reading[l])]
    /\ todo' = [todo EXCEPT ![l[2]] = <<>>]
    /\ UNCHANGED <<toSend, ack, channels, writers, reading, lock, sent, delivered>>

Forward(l) ==
    /\ lock[l[2]] = l[1] /\ todo[l[2]] # <<>>
    /\ LET out == <<l[2], Head(todo[l[2]])>>
       IN  HasRoom(out) /\ wire' = [wire EXCEPT ![out] = Append(@, reading[l])]
    /\ todo' = [todo EXCEPT ![l[2]] = Tail(@)]
    /\ UNCHANGED <<toSend, ack, channels, writers, reading, lock, sent, delivered>>

Unlock(l) ==
    /\ lock[l[2]] = l[1] /\ todo[l[2]] = <<>>
    /\ lock' = [lock EXCEPT ![l[2]] = NoNode]
    /\ reading' = [reading EXCEPT ![l] = NoMessage]
    /\ UNCHANGED <<toSend, ack, channels, writers, wire, todo, sent, delivered>>

-----------------------------------------------------------------------------

NetworkStep ==
    \/ \E n, to \in Nodes : Connect(n, to)
    \/ \E n \in Nodes, k \in Kinds : Mark(n, k) \/ Broadcast(n, k)
    \/ \E l \in Links : Receive(l) \/ Lock(l) \/ Forward(l) \/ Unlock(l)
    \/ \E l \in Links, m \in Messages : Write(l, m)

Next == NetworkStep \/ \E m \in Messages : Send(m)

Spec == Init /\ [][Next]_vars

\* While any thread of the network can go on, one of them does.
FairSpec == Spec /\ WF_vars(NetworkStep)

-----------------------------------------------------------------------------
(* Properties                                                              *)

Promise == INSTANCE ReliableBroadcast

\* ack: whatever the connections, their order and the kinds of messages, each
\* other node hands a message on at most once, and its own never.
BroadcastImplemented == Promise!BroadcastSpec

\* ack is noted before anything is written: every message a node writes, is
\* about to write or forwards is in its ack, and what is in ack came from this
\* node or has been handed over.
SeenExact ==
    /\ \A l \in Links :
          /\ \A m \in Messages : writers[l][m] > 0 => m \in ack[l[1]]
          /\ \A i \in DOMAIN wire[l] : wire[l][i] \in ack[l[1]]
          /\ reading[l] # NoMessage => reading[l] \in ack[l[2]]
    /\ \A n \in Nodes, m \in Messages :
          m \in ack[n] => Origin[m] = n \/ delivered[n][m] = 1

\* p2pnetwork.rs:40-42: what is written to the channels is broadcast to the
\* network.  Every other node gets it, over several hops too, provided that the
\* connections were there before; and the flood ends: although messages go back
\* to where they came from and some are broadcast a second time, nothing stays
\* in the connections for ever.
EveryoneReached ==
    /\ \A m \in Messages :
          [](m \notin sent /\ (\A n \in Nodes : Created(n)) =>
              [](m \in sent => <>(\A n \in Nodes \ {Origin[m]} : delivered[n][m] > 0)))
    /\ <>[](\A l \in Links : /\ wire[l] = <<>> /\ reading[l] = NoMessage
                             /\ \A m \in Messages : writers[l][m] = 0)

=============================================================================
