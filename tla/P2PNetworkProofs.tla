-------------------------- MODULE P2PNetworkProofs --------------------------
(***************************************************************************)
(* Proofs about the network, for every graph of neighbours, every capacity *)
(* and every set of messages of any kinds and origins.                     *)
(***************************************************************************)
EXTENDS P2PNetwork, TLAPS

\* The origin of a message has marked it before anybody else sees it.
OriginFirst == \A n \in Nodes : \A m \in ack[n] : m \in sent /\ m \in ack[Origin[m]]

\* What waits to be broadcast is the node's own or has been seen.
QueuedKnown ==
    \A q \in Nodes \X Kinds : \A i \in DOMAIN toSend[q] :
        /\ toSend[q][i] \in sent
        /\ Origin[toSend[q][i]] = q[1] \/ toSend[q][i] \in ack[q[1]]

HandedOnce ==
    \A n \in Nodes, m \in Messages :
        delivered[n][m] = IF m \in ack[n] /\ Origin[m] # n THEN 1 ELSE 0

\* Whoever has the lock of the channels has a message to forward.
LockHasMessage == \A l \in Links : lock[l[2]] = l[1] => reading[l] # NoMessage

IInv ==
    /\ P2PTypeOK
    /\ SeenExact
    /\ OriginFirst
    /\ QueuedKnown
    /\ HandedOnce
    /\ LockHasMessage

-----------------------------------------------------------------------------
(* The steps                                                               *)

LEMMA LinkEnds ==
    ASSUME NEW l \in Links
    PROVE  l[1] \in Nodes /\ l[2] \in Nodes /\ l = <<l[1], l[2]>> /\ l[1] # NoNode
  BY NetworkAssumption DEF Links

LEMMA AppendElements ==
    ASSUME NEW S, NEW s \in Seq(S), NEW x \in S
    PROVE  /\ Append(s, x) \in Seq(S)
           /\ \A i \in DOMAIN Append(s, x) :
                 Append(s, x)[i] = x \/ (i \in DOMAIN s /\ Append(s, x)[i] = s[i])
  OBVIOUS

LEMMA TailElements ==
    ASSUME NEW S, NEW s \in Seq(S), s # <<>>
    PROVE  /\ Tail(s) \in Seq(S)
           /\ 1 \in DOMAIN s /\ Head(s) = s[1] /\ Head(s) \in S
           /\ \A i \in DOMAIN Tail(s) : i + 1 \in DOMAIN s /\ Tail(s)[i] = s[i + 1]
  OBVIOUS

\* A known message is put in a channel to broadcast it.
LEMMA Enqueued ==
    ASSUME P2PTypeOK, QueuedKnown, NEW n \in Nodes, NEW k \in Kinds, NEW m \in Messages,
           toSend' = [toSend EXCEPT ![<<n, k>>] = Append(@, m)],
           sent \subseteq sent', \A a \in Nodes : ack[a] \subseteq ack'[a],
           m \in sent', Origin[m] = n \/ m \in ack'[n]
    PROVE  QueuedKnown' /\ toSend' \in [Nodes \X Kinds -> Seq(Messages)]
  <1> DEFINE p == <<n, k>>
  <1>1. /\ p \in Nodes \X Kinds /\ p[1] = n
        /\ toSend[p] \in Seq(Messages)
        /\ toSend'[p] = Append(toSend[p], m)
        /\ \A q \in Nodes \X Kinds : q # p => toSend'[q] = toSend[q]
    BY DEF P2PTypeOK
  <1>2. toSend' \in [Nodes \X Kinds -> Seq(Messages)]
    BY <1>1, AppendElements DEF P2PTypeOK
  <1>3. QueuedKnown'
    <2> SUFFICES ASSUME NEW q \in Nodes \X Kinds, NEW i \in DOMAIN toSend'[q]
                 PROVE  /\ toSend'[q][i] \in sent'
                        /\ Origin[toSend'[q][i]] = q[1] \/ toSend'[q][i] \in ack'[q[1]]
      BY DEF QueuedKnown
    <2>1. \/ q = p /\ toSend'[q][i] = m
          \/ i \in DOMAIN toSend[q] /\ toSend'[q][i] = toSend[q][i]
      <3>1. CASE q = p
        <4>1. i \in DOMAIN Append(toSend[p], m)
          BY <1>1, <3>1
        <4> QED
          BY <1>1, <3>1, <4>1, AppendElements
      <3>2. CASE q # p
        BY <1>1, <3>2
      <3> QED
        BY <3>1, <3>2
    <2>2. q[1] \in Nodes
      OBVIOUS
    <2> QED
      BY <1>1, <2>1, <2>2 DEF QueuedKnown
  <1> QED
    BY <1>2, <1>3

LEMMA InitIInv == Init => IInv
  <1> SUFFICES ASSUME Init PROVE IInv
    OBVIOUS
  <1>1. P2PTypeOK
    BY DEF Init, P2PTypeOK
  <1>2. SeenExact /\ OriginFirst /\ QueuedKnown /\ HandedOnce
    BY DEF Init, SeenExact, OriginFirst, QueuedKnown, HandedOnce
  <1>3. LockHasMessage
    BY LinkEnds DEF Init, LockHasMessage
  <1> QED
    BY <1>1, <1>2, <1>3 DEF IInv

LEMMA ConnectStep == ASSUME IInv, NEW n \in Nodes, NEW to \in Nodes, Connect(n, to) PROVE IInv'
  <1>1. P2PTypeOK'
    BY DEF IInv, Connect, P2PTypeOK
  <1> QED
    BY <1>1 DEF IInv, Connect, SeenExact, OriginFirst, QueuedKnown, HandedOnce, LockHasMessage

LEMMA SendStep == ASSUME IInv, NEW m \in Messages, Send(m) PROVE IInv'
  <1>1. /\ Origin[m] \in Nodes /\ Kind[m] \in Kinds
        /\ toSend' = [toSend EXCEPT ![<<Origin[m], Kind[m]>>] = Append(@, m)]
        /\ sent' = sent \cup {m}
        /\ UNCHANGED <<ack, channels, writers, wire, reading, lock, todo, delivered>>
    BY NetworkAssumption DEF Send, Kinds
  <1>2. QueuedKnown' /\ toSend' \in [Nodes \X Kinds -> Seq(Messages)]
    BY <1>1, Enqueued DEF IInv
  <1>3. P2PTypeOK'
    BY <1>1, <1>2 DEF IInv, P2PTypeOK
  <1>4. SeenExact' /\ OriginFirst' /\ HandedOnce' /\ LockHasMessage'
    BY <1>1 DEF IInv, SeenExact, OriginFirst, HandedOnce, LockHasMessage
  <1> QED
    BY <1>2, <1>3, <1>4 DEF IInv

LEMMA MarkStep == ASSUME IInv, NEW n \in Nodes, NEW k \in Kinds, Mark(n, k) PROVE IInv'
  <1> DEFINE q == <<n, k>>
             m == Head(toSend[q])
  <1>1. /\ m \in Messages /\ m \notin ack[n] /\ m \in sent /\ Origin[m] = n
    <2>1. q \in Nodes \X Kinds /\ q[1] = n /\ toSend[q] \in Seq(Messages)
          /\ toSend[q] # <<>> /\ m \notin ack[n]
      BY DEF Mark, IInv, P2PTypeOK
    <2>2. 1 \in DOMAIN toSend[q] /\ m = toSend[q][1]
      BY <2>1
    <2> QED
      BY <2>1, <2>2 DEF IInv, QueuedKnown
  <1>2. /\ ack' = [ack EXCEPT ![n] = @ \cup {m}]
        /\ UNCHANGED <<toSend, channels, writers, wire, reading, lock, todo, sent, delivered>>
    BY DEF Mark
  <1> HIDE DEF m
  <1>3. P2PTypeOK'
    BY <1>1, <1>2 DEF IInv, P2PTypeOK
  <1>4. \A a \in Nodes : ack[a] \subseteq ack'[a] /\ (a # n => ack'[a] = ack[a])
    BY <1>2 DEF IInv, P2PTypeOK
  <1>5. HandedOnce'
    BY <1>1, <1>2 DEF IInv, P2PTypeOK, HandedOnce
  <1>6. OriginFirst'
    BY <1>1, <1>2, NetworkAssumption DEF IInv, P2PTypeOK, OriginFirst
  <1>7. SeenExact'
    BY <1>1, <1>2, LinkEnds DEF IInv, P2PTypeOK, SeenExact
  <1>8. QueuedKnown' /\ LockHasMessage'
    BY <1>2, <1>4 DEF IInv, QueuedKnown, LockHasMessage
  <1> QED
    BY <1>3, <1>5, <1>6, <1>7, <1>8 DEF IInv

LEMMA BroadcastStep ==
    ASSUME IInv, NEW n \in Nodes, NEW k \in Kinds, Broadcast(n, k)
    PROVE  IInv'
  <1> DEFINE q == <<n, k>>
             m == Head(toSend[q])
             s == toSend[q]
  <1>1. /\ q \in Nodes \X Kinds /\ s \in Seq(Messages) /\ s # <<>>
        /\ m \in ack[n] /\ m \in Messages
    BY TailElements DEF Broadcast, IInv, P2PTypeOK
  <1>2. /\ toSend' = [toSend EXCEPT ![q] = Tail(@)]
        /\ writers' = [l \in Links |-> IF l[1] = n /\ l[2] \in Connected(n)
                                       THEN [writers[l] EXCEPT ![m] = @ + 1]
                                       ELSE writers[l]]
        /\ UNCHANGED <<ack, channels, wire, reading, lock, todo, sent, delivered>>
    BY DEF Broadcast
  <1>3. toSend' \in [Nodes \X Kinds -> Seq(Messages)]
    BY <1>1, <1>2, TailElements DEF IInv, P2PTypeOK
  <1>4. QueuedKnown'
    <2> SUFFICES ASSUME NEW p \in Nodes \X Kinds, NEW i \in DOMAIN toSend'[p]
                 PROVE  /\ toSend'[p][i] \in sent
                        /\ Origin[toSend'[p][i]] = p[1] \/ toSend'[p][i] \in ack[p[1]]
      BY <1>2 DEF QueuedKnown
    <2>1. CASE p = q
      <3>1. toSend'[p] = Tail(s) /\ toSend[p] = s
        BY <1>1, <1>2, <2>1 DEF IInv, P2PTypeOK
      <3>2. i + 1 \in DOMAIN s /\ toSend'[p][i] = s[i + 1]
        BY <1>1, <3>1, TailElements
      <3> QED
        BY <3>1, <3>2 DEF IInv, QueuedKnown
    <2>2. CASE p # q
      BY <1>1, <1>2, <2>2 DEF IInv, P2PTypeOK, QueuedKnown
    <2> QED
      BY <2>1, <2>2
  <1> HIDE DEF m
  <1>5. writers' \in [Links -> [Messages -> Nat]]
    BY <1>1, <1>2 DEF IInv, P2PTypeOK
  <1>6. P2PTypeOK'
    BY <1>2, <1>3, <1>5 DEF IInv, P2PTypeOK
  <1>7. SeenExact'
    BY <1>1, <1>2 DEF IInv, P2PTypeOK, SeenExact
  <1>8. OriginFirst' /\ HandedOnce' /\ LockHasMessage'
    BY <1>2 DEF IInv, OriginFirst, HandedOnce, LockHasMessage
  <1> QED
    BY <1>4, <1>6, <1>7, <1>8 DEF IInv

\* A message that its writer has seen is appended to a connection.
LEMMA Carried ==
    ASSUME P2PTypeOK, NEW out, NEW m \in Messages,
           \A l \in Links : \A i \in DOMAIN wire[l] : wire[l][i] \in ack[l[1]],
           m \in ack[out[1]],
           wire' = [wire EXCEPT ![out] = Append(@, m)]
    PROVE  /\ wire' \in [Links -> Seq(Messages)]
           /\ \A l \in Links : \A i \in DOMAIN wire'[l] : wire'[l][i] \in ack[l[1]]
  <1>1. \A l \in Links : /\ wire[l] \in Seq(Messages)
                         /\ wire'[l] = IF l = out THEN Append(wire[l], m) ELSE wire[l]
    BY DEF P2PTypeOK
  <1>2. wire' \in [Links -> Seq(Messages)]
    BY <1>1, AppendElements DEF P2PTypeOK
  <1>3. ASSUME NEW l \in Links, NEW i \in DOMAIN wire'[l]
        PROVE  wire'[l][i] \in ack[l[1]]
    <2>1. \/ l = out /\ wire'[l][i] = m
          \/ i \in DOMAIN wire[l] /\ wire'[l][i] = wire[l][i]
      BY <1>1, <1>3, AppendElements
    <2> QED
      BY <2>1
  <1> QED
    BY <1>2, <1>3

LEMMA WriteStep ==
    ASSUME IInv, NEW l \in Links, NEW m \in Messages, Write(l, m)
    PROVE  IInv'
  <1>1. /\ writers[l][m] > 0
        /\ writers' = [writers EXCEPT ![l][m] = @ - 1]
        /\ wire' = [wire EXCEPT ![l] = Append(@, m)]
        /\ UNCHANGED <<toSend, ack, channels, reading, lock, todo, sent, delivered>>
    BY DEF Write
  <1>2. /\ wire' \in [Links -> Seq(Messages)]
        /\ \A c \in Links : \A i \in DOMAIN wire'[c] : wire'[c][i] \in ack[c[1]]
    BY <1>1, Carried DEF IInv, SeenExact
  <1>3. /\ writers' \in [Links -> [Messages -> Nat]]
        /\ \A c \in Links, x \in Messages : writers'[c][x] > 0 => writers[c][x] > 0
    BY <1>1 DEF IInv, P2PTypeOK
  <1>4. P2PTypeOK'
    BY <1>1, <1>2, <1>3 DEF IInv, P2PTypeOK
  <1>5. SeenExact'
    BY <1>1, <1>2, <1>3 DEF IInv, SeenExact
  <1>6. QueuedKnown' /\ OriginFirst' /\ HandedOnce' /\ LockHasMessage'
    BY <1>1 DEF IInv, QueuedKnown, OriginFirst, HandedOnce, LockHasMessage
  <1> QED
    BY <1>4, <1>5, <1>6 DEF IInv

\* What a thread takes from its connection, and what Deliver needs of it.
LEMMA Taken ==
    ASSUME IInv, NEW l \in Links, wire[l] # <<>>, NEW m, m = Head(wire[l])
    PROVE  /\ m \in Messages /\ m \in sent /\ m \in ack[l[1]]
           /\ m \notin ack[l[2]] => Origin[m] # l[2] /\ delivered[l[2]][m] = 0
           /\ Tail(wire[l]) \in Seq(Messages)
           /\ \A i \in DOMAIN Tail(wire[l]) : Tail(wire[l])[i] \in ack[l[1]]
  <1>1. l[1] \in Nodes /\ l[2] \in Nodes /\ wire[l] \in Seq(Messages)
    BY LinkEnds DEF IInv, P2PTypeOK
  <1>2. m \in Messages /\ m \in ack[l[1]]
    BY <1>1, TailElements DEF IInv, SeenExact
  <1>3. m \in sent /\ m \in ack[Origin[m]]
    BY <1>1, <1>2 DEF IInv, OriginFirst
  <1>4. m \notin ack[l[2]] => Origin[m] # l[2] /\ delivered[l[2]][m] = 0
    BY <1>1, <1>2, <1>3 DEF IInv, HandedOnce
  <1>5. /\ Tail(wire[l]) \in Seq(Messages)
        /\ \A i \in DOMAIN Tail(wire[l]) : Tail(wire[l])[i] \in ack[l[1]]
    BY <1>1, TailElements DEF IInv, SeenExact
  <1> QED
    BY <1>2, <1>3, <1>4, <1>5

LEMMA ReceiveStep == ASSUME IInv, NEW l \in Links, Receive(l) PROVE IInv'
  <1> DEFINE n == l[2]
             m == Head(wire[l])
  <1>1. /\ wire[l] # <<>> /\ reading[l] = NoMessage
        /\ wire' = [wire EXCEPT ![l] = Tail(@)]
        /\ UNCHANGED <<channels, writers, lock, todo, sent>>
    BY DEF Receive
  <1>2. /\ n \in Nodes /\ m \in Messages /\ m \in sent /\ m \in ack[l[1]]
        /\ m \notin ack[n] => Origin[m] # n /\ delivered[n][m] = 0
    BY <1>1, LinkEnds, Taken
  <1>3. /\ wire' \in [Links -> Seq(Messages)]
        /\ \A c \in Links : \A i \in DOMAIN wire'[c] : wire'[c][i] \in ack[c[1]]
    <2>1. /\ Tail(wire[l]) \in Seq(Messages)
          /\ \A i \in DOMAIN Tail(wire[l]) : Tail(wire[l])[i] \in ack[l[1]]
      BY <1>1, Taken
    <2>2. \A c \in Links : wire'[c] = IF c = l THEN Tail(wire[c]) ELSE wire[c]
      BY <1>1 DEF IInv, P2PTypeOK
    <2>3. wire' \in [Links -> Seq(Messages)]
      BY <1>1, <2>1 DEF IInv, P2PTypeOK
    <2> QED
      BY <2>1, <2>2, <2>3 DEF IInv, SeenExact
  <1>4. CASE m \in ack[n]
    <2>1. UNCHANGED <<ack, reading, delivered, toSend>>
      BY <1>4 DEF Receive, Fresh
    <2>2. P2PTypeOK'
      BY <1>1, <1>3, <2>1 DEF IInv, P2PTypeOK
    <2>3. SeenExact'
      BY <1>1, <1>3, <2>1 DEF IInv, SeenExact
    <2>4. OriginFirst' /\ QueuedKnown' /\ HandedOnce' /\ LockHasMessage'
      BY <1>1, <2>1 DEF IInv, OriginFirst, QueuedKnown, HandedOnce, LockHasMessage
    <2> QED
      BY <2>2, <2>3, <2>4 DEF IInv
  <1>5. CASE m \notin ack[n]
    <2>1. /\ ack' = [ack EXCEPT ![n] = @ \cup {m}]
          /\ reading' = [reading EXCEPT ![l] = m]
          /\ delivered' = [delivered EXCEPT ![n][m] = @ + 1]
          /\ toSend' = toSend \/ toSend' = [toSend EXCEPT ![<<n, Kind[m]>>] = Append(@, m)]
      BY <1>5 DEF Receive, Fresh, HandOver
    <2>2. /\ m # NoMessage /\ Kind[m] \in Kinds
          /\ Origin[m] # n /\ delivered[n][m] = 0
      BY <1>2, <1>5, NetworkAssumption DEF Kinds
    <2> HIDE DEF m
    <2>3. /\ \A a \in Nodes : ack[a] \subseteq ack'[a] /\ ack'[a] \subseteq ack[a] \cup {m}
          /\ m \in ack'[n]
          /\ \A a \in Nodes : a # n => ack'[a] = ack[a]
      BY <1>2, <2>1 DEF IInv, P2PTypeOK
    <2>4. QueuedKnown' /\ toSend' \in [Nodes \X Kinds -> Seq(Messages)]
      <3>1. CASE toSend' = toSend
        BY <1>1, <2>3, <3>1 DEF IInv, P2PTypeOK, QueuedKnown
      <3>2. CASE toSend' = [toSend EXCEPT ![<<n, Kind[m]>>] = Append(@, m)]
        BY <1>1, <1>2, <2>2, <2>3, <3>2, Enqueued DEF IInv
      <3> QED
        BY <2>1, <3>1, <3>2
    <2>5. P2PTypeOK'
      <3>1. ack' \in [Nodes -> SUBSET Messages] /\ reading' \in [Links -> Messages \cup {NoMessage}]
        BY <1>2, <2>1 DEF IInv, P2PTypeOK
      <3>2. delivered' \in [Nodes -> [Messages -> Nat]]
        BY <1>2, <2>1 DEF IInv, P2PTypeOK
      <3> QED
        BY <1>1, <1>3, <2>4, <3>1, <3>2 DEF IInv, P2PTypeOK
    <2>6. HandedOnce'
      BY <1>2, <1>5, <2>1, <2>2 DEF IInv, P2PTypeOK, HandedOnce
    <2>7. OriginFirst'
      <3> SUFFICES ASSUME NEW a \in Nodes, NEW x \in ack'[a]
                   PROVE  x \in sent /\ x \in ack'[Origin[x]]
        BY <1>1 DEF OriginFirst
      <3>1. \E c \in Nodes : x \in ack[c]
        BY <1>2, <2>3, LinkEnds
      <3>2. x \in Messages /\ x \in sent /\ x \in ack[Origin[x]]
        BY <3>1 DEF IInv, P2PTypeOK, OriginFirst
      <3> QED
        BY <2>3, <3>2, NetworkAssumption
    <2>8. SeenExact'
      <3>1. \A c \in Links : /\ \A x \in Messages : writers'[c][x] > 0 => x \in ack'[c[1]]
                             /\ \A i \in DOMAIN wire'[c] : wire'[c][i] \in ack'[c[1]]
        BY <1>1, <1>3, <2>3, LinkEnds DEF IInv, SeenExact
      <3>2. \A c \in Links : reading'[c] # NoMessage => reading'[c] \in ack'[c[2]]
        BY <2>1, <2>3, LinkEnds DEF IInv, P2PTypeOK, SeenExact
      <3>3. \A a \in Nodes, x \in Messages :
                x \in ack'[a] => Origin[x] = a \/ delivered'[a][x] = 1
        BY <2>6 DEF HandedOnce
      <3> QED
        BY <3>1, <3>2, <3>3 DEF SeenExact
    <2>9. LockHasMessage'
      BY <1>1, <2>1, <2>2 DEF IInv, P2PTypeOK, LockHasMessage
    <2> QED
      BY <2>4, <2>5, <2>6, <2>7, <2>8, <2>9 DEF IInv
  <1> QED
    BY <1>4, <1>5

LEMMA LockStep == ASSUME IInv, NEW l \in Links, Lock(l) PROVE IInv'
  <1>1. /\ reading[l] # NoMessage /\ l[1] \in Nodes /\ l[2] \in Nodes
        /\ lock' = [lock EXCEPT ![l[2]] = l[1]]
        /\ todo' = [todo EXCEPT ![l[2]] = channels[l[2]]]
        /\ UNCHANGED <<toSend, ack, channels, writers, wire, reading, sent, delivered>>
    BY LinkEnds DEF Lock
  <1>2. P2PTypeOK'
    BY <1>1 DEF IInv, P2PTypeOK
  <1>3. LockHasMessage'
    <2> SUFFICES ASSUME NEW c \in Links, lock'[c[2]] = c[1]
                 PROVE  reading[c] # NoMessage
      BY <1>1 DEF LockHasMessage
    <2>1. CASE c[2] = l[2]
      <3>1. c[1] = l[1]
        BY <1>1, <2>1 DEF IInv, P2PTypeOK
      <3>2. c = l
        BY <2>1, <3>1, LinkEnds
      <3> QED
        BY <1>1, <3>2
    <2>2. CASE c[2] # l[2]
      BY <1>1, <2>2, LinkEnds DEF IInv, P2PTypeOK, LockHasMessage
    <2> QED
      BY <2>1, <2>2
  <1>4. SeenExact' /\ OriginFirst' /\ QueuedKnown' /\ HandedOnce'
    BY <1>1 DEF IInv, SeenExact, OriginFirst, QueuedKnown, HandedOnce
  <1> QED
    BY <1>2, <1>3, <1>4 DEF IInv

LEMMA ForwardStep == ASSUME IInv, NEW l \in Links, Forward(l) PROVE IInv'
  <1> DEFINE out == <<l[2], Head(todo[l[2]])>>
             m == reading[l]
  <1>1. /\ lock[l[2]] = l[1] /\ todo[l[2]] # <<>> /\ l[2] \in Nodes
        /\ wire' = [wire EXCEPT ![out] = Append(@, m)]
        /\ todo' = [todo EXCEPT ![l[2]] = Tail(@)]
        /\ UNCHANGED <<toSend, ack, channels, writers, reading, lock, sent, delivered>>
    BY LinkEnds DEF Forward
  <1>2. m \in Messages /\ m \in ack[l[2]]
    BY <1>1 DEF IInv, P2PTypeOK, SeenExact, LockHasMessage
  <1>3. /\ wire' \in [Links -> Seq(Messages)]
        /\ \A c \in Links : \A i \in DOMAIN wire'[c] : wire'[c][i] \in ack[c[1]]
    <2>1. out[1] = l[2]
      OBVIOUS
    <2> HIDE DEF out, m
    <2> QED
      BY <1>1, <1>2, <2>1, Carried DEF IInv, SeenExact
  <1>4. todo' \in [Nodes -> Seq(Nodes)]
    BY <1>1, TailElements DEF IInv, P2PTypeOK
  <1>5. P2PTypeOK'
    BY <1>1, <1>3, <1>4 DEF IInv, P2PTypeOK
  <1>6. SeenExact'
    BY <1>1, <1>3 DEF IInv, SeenExact
  <1>7. OriginFirst' /\ QueuedKnown' /\ HandedOnce' /\ LockHasMessage'
    BY <1>1 DEF IInv, OriginFirst, QueuedKnown, HandedOnce, LockHasMessage
  <1> QED
    BY <1>5, <1>6, <1>7 DEF IInv

LEMMA UnlockStep == ASSUME IInv, NEW l \in Links, Unlock(l) PROVE IInv'
  <1>1. /\ l[2] \in Nodes
        /\ lock' = [lock EXCEPT ![l[2]] = NoNode]
        /\ reading' = [reading EXCEPT ![l] = NoMessage]
        /\ UNCHANGED <<toSend, ack, channels, writers, wire, todo, sent, delivered>>
    BY LinkEnds DEF Unlock
  <1>2. P2PTypeOK'
    BY <1>1 DEF IInv, P2PTypeOK
  <1>3. LockHasMessage'
    <2> SUFFICES ASSUME NEW c \in Links, lock'[c[2]] = c[1]
                 PROVE  reading'[c] # NoMessage
      BY DEF LockHasMessage
    <2>1. c[2] # l[2] /\ lock[c[2]] = c[1]
      BY <1>1, LinkEnds DEF IInv, P2PTypeOK
    <2> QED
      BY <1>1, <2>1 DEF IInv, P2PTypeOK, LockHasMessage
  <1>4. SeenExact'
    BY <1>1 DEF IInv, P2PTypeOK, SeenExact
  <1>5. OriginFirst' /\ QueuedKnown' /\ HandedOnce'
    BY <1>1 DEF IInv, OriginFirst, QueuedKnown, HandedOnce
  <1> QED
    BY <1>2, <1>3, <1>4, <1>5 DEF IInv

LEMMA Inductive == Spec => []IInv
  <1>1. Init => IInv
    BY InitIInv
  <1>2. IInv /\ [Next]_vars => IInv'
    <2>1. ASSUME IInv, UNCHANGED vars PROVE IInv'
      <3>1. P2PTypeOK'
        BY <2>1 DEF vars, IInv, P2PTypeOK
      <3> QED
        BY <2>1, <3>1 DEF vars, IInv, SeenExact, OriginFirst, QueuedKnown, HandedOnce,
                          LockHasMessage
    <2> QED
      BY <2>1, ConnectStep, SendStep, MarkStep, BroadcastStep, WriteStep, ReceiveStep,
         LockStep, ForwardStep, UnlockStep DEF Next, NetworkStep
  <1> QED
    BY <1>1, <1>2, PTL DEF Spec

-----------------------------------------------------------------------------
(* The theorems                                                            *)

\* The network's state has its types in every graph of neighbours.
THEOREM P2PTypeCorrect == Spec => []P2PTypeOK
  <1>1. IInv => P2PTypeOK
    BY DEF IInv
  <1> QED
    BY <1>1, Inductive, PTL

\* A node has noted every message it writes, and ack holds exactly its own and
\* those handed over.
THEOREM SeenCorrect == Spec => []SeenExact
  <1>1. IInv => SeenExact
    BY DEF IInv
  <1> QED
    BY <1>1, Inductive, PTL

\* In every graph of neighbours the flood hands each message over once at most,
\* and never to its origin.
THEOREM BroadcastCorrect == Spec => BroadcastImplemented
  <1>1. Init => Promise!BroadcastInit
    BY DEF Init, Promise!BroadcastInit
  <1>2. IInv /\ [Next]_vars => [Promise!BroadcastNext]_<<sent, delivered>>
    <2> SUFFICES ASSUME IInv, [Next]_vars, ~UNCHANGED <<sent, delivered>>
                 PROVE  Promise!BroadcastNext
      OBVIOUS
    <2>1. ASSUME NEW m \in Messages, Send(m)
          PROVE  Promise!Give(m)
      BY <2>1 DEF Send, Promise!Give
    <2>2. ASSUME NEW l \in Links, Receive(l)
          PROVE  /\ Promise!Deliver(l[2], Head(wire[l]))
                 /\ l[2] \in Nodes /\ Head(wire[l]) \in Messages
      <3> DEFINE n == l[2]
                 m == Head(wire[l])
      <3>1. wire[l] # <<>> /\ sent' = sent
        BY <2>2 DEF Receive
      <3>2. m \notin ack[n] /\ delivered' = [delivered EXCEPT ![n][m] = @ + 1]
        BY <2>2, <3>1 DEF Receive, Fresh, HandOver
      <3>3. /\ n \in Nodes /\ m \in Messages /\ m \in sent
            /\ Origin[m] # n /\ delivered[n][m] = 0
        BY <3>1, <3>2, Taken, LinkEnds
      <3> HIDE DEF m, n
      <3>4. delivered' = [delivered EXCEPT ![n][m] = 1]
        BY <3>2, <3>3 DEF IInv, P2PTypeOK
      <3>5. Promise!Deliver(n, m)
        BY <3>1, <3>3, <3>4 DEF Promise!Deliver
      <3> QED
        BY <3>3, <3>5 DEF m, n
    <2>3. \/ \E m \in Messages : Send(m)
          \/ \E l \in Links : Receive(l)
      BY DEF Next, NetworkStep, vars, Connect, Mark, Broadcast, Write, Lock, Forward, Unlock
    <2> QED
      BY <2>1, <2>2, <2>3 DEF Promise!BroadcastNext
  <1> QED
    BY <1>1, <1>2, Inductive, PTL DEF Spec, BroadcastImplemented, Promise!BroadcastSpec

=============================================================================
