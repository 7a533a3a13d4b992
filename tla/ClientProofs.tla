---------------------------- MODULE ClientProofs ----------------------------
(***************************************************************************)
(* Proofs about a session of the client and its children, for every        *)
(* capacity of the pipes, every number of things begun, every text and     *)
(* every balance.                                                          *)
(*                                                                         *)
(* The order of what goes through the pipes is the hard part.  A pipe      *)
(* carries lines of several streams: the transactions of the bot, those of *)
(* the user, and the rounds of status requests.  InOrder says of a pipe    *)
(* and a stream that its lines of the stream are a part of the stream      *)
(* without a gap.  A stream is in order when the parts in the pipes that   *)
(* follow each other on its way fit together, down to its end.             *)
(***************************************************************************)
EXTENDS Client, SequenceTheorems, TLAPS

Streams == Makers \cup {"status"}
StatusKinds == {StatusRound[i] : i \in DOMAIN StatusRound}

\* Which of the requests of a round the request number q is, counted from 0.
Place(q) == (q % Asked) + 1

Mine(line, st) ==
    IF st = "status" THEN line.kind \in StatusKinds \cup Panels ELSE line.by = st

Nth(line, st, q) ==
    IF st = "status"
    THEN line.kind \in {StatusRound[Place(q)], ReplyTo[StatusRound[Place(q)]]}
    ELSE line.n = q

\* g counts the lines of the stream before each place of the pipe.
Numbers(g, s, st, lo, hi) ==
    /\ g[1] = lo /\ g[Len(s) + 1] = hi
    /\ \A i \in 1..(Len(s) + 1) : g[i] <= hi
    /\ \A i \in 1..Len(s) :
          /\ Mine(s[i], st) => Nth(s[i], st, g[i]) /\ g[i + 1] = g[i] + 1
          /\ ~Mine(s[i], st) => g[i + 1] = g[i]

\* The lines of the stream in s are those from number lo to before number hi.
InOrder(s, st, lo, hi) == \E g \in [1..(Len(s) + 1) -> Nat] : Numbers(g, s, st, lo, hi)

-----------------------------------------------------------------------------
(* The inductive invariant                                                 *)

On(s) == {s[i] : i \in 1..Len(s)}

NodeKinds == StatusKinds \cup {"Initialize", "Quit", "RequestStateSerialization"}
WalletKinds == {"Initialize", "Quit", "GetUserInfo"}

\* What is said on each pipe, and by whom.
Said(p, line) ==
    CASE p = "nodeIn" ->
             \/ line.kind \in NodeKinds /\ line.by = "client"
             \/ line.kind = "PublishTx" /\ line.by \in Makers
      [] p = "walletIn" ->
             \/ line.kind \in WalletKinds /\ line.by = "client"
             \/ line.kind = "SignRequest" /\ line.by \in Makers
      [] p = "nodeOut" ->
             /\ line.kind \in {ReplyTo[k] : k \in NodeKinds} \cup {"PublishTxDone", "Notify"}
             /\ line.kind = "AddressBalance" => line.n \in Balances
      [] p = "walletOut" ->
             \/ line.kind \in {ReplyTo[k] : k \in WalletKinds} /\ line.by = "client"
             \/ line.kind = "SignResponse" /\ line.by \in Makers
      [] p = "nodeErr" -> line.kind = "Notify"

PipesSay == \A p \in Pipes : \A line \in On(pipe[p]) : Said(p, line)

\* The relay reads only when it has nothing to publish.
RelayHolds ==
    /\ signed = Nothing \/ (signed.kind = "SignResponse" /\ signed.by \in Makers)
    /\ pc["relay"] = "read" => signed = Nothing
    /\ pc["relay"] = "publish" => signed # Nothing

EarlyKinds == {"Initialize", "GetUserInfo", "Initialized", "UserInfo", "Notify"}
Early(line) == line.by = "client" /\ line.kind \in EarlyKinds

Starting == pc["main"] \in {"ask", "await"}

\* A child that is not initialized has been asked to initialize, or nothing.
NewChild(c, at) ==
    /\ stage = at
    /\ \/ pc["main"] = "ask" /\ pipe[In[c]] = <<>>
       \/ pc["main"] = "await" /\ pipe[In[c]] = <<Line("Initialize")>>

\* The handshake: no thread has started, and no request overtakes Initialize.
HandshakeHolds ==
    /\ Starting =>
          /\ \A t \in Threads \ {"main"} : pc[t] = "new"
          /\ \A p \in Pipes : \A line \in On(pipe[p]) : Early(line)
    /\ \A c \in Children : \A line \in On(pipe[Out[c]]) :
          line.kind = "Initialized" => child[c] # "new"
    /\ child["node"] = "new" => NewChild("node", 1)
    /\ child["wallet"] = "new" =>
          \/ NewChild("wallet", 2)
          \/ stage = 1 /\ Starting /\ pipe["walletIn"] = <<>>

\* What ends a thread or a child comes from the user's escape key, but for the
\* node, which a poisoned lock or a sender that is no key may end.
EndsAfterQuit ==
    /\ app.shouldQuit <=> pc["ui"] = "ended"
    /\ app.shouldQuit \/ pc["main"] \in {"ask", "await", "session"}
    /\ \A t \in {"relay", "status", "reader", "err"} : pc[t] \in Over => app.shouldQuit
    /\ \A c \in Children : \A line \in On(pipe[In[c]]) : line.kind = "Quit" => app.shouldQuit
    /\ child["wallet"] = "gone" => app.shouldQuit
    /\ child["node"] = "gone" => app.shouldQuit \/ poisoned # {} \/ made["mistyped"] > 0

\* main goes through its end in order.
EndInOrder ==
    /\ pc["main"] \in {"join", "ended"} => \A c \in Children : child[c] = "gone"
    /\ pc["main"] = "ended" =>
          \A t \in {"relay", "status", "reader", "err"} : pc[t] = "ended"
    /\ files[1] = files[2] + IF pc["reader"] = "saving" THEN 1 ELSE 0

\* The UI thread writes a transaction that counts as the maker's.
Signing(m) == m = Maker(app.text) /\ pc["ui"] = "signing"

\* How many transactions of a maker have left it.
Sent(m) ==
    IF (m = "bot" /\ pc["bot"] = "send") \/ Signing(m)
    THEN made[m] - 1 ELSE made[m]

\* Of a maker's transactions, those before a have been published or are on
\* their way to the node, number b may be with the relay, the ones before c are
\* signed and those before d are on their way to the wallet.
TxsFit(m, a, b, c, d) ==
    /\ InOrder(pipe["nodeIn"], m, Len(published[m]) + 1, a)
    /\ a <= b /\ (child["node"] # "gone" => a = b)
    /\ signed.by = m => signed.n = b
    /\ InOrder(pipe["walletOut"], m, IF signed.by = m THEN b + 1 ELSE b, c)
    /\ InOrder(pipe["walletIn"], m, c, d)
    /\ d <= Sent(m) + 1 /\ (child["wallet"] # "gone" => d = Sent(m) + 1)

TxsInOrder ==
    \A m \in Makers :
        /\ published[m] = [i \in 1..Len(published[m]) |-> i]
        /\ \E a, b, c, d \in Nat : TxsFit(m, a, b, c, d)

\* The panels show the rounds up to before the request number q.
Shown(q) ==
    \E r \in Nat : \A i \in 1..Asked :
        panels[ReplyTo[StatusRound[i]]] = IF i < Place(q) THEN r + 1 ELSE r

RoundsFit(a, b, c) ==
    /\ Shown(a)
    /\ InOrder(pipe["nodeOut"], "status", a, b)
    /\ InOrder(pipe["nodeIn"], "status", b, c)
    /\ child["node"] # "gone" => Place(c) = next

RoundsInOrder == \E a, b, c \in Nat : RoundsFit(a, b, c)

IInv ==
    /\ ClientTypeOK
    /\ PipesSay
    /\ RelayHolds
    /\ HandshakeHolds
    /\ EndsAfterQuit
    /\ EndInOrder
    /\ TxsInOrder
    /\ RoundsInOrder

-----------------------------------------------------------------------------
(* Lines in a pipe                                                         *)

LEMMA OnAppend ==
  ASSUME NEW s \in Seq(Lines), NEW line \in Lines
  PROVE  On(Append(s, line)) = On(s) \cup {line}
  <1>1. Len(Append(s, line)) = Len(s) + 1 /\ Len(s) \in Nat
    OBVIOUS
  <1>2. \A i \in 1..Len(s) : Append(s, line)[i] = s[i]
    OBVIOUS
  <1>3. Append(s, line)[Len(s) + 1] = line
    OBVIOUS
  <1> QED
    BY <1>1, <1>2, <1>3 DEF On

LEMMA OnTail ==
  ASSUME NEW s \in Seq(Lines), s # <<>>
  PROVE  /\ Head(s) \in On(s) /\ Head(s) \in Lines
         /\ On(Tail(s)) \subseteq On(s) /\ Tail(s) \in Seq(Lines)
         /\ Len(Tail(s)) = Len(s) - 1
  <1>1. Len(s) \in Nat \ {0} /\ Len(Tail(s)) = Len(s) - 1 /\ Tail(s) \in Seq(Lines)
    OBVIOUS
  <1>2. \A i \in 1..Len(Tail(s)) : Tail(s)[i] = s[i + 1]
    OBVIOUS
  <1>3. Head(s) = s[1] /\ s[1] \in Lines
    BY <1>1
  <1> QED
    BY <1>1, <1>2, <1>3 DEF On

LEMMA InOrderEmpty ==
  ASSUME NEW st, NEW lo \in Nat
  PROVE  InOrder(<<>>, st, lo, lo)
  <1> DEFINE g == [i \in 1..1 |-> lo]
  <1>1. g \in [1..1 -> Nat] /\ Numbers(g, <<>>, st, lo, lo)
    BY DEF Numbers
  <1> QED
    BY <1>1 DEF InOrder

LEMMA InOrderBounds ==
  ASSUME NEW s \in Seq(Lines), NEW st, NEW lo \in Nat, NEW hi \in Nat, InOrder(s, st, lo, hi)
  PROVE  lo <= hi
  BY DEF InOrder, Numbers

LEMMA InOrderAppend ==
  ASSUME NEW s \in Seq(Lines), NEW st, NEW lo \in Nat, NEW hi \in Nat, NEW line \in Lines,
         InOrder(s, st, lo, hi)
  PROVE  /\ Mine(line, st) /\ Nth(line, st, hi) => InOrder(Append(s, line), st, lo, hi + 1)
         /\ ~Mine(line, st) => InOrder(Append(s, line), st, lo, hi)
  <1>1. PICK g \in [1..(Len(s) + 1) -> Nat] : Numbers(g, s, st, lo, hi)
    BY DEF InOrder
  <1>2. /\ Len(s) \in Nat /\ Len(Append(s, line)) = Len(s) + 1
        /\ \A i \in 1..Len(s) : Append(s, line)[i] = s[i]
        /\ Append(s, line)[Len(s) + 1] = line
    OBVIOUS
  <1>3. ASSUME Mine(line, st), Nth(line, st, hi)
        PROVE  InOrder(Append(s, line), st, lo, hi + 1)
    <2> DEFINE h == [i \in 1..(Len(s) + 2) |-> IF i = Len(s) + 2 THEN hi + 1 ELSE g[i]]
    <2>1. h \in [1..(Len(Append(s, line)) + 1) -> Nat]
      BY <1>2
    <2>2. /\ h[1] = lo /\ h[Len(s) + 2] = hi + 1
          /\ \A i \in 1..(Len(s) + 2) : h[i] <= hi + 1
      <3>1. g[1] = lo /\ \A i \in 1..(Len(s) + 1) : g[i] \in Nat /\ g[i] <= hi
        BY <1>1, <1>2 DEF Numbers
      <3> QED
        BY <3>1, <1>2
    <2>3. ASSUME NEW i \in 1..(Len(s) + 1)
          PROVE  /\ Mine(Append(s, line)[i], st) =>
                       Nth(Append(s, line)[i], st, h[i]) /\ h[i + 1] = h[i] + 1
                 /\ ~Mine(Append(s, line)[i], st) => h[i + 1] = h[i]
      <3>1. CASE i = Len(s) + 1
        <4>1. Append(s, line)[i] = line /\ h[i] = hi /\ h[i + 1] = hi + 1
          BY <1>1, <1>2, <3>1 DEF Numbers
        <4> QED
          BY <4>1, <1>3
      <3>2. CASE i # Len(s) + 1
        <4>1. i \in 1..Len(s) /\ Append(s, line)[i] = s[i] /\ h[i] = g[i] /\ h[i + 1] = g[i + 1]
          BY <1>2, <3>2
        <4> QED
          BY <4>1, <1>1 DEF Numbers
      <3> QED
        BY <3>1, <3>2
    <2>4. Numbers(h, Append(s, line), st, lo, hi + 1)
      <3> HIDE DEF h
      <3>1. Len(Append(s, line)) + 1 = Len(s) + 2
        BY <1>2
      <3> QED
        BY <2>2, <2>3, <1>2, <3>1 DEF Numbers
    <2> HIDE DEF h
    <2> QED
      BY <2>1, <2>4 DEF InOrder
  <1>4. ASSUME ~Mine(line, st)
        PROVE  InOrder(Append(s, line), st, lo, hi)
    <2> DEFINE h == [i \in 1..(Len(s) + 2) |-> IF i = Len(s) + 2 THEN hi ELSE g[i]]
    <2>1. h \in [1..(Len(Append(s, line)) + 1) -> Nat]
      BY <1>2
    <2>2. /\ h[1] = lo /\ h[Len(s) + 2] = hi
          /\ \A i \in 1..(Len(s) + 2) : h[i] <= hi
      BY <1>1, <1>2 DEF Numbers
    <2>3. ASSUME NEW i \in 1..(Len(s) + 1)
          PROVE  /\ Mine(Append(s, line)[i], st) =>
                       Nth(Append(s, line)[i], st, h[i]) /\ h[i + 1] = h[i] + 1
                 /\ ~Mine(Append(s, line)[i], st) => h[i + 1] = h[i]
      <3>1. CASE i = Len(s) + 1
        <4>1. Append(s, line)[i] = line /\ h[i] = hi /\ h[i + 1] = hi
          BY <1>1, <1>2, <3>1 DEF Numbers
        <4> QED
          BY <4>1, <1>4
      <3>2. CASE i # Len(s) + 1
        <4>1. i \in 1..Len(s) /\ Append(s, line)[i] = s[i] /\ h[i] = g[i] /\ h[i + 1] = g[i + 1]
          BY <1>2, <3>2
        <4> QED
          BY <4>1, <1>1 DEF Numbers
      <3> QED
        BY <3>1, <3>2
    <2>4. Numbers(h, Append(s, line), st, lo, hi)
      <3> HIDE DEF h
      <3>1. Len(Append(s, line)) + 1 = Len(s) + 2
        BY <1>2
      <3> QED
        BY <2>2, <2>3, <1>2, <3>1 DEF Numbers
    <2> HIDE DEF h
    <2> QED
      BY <2>1, <2>4 DEF InOrder
  <1> QED
    BY <1>3, <1>4

LEMMA InOrderTail ==
  ASSUME NEW s \in Seq(Lines), NEW st, NEW lo \in Nat, NEW hi \in Nat, s # <<>>,
         InOrder(s, st, lo, hi)
  PROVE  /\ Mine(Head(s), st) => Nth(Head(s), st, lo) /\ InOrder(Tail(s), st, lo + 1, hi)
         /\ ~Mine(Head(s), st) => InOrder(Tail(s), st, lo, hi)
  <1>1. PICK g \in [1..(Len(s) + 1) -> Nat] : Numbers(g, s, st, lo, hi)
    BY DEF InOrder
  <1> DEFINE from == IF Mine(Head(s), st) THEN lo + 1 ELSE lo
             h == [i \in 1..Len(s) |-> g[i + 1]]
  <1>2. /\ Len(s) \in Nat \ {0} /\ Len(Tail(s)) = Len(s) - 1
        /\ \A i \in 1..Len(Tail(s)) : Tail(s)[i] = s[i + 1]
        /\ Head(s) = s[1]
    OBVIOUS
  <1>3. g[1] = lo /\ g[2] = from /\ (Mine(Head(s), st) => Nth(Head(s), st, lo))
    BY <1>1, <1>2 DEF Numbers
  <1>4. h \in [1..(Len(Tail(s)) + 1) -> Nat]
    BY <1>2
  <1>5. h[1] = from /\ h[Len(Tail(s)) + 1] = hi
    BY <1>1, <1>2, <1>3 DEF Numbers
  <1>6. Numbers(h, Tail(s), st, h[1], hi)
    <2>1. \A i \in 1..(Len(Tail(s)) + 1) : h[i] <= hi
      BY <1>1, <1>2 DEF Numbers
    <2>2. ASSUME NEW i \in 1..Len(Tail(s))
          PROVE  /\ Mine(Tail(s)[i], st) => Nth(Tail(s)[i], st, h[i]) /\ h[i + 1] = h[i] + 1
                 /\ ~Mine(Tail(s)[i], st) => h[i + 1] = h[i]
      <3>1. /\ i + 1 \in 1..Len(s) /\ Tail(s)[i] = s[i + 1]
            /\ h[i] = g[i + 1] /\ h[i + 1] = g[i + 1 + 1]
        BY <1>2
      <3> QED
        BY <3>1, <1>1 DEF Numbers
    <2> HIDE DEF h
    <2> QED
      BY <2>1, <2>2, <1>5 DEF Numbers
  <1>7. InOrder(Tail(s), st, from, hi)
    <2> HIDE DEF h, from
    <2> QED
      BY <1>4, <1>5, <1>6 DEF InOrder
  <1> QED
    BY <1>3, <1>7

-----------------------------------------------------------------------------
(* The rounds of status requests                                           *)

Round == <<"GetAddressBalance", "RequestNetStatus", "RequestChainStatus",
           "RequestMinerStatus", "RequestTxPoolStatus">>
Answers == <<"AddressBalance", "NetStatus", "ChainStatus", "MinerStatus", "TxPoolStatus">>

LEMMA RoundFacts ==
  /\ DOMAIN StatusRound = 1..Asked /\ Len(StatusRound) = Asked
  /\ \A i \in 1..Asked : StatusRound[i] = Round[i] /\ ReplyTo[StatusRound[i]] = Answers[i]
  <1>1. Asked \in 1..5
    BY ClientAssumption
  <1>2. Len(StatusRound) = Asked /\ DOMAIN StatusRound = 1..Asked
    BY <1>1 DEF StatusRound
  <1>3. \A i \in 1..Asked : StatusRound[i] = Round[i]
    BY <1>1 DEF StatusRound, Round
  <1>4. \A i \in 1..5 : ReplyTo[Round[i]] = Answers[i]
    BY DEF Round, Answers, ReplyTo
  <1> QED
    BY <1>1, <1>2, <1>3, <1>4

LEMMA RoundDistinct ==
  /\ \A i, j \in 1..Asked : StatusRound[i] = StatusRound[j] => i = j
  /\ \A i, j \in 1..Asked : ReplyTo[StatusRound[i]] = ReplyTo[StatusRound[j]] => i = j
  /\ \A i, j \in 1..Asked : StatusRound[i] # ReplyTo[StatusRound[j]]
  <1>1. \A i, j \in 1..5 : /\ Round[i] = Round[j] => i = j
                           /\ Answers[i] = Answers[j] => i = j
                           /\ Round[i] # Answers[j]
    BY DEF Round, Answers
  <1>2. \A i \in 1..Asked : i \in 1..5
    BY ClientAssumption
  <1>3. ASSUME NEW i \in 1..Asked, NEW j \in 1..Asked
        PROVE  /\ StatusRound[i] = StatusRound[j] => i = j
               /\ ReplyTo[StatusRound[i]] = ReplyTo[StatusRound[j]] => i = j
               /\ StatusRound[i] # ReplyTo[StatusRound[j]]
    <2>1. /\ StatusRound[i] = Round[i] /\ ReplyTo[StatusRound[i]] = Answers[i]
          /\ StatusRound[j] = Round[j] /\ ReplyTo[StatusRound[j]] = Answers[j]
          /\ i \in 1..5 /\ j \in 1..5
      BY <1>2, RoundFacts
    <2> QED
      BY <1>1, <2>1
  <1> QED
    BY <1>3

\* The other kinds are not of the stream of the status requests.
LEMMA OtherKinds ==
  \A k \in {"Initialize", "Initialized", "GetUserInfo", "UserInfo", "Notify", "Quit",
            "Quitting", "RequestStateSerialization", "StateSerialization", "PublishTx",
            "PublishTxDone", "SignRequest", "SignResponse", "nothing"} :
      k \notin StatusKinds \cup Panels
  <1>1. StatusKinds \cup Panels \subseteq {Round[i] : i \in 1..5} \cup {Answers[i] : i \in 1..5}
    BY RoundFacts, ClientAssumption DEF StatusKinds, Panels
  <1>2. {Round[i] : i \in 1..5} \cup {Answers[i] : i \in 1..5} \subseteq
          {"GetAddressBalance", "RequestNetStatus", "RequestChainStatus", "RequestMinerStatus",
           "RequestTxPoolStatus", "AddressBalance", "NetStatus", "ChainStatus", "MinerStatus",
           "TxPoolStatus"}
    BY DEF Round, Answers
  <1> QED
    BY <1>1, <1>2

LEMMA PlaceNext ==
  ASSUME NEW q \in Nat
  PROVE  /\ Place(q) \in 1..Asked
         /\ Place(q + 1) = IF Place(q) = Asked THEN 1 ELSE Place(q) + 1
  <1>1. Asked \in 1..5
    BY ClientAssumption
  <1>2. CASE Asked = 1
    BY <1>2 DEF Place
  <1>3. CASE Asked = 2
    BY <1>3 DEF Place
  <1>4. CASE Asked = 3
    BY <1>4 DEF Place
  <1>5. CASE Asked = 4
    BY <1>5 DEF Place
  <1>6. CASE Asked = 5
    BY <1>6 DEF Place
  <1> QED
    BY <1>1, <1>2, <1>3, <1>4, <1>5, <1>6

-----------------------------------------------------------------------------
(* Requests and responses                                                  *)

LEMMA AllKinds ==
  Kinds = {"Notify", "nothing",
           "Initialize", "Quit", "GetAddressBalance", "PublishTx", "RequestNetStatus",
           "RequestChainStatus", "RequestMinerStatus", "RequestTxPoolStatus",
           "RequestStateSerialization", "GetUserInfo", "SignRequest",
           "Initialized", "Quitting", "AddressBalance", "PublishTxDone", "NetStatus",
           "ChainStatus", "MinerStatus", "TxPoolStatus", "StateSerialization",
           "UserInfo", "SignResponse"}
  <1>1. DOMAIN ReplyTo =
          {"Initialize", "Quit", "GetAddressBalance", "PublishTx", "RequestNetStatus",
           "RequestChainStatus", "RequestMinerStatus", "RequestTxPoolStatus",
           "RequestStateSerialization", "GetUserInfo", "SignRequest"}
    BY DEF ReplyTo
  <1> QED
    BY <1>1 DEF Kinds, ReplyTo

LEMMA Replies ==
  /\ ReplyTo["Initialize"] = "Initialized" /\ ReplyTo["Quit"] = "Quitting"
  /\ ReplyTo["GetUserInfo"] = "UserInfo" /\ ReplyTo["SignRequest"] = "SignResponse"
  /\ ReplyTo["PublishTx"] = "PublishTxDone"
  /\ ReplyTo["RequestStateSerialization"] = "StateSerialization"
  /\ ReplyTo["GetAddressBalance"] = "AddressBalance"
  BY DEF ReplyTo

LEMMA StatusReplies ==
  ASSUME NEW k \in StatusKinds
  PROVE  /\ k \in Kinds /\ ReplyTo[k] \in Kinds
         /\ ReplyTo[k] \in Panels
         /\ ReplyTo[k] = "AddressBalance" => k = "GetAddressBalance"
  <1>1. PICK i \in 1..Asked : k = StatusRound[i]
    BY RoundFacts DEF StatusKinds
  <1>2. k = Round[i] /\ ReplyTo[k] = Answers[i] /\ ReplyTo[k] \in Panels /\ i \in 1..5
    BY <1>1, RoundFacts, ClientAssumption DEF Panels
  <1>3. \/ k = "GetAddressBalance" /\ ReplyTo[k] = "AddressBalance"
        \/ k = "RequestNetStatus" /\ ReplyTo[k] = "NetStatus"
        \/ k = "RequestChainStatus" /\ ReplyTo[k] = "ChainStatus"
        \/ k = "RequestMinerStatus" /\ ReplyTo[k] = "MinerStatus"
        \/ k = "RequestTxPoolStatus" /\ ReplyTo[k] = "TxPoolStatus"
    BY <1>2 DEF Round, Answers
  <1>4. k \in Kinds
    BY <1>3, AllKinds
  <1>5. ReplyTo[k] \in Kinds
    BY <1>3, AllKinds
  <1>6. ReplyTo[k] = "AddressBalance" => k = "GetAddressBalance"
    BY <1>3
  <1> QED
    BY <1>2, <1>4, <1>5, <1>6

-----------------------------------------------------------------------------
(* What a write and a read do to the pipes                                 *)

PipesTyped == pipe \in [Pipes -> Seq(Lines)] /\ \A p \in Pipes : Len(pipe[p]) <= Capacity[p]

\* The lines of the stream in the pipe keep their numbers.
Kept(p, st) ==
    \A lo, hi \in Nat : InOrder(pipe[p], st, lo, hi) => InOrder(pipe'[p], st, lo, hi)

LEMMA WriteEffect ==
  ASSUME PipesTyped, NEW p \in Pipes, NEW line \in Lines, Write(p, line)
  PROVE  /\ PipesTyped'
         /\ \A q \in Pipes \ {p} : pipe'[q] = pipe[q]
         /\ On(pipe'[p]) \subseteq On(pipe[p]) \cup {line}
         /\ child[Child(p)] = "gone" => pipe' = pipe
         /\ child[Child(p)] # "gone" => pipe'[p] = Append(pipe[p], line)
  <1>1. CASE child[Child(p)] = "gone"
    BY <1>1 DEF Write, PipesTyped
  <1>2. CASE child[Child(p)] # "gone"
    <2>1. /\ Len(pipe[p]) < Capacity[p] /\ pipe[p] \in Seq(Lines)
          /\ pipe' = [pipe EXCEPT ![p] = Append(@, line)]
      BY <1>2 DEF Write, PipesTyped
    <2>2. /\ Append(pipe[p], line) \in Seq(Lines)
          /\ Len(Append(pipe[p], line)) = Len(pipe[p]) + 1
      BY <2>1
    <2>3. pipe'[p] = Append(pipe[p], line) /\ \A q \in Pipes \ {p} : pipe'[q] = pipe[q]
      BY <2>1 DEF PipesTyped
    <2>4. Len(pipe[p]) \in Nat /\ Capacity[p] \in Nat
      BY <2>1, ClientAssumption
    <2>5. Len(pipe'[p]) <= Capacity[p]
      BY <2>1, <2>2, <2>3, <2>4
    <2>6. pipe' \in [Pipes -> Seq(Lines)]
      BY <2>1, <2>2 DEF PipesTyped
    <2>7. PipesTyped'
      BY <2>3, <2>5, <2>6 DEF PipesTyped
    <2> QED
      BY <1>2, <2>1, <2>3, <2>7, OnAppend
  <1> QED
    BY <1>1, <1>2

LEMMA WriteKeeps ==
  ASSUME PipesTyped, NEW p \in Pipes, NEW line \in Lines, Write(p, line),
         NEW st, ~Mine(line, st), NEW q \in Pipes
  PROVE  Kept(q, st)
  <1>1. pipe'[q] = pipe[q] \/ (pipe'[q] = Append(pipe[q], line) /\ pipe[q] \in Seq(Lines))
    BY WriteEffect DEF PipesTyped
  <1> QED
    BY <1>1, InOrderAppend DEF Kept

LEMMA ReadEffect ==
  ASSUME PipesTyped, NEW p \in Pipes, Read(p)
  PROVE  /\ PipesTyped'
         /\ \A q \in Pipes \ {p} : pipe'[q] = pipe[q]
         /\ On(pipe'[p]) \subseteq On(pipe[p])
         /\ FirstLine(p) \in Lines
         /\ \/ FirstLine(p) = Nothing /\ pipe' = pipe
            \/ /\ FirstLine(p) = Head(pipe[p]) /\ FirstLine(p) \in On(pipe[p])
               /\ pipe[p] # <<>> /\ pipe'[p] = Tail(pipe[p])
  <1>1. CASE pipe[p] = <<>>
    <2>1. Nothing \in Lines
      BY AllKinds DEF Nothing, Line, Lines
    <2> QED
      BY <1>1, <2>1 DEF Read, FirstLine, PipesTyped
  <1>2. CASE pipe[p] # <<>>
    <2>1. pipe' = [pipe EXCEPT ![p] = Tail(@)] /\ pipe[p] \in Seq(Lines)
      BY <1>2 DEF Read, PipesTyped
    <2>2. pipe'[p] = Tail(pipe[p]) /\ \A q \in Pipes \ {p} : pipe'[q] = pipe[q]
      BY <2>1 DEF PipesTyped
    <2>3. Len(pipe[p]) \in Nat /\ Capacity[p] \in Nat
      BY <2>1, ClientAssumption
    <2>4. Len(pipe'[p]) <= Capacity[p]
      BY <1>2, <2>1, <2>2, <2>3, OnTail DEF PipesTyped
    <2>5. pipe' \in [Pipes -> Seq(Lines)]
      BY <1>2, <2>1, OnTail DEF PipesTyped
    <2>6. PipesTyped'
      BY <2>2, <2>4, <2>5 DEF PipesTyped
    <2> QED
      BY <1>2, <2>1, <2>2, <2>6, OnTail DEF FirstLine
  <1> QED
    BY <1>1, <1>2

LEMMA ReadKeeps ==
  ASSUME PipesTyped, NEW p \in Pipes, Read(p),
         NEW st, ~Mine(FirstLine(p), st), NEW q \in Pipes
  PROVE  Kept(q, st)
  <1>1. \/ pipe'[q] = pipe[q]
        \/ /\ pipe'[q] = Tail(pipe[q]) /\ pipe[q] \in Seq(Lines) /\ pipe[q] # <<>>
           /\ ~Mine(Head(pipe[q]), st)
    BY ReadEffect DEF PipesTyped
  <1> QED
    BY <1>1, InOrderTail DEF Kept

LEMMA SameKept ==
  ASSUME NEW q, NEW st, pipe'[q] = pipe[q]
  PROVE  Kept(q, st)
  BY DEF Kept

-----------------------------------------------------------------------------
(* What a child does with a request                                        *)

\* A child is never asked too early: it takes the first line and answers it.
Answered(c, request, reply) ==
    /\ request \in On(pipe[In[c]]) /\ request = Head(pipe[In[c]]) /\ pipe[In[c]] # <<>>
    /\ request \in Lines /\ reply \in Lines
    /\ child[c] = "new" => request.kind = "Initialize"
    /\ pipe'[In[c]] = Tail(pipe[In[c]])
    /\ pipe'[Out[c]] = Append(pipe[Out[c]], reply)
    /\ \A q \in Pipes \ {In[c], Out[c]} : pipe'[q] = pipe[q]
    /\ On(pipe'[In[c]]) \subseteq On(pipe[In[c]])
    /\ On(pipe'[Out[c]]) \subseteq On(pipe[Out[c]]) \cup {reply}
    /\ Said(In[c], request) /\ Said(Out[c], reply)
    /\ reply.kind = ReplyTo[request.kind] /\ reply.by = request.by
    /\ request.kind # "GetAddressBalance" => reply.n = request.n
    /\ child' = [child EXCEPT ![c] = IF request.kind = "Quit" THEN "gone" ELSE "ready"]
    /\ published' = IF request.kind = "PublishTx"
                    THEN [published EXCEPT ![request.by] = Append(@, request.n)]
                    ELSE published

LEMMA HandleEffect ==
  ASSUME ClientTypeOK, PipesSay, HandshakeHolds, NEW c \in Children, Handle(c)
  PROVE  /\ PipesTyped'
         /\ \E request, reply \in Lines : Answered(c, request, reply)
  <1> DEFINE request == FirstLine(In[c])
             tooEarly == child[c] = "new" /\ request.kind \notin {"Initialize", "Quit"}
             response(n) == TxLine(ReplyTo[request.kind], request.by, n)
  <1>1. /\ In[c] \in Pipes /\ Out[c] \in Pipes /\ In[c] # Out[c]
        /\ pipe[In[c]] \in Seq(Lines) /\ pipe[Out[c]] \in Seq(Lines)
    BY DEF In, Out, Children, Pipes, ClientTypeOK
  <1>2. pipe[In[c]] # <<>> /\ request = Head(pipe[In[c]])
    BY DEF Handle, FirstLine
  <1>3. request \in On(pipe[In[c]]) /\ request \in Lines /\ Said(In[c], request)
    BY <1>1, <1>2, OnTail DEF PipesSay
  <1>4. child[c] = "new" => request.kind = "Initialize"
    <2>1. ASSUME child[c] = "new"
          PROVE  pipe[In[c]] = <<Line("Initialize")>>
      BY <2>1, <1>2 DEF HandshakeHolds, NewChild, Children, In
    <2> QED
      BY <2>1, <1>2 DEF Line
  <1>5. ~tooEarly
    BY <1>4
  <1>6. PICK n \in IF request.kind = "GetAddressBalance" THEN Balances ELSE {request.n} :
          pipe' = [pipe EXCEPT ![In[c]] = Tail(@), ![Out[c]] = Append(@, response(n))]
    <2>1. \E n \in IF request.kind = "GetAddressBalance" THEN Balances ELSE {request.n} :
             pipe' = [pipe EXCEPT ![In[c]] = Tail(@),
                                  ![Out[c]] = IF tooEarly THEN @ ELSE Append(@, response(n))]
      BY DEF Handle
    <2> QED
      BY <2>1, <1>5
  <1>7. /\ ReplyTo[request.kind] \in Kinds
        /\ Said(Out[c], response(n))
    <2>1. response(n).kind = ReplyTo[request.kind] /\ response(n).by = request.by /\ response(n).n = n
      BY DEF TxLine
    <2>2. CASE c = "node"
      <3>1. In[c] = "nodeIn" /\ Out[c] = "nodeOut"
        BY <2>2 DEF In, Out
      <3>2. \/ request.kind \in NodeKinds /\ request.by = "client"
            \/ request.kind = "PublishTx" /\ request.by \in Makers
        BY <1>3, <3>1 DEF Said
      <3>3. ReplyTo[request.kind] \in {ReplyTo[k] : k \in NodeKinds} \cup {"PublishTxDone"}
        BY <3>2, Replies
      <3>4. ReplyTo[request.kind] = "AddressBalance" => request.kind = "GetAddressBalance"
        BY <3>2, Replies, StatusReplies DEF NodeKinds
      <3>5. ReplyTo[request.kind] \in Kinds
        BY <3>2, Replies, StatusReplies, AllKinds DEF NodeKinds
      <3>6. ReplyTo[request.kind] = "AddressBalance" => n \in Balances
        BY <3>4, <1>6
      <3> HIDE DEF request, response
      <3> QED
        BY <2>1, <3>1, <3>3, <3>5, <3>6 DEF Said
    <2>3. CASE c = "wallet"
      <3>1. In[c] = "walletIn" /\ Out[c] = "walletOut"
        BY <2>3 DEF In, Out
      <3>2. \/ request.kind \in WalletKinds /\ request.by = "client"
            \/ request.kind = "SignRequest" /\ request.by \in Makers
        BY <1>3, <3>1 DEF Said
      <3>3. ReplyTo[request.kind] \in Kinds
        BY <3>2, Replies, AllKinds DEF WalletKinds
      <3> HIDE DEF request, response
      <3> QED
        BY <2>1, <3>1, <3>2, <3>3, Replies DEF Said
    <2> QED
      BY <2>2, <2>3 DEF Children
  <1>8. response(n) \in Lines /\ Len(pipe[Out[c]]) < Capacity[Out[c]]
    <2>1. n \in Int /\ request.by \in Makers \cup {"client"}
      BY <1>3, <1>6, ClientAssumption DEF Lines
    <2> QED
      BY <2>1, <1>5, <1>7 DEF Handle, Lines, TxLine
  <1>9. /\ pipe'[In[c]] = Tail(pipe[In[c]]) /\ pipe'[Out[c]] = Append(pipe[Out[c]], response(n))
        /\ \A q \in Pipes \ {In[c], Out[c]} : pipe'[q] = pipe[q]
    BY <1>1, <1>6 DEF ClientTypeOK
  <1>10. PipesTyped'
    <2>1. /\ Tail(pipe[In[c]]) \in Seq(Lines)
          /\ Append(pipe[Out[c]], response(n)) \in Seq(Lines)
          /\ Len(Append(pipe[Out[c]], response(n))) = Len(pipe[Out[c]]) + 1
      <3> HIDE DEF response
      <3> QED
        BY <1>1, <1>2, <1>8, OnTail
    <2>2. pipe' \in [Pipes -> Seq(Lines)]
      BY <1>1, <1>6, <2>1 DEF ClientTypeOK
    <2>3. Len(pipe'[In[c]]) <= Capacity[In[c]]
      <3>1. /\ Len(Tail(pipe[In[c]])) = Len(pipe[In[c]]) - 1
            /\ Len(pipe[In[c]]) \in Nat /\ Capacity[In[c]] \in Nat
            /\ Len(pipe[In[c]]) <= Capacity[In[c]]
        BY <1>1, <1>2, OnTail, ClientAssumption DEF ClientTypeOK
      <3> QED
        BY <3>1, <1>9
    <2>4. Len(pipe'[Out[c]]) <= Capacity[Out[c]]
      <3>1. Len(pipe[Out[c]]) \in Nat /\ Capacity[Out[c]] \in Nat
        BY <1>1, ClientAssumption
      <3> HIDE DEF response
      <3> QED
        BY <3>1, <1>8, <1>9, <2>1
    <2>5. \A q \in Pipes : Len(pipe'[q]) <= Capacity[q]
      BY <2>3, <2>4, <1>9 DEF ClientTypeOK
    <2> QED
      BY <2>2, <2>5 DEF PipesTyped
  <1>11. /\ child' = [child EXCEPT ![c] = IF request.kind = "Quit" THEN "gone" ELSE "ready"]
         /\ published' = IF request.kind = "PublishTx"
                         THEN [published EXCEPT ![request.by] = Append(@, request.n)]
                         ELSE published
    BY <1>5 DEF Handle
  <1>12. /\ response(n).kind = ReplyTo[request.kind] /\ response(n).by = request.by
         /\ request.kind # "GetAddressBalance" => response(n).n = request.n
    BY <1>6 DEF TxLine
  <1>13. /\ On(pipe'[In[c]]) \subseteq On(pipe[In[c]])
         /\ On(pipe'[Out[c]]) \subseteq On(pipe[Out[c]]) \cup {response(n)}
    BY <1>1, <1>2, <1>8, <1>9, OnTail, OnAppend
  <1> HIDE DEF request, response, tooEarly
  <1> QED
    BY <1>2, <1>3, <1>4, <1>7, <1>8, <1>9, <1>10, <1>11, <1>12, <1>13 DEF Answered

-----------------------------------------------------------------------------
(* The invariant holds at first                                            *)

LEMMA RoundStart == Place(0) = 1 /\ 1 \in 1..Asked
  <1>1. Asked \in 1..5
    BY ClientAssumption
  <1>2. 0 % Asked = 0
    BY <1>1
  <1> QED
    BY <1>1, <1>2 DEF Place

LEMMA HandshakeFacts ==
  /\ DOMAIN Handshake = 1..3 /\ Len(Handshake) = 3
  /\ Handshake[1] = [to |-> "node",   ask |-> "Initialize",  reply |-> "Initialized"]
  /\ Handshake[2] = [to |-> "wallet", ask |-> "Initialize",  reply |-> "Initialized"]
  /\ Handshake[3] = [to |-> "wallet", ask |-> "GetUserInfo", reply |-> "UserInfo"]
  BY DEF Handshake

LEMMA LineFacts ==
  /\ \A kind \in Kinds : Line(kind) \in Lines
  /\ \A kind \in Kinds, by \in Makers, n \in Int : TxLine(kind, by, n) \in Lines
  /\ Nothing \in Lines /\ Nothing.kind = "nothing" /\ Nothing.by = "client"
  /\ \A kind : Line(kind).kind = kind /\ Line(kind).by = "client"
  /\ \A kind, by, n : /\ TxLine(kind, by, n).kind = kind /\ TxLine(kind, by, n).by = by
                      /\ TxLine(kind, by, n).n = n
  BY AllKinds DEF Line, TxLine, Lines, Nothing

LEMMA InitHolds == Init => IInv
  <1> SUFFICES ASSUME Init PROVE IInv
    OBVIOUS
  <1>1. \A p \in Pipes : pipe[p] = <<>> /\ On(pipe[p]) = {}
    BY DEF Init, On
  <1>2. <<>> \in Seq(Lines) /\ Len(<<>>) = 0
    OBVIOUS
  <1>3. ClientTypeOK
    <2>1. pipe \in [Pipes -> Seq(Lines)]
      BY <1>2 DEF Init
    <2>2. \A p \in Pipes : Len(pipe[p]) <= Capacity[p]
      BY <1>1, <1>2, ClientAssumption
    <2>3. stage \in DOMAIN Handshake /\ next \in DOMAIN StatusRound
      BY HandshakeFacts, RoundFacts, RoundStart DEF Init
    <2>4. signed \in Lines /\ signed.kind \in {"SignResponse", "nothing"}
      BY LineFacts DEF Init
    <2>5. pc \in [Threads -> Labels]
      BY DEF Init, Labels
    <2>6. /\ child \in [Children -> {"new", "ready", "gone"}]
          /\ lock \in [Locks -> {"free", "nodeOut", "nodeErr"}] /\ poisoned \subseteq Locks
      BY DEF Init
    <2>7. app \in [valid : BOOLEAN, balance : Balances \cup {-1}, shouldQuit : BOOLEAN,
                  text : Texts]
      BY ClientAssumption DEF Init
    <2>8. panels \in [Panels -> Nat]
      BY DEF Init
    <2>9. files \in [1..2 -> Nat] /\ acts \in 0..MaxActs
      BY ClientAssumption DEF Init
    <2>10. made \in [Makers -> Nat] /\ published \in [Makers -> Seq(Nat)]
      <3>1. <<>> \in Seq(Nat)
        OBVIOUS
      <3> QED
        BY <3>1 DEF Init
    <2> QED
      BY <2>1, <2>2, <2>3, <2>4, <2>5, <2>6, <2>7, <2>8, <2>9, <2>10 DEF ClientTypeOK
  <1>4. PipesSay
    BY <1>1 DEF PipesSay
  <1>5. RelayHolds
    BY DEF RelayHolds, Init, Threads
  <1>6. HandshakeHolds
    <2>1. \A c \in Children : pipe[Out[c]] = <<>> /\ On(pipe[Out[c]]) = {} /\ pipe[In[c]] = <<>>
      BY <1>1 DEF Out, In, Pipes, Children
    <2>2. pc["main"] = "ask" /\ \A t \in Threads \ {"main"} : pc[t] = "new"
      BY DEF Init, Threads
    <2> QED
      BY <1>1, <2>1, <2>2 DEF HandshakeHolds, NewChild, Init, Children, Starting, In
  <1>7. EndsAfterQuit
    <2>1. \A c \in Children : On(pipe[In[c]]) = {} /\ child[c] = "new"
      BY <1>1 DEF In, Pipes, Children, Init
    <2> QED
      BY <2>1 DEF EndsAfterQuit, Init, Threads, Over, Children
  <1>8. EndInOrder
    BY DEF EndInOrder, Init, Threads
  <1>9. TxsInOrder
    <2> SUFFICES ASSUME NEW m \in Makers
                 PROVE  /\ published[m] = [i \in 1..Len(published[m]) |-> i]
                        /\ TxsFit(m, 1, 1, 1, 1)
      BY DEF TxsInOrder
    <2>1. published[m] = <<>> /\ Len(published[m]) = 0 /\ made[m] = 0
      BY DEF Init
    <2>2. published[m] = [i \in 1..Len(published[m]) |-> i]
      BY <2>1
    <2>3. signed.by = "client" /\ signed.by # m
      BY LineFacts DEF Init, Makers
    <2>4. Sent(m) = 0
      BY <2>1 DEF Sent, Signing, Init, Threads
    <2>5. \A p \in {"nodeIn", "walletOut", "walletIn"} : InOrder(pipe[p], m, 1, 1)
      BY <1>1, InOrderEmpty DEF Pipes
    <2> QED
      BY <2>1, <2>2, <2>3, <2>4, <2>5 DEF TxsFit
  <1>10. RoundsInOrder
    <2>1. Shown(0)
      <3>1. \A i \in 1..Asked : ReplyTo[StatusRound[i]] \in Panels
        BY RoundFacts DEF Panels
      <3>2. \A i \in 1..Asked : panels[ReplyTo[StatusRound[i]]] = IF i < Place(0) THEN 1 ELSE 0
        BY <3>1, RoundStart, ClientAssumption DEF Init
      <3> QED
        BY <3>2 DEF Shown
    <2>2. InOrder(pipe["nodeOut"], "status", 0, 0) /\ InOrder(pipe["nodeIn"], "status", 0, 0)
      BY <1>1, InOrderEmpty DEF Pipes
    <2> QED
      BY <2>1, <2>2, RoundStart DEF RoundsInOrder, RoundsFit, Init
  <1> QED
    BY <1>3, <1>4, <1>5, <1>6, <1>7, <1>8, <1>9, <1>10 DEF IInv

-----------------------------------------------------------------------------
(* Every step: the types, and what is on the pipes                         *)

LEMMA SaidWrite ==
  ASSUME PipesTyped, PipesSay, NEW p \in Pipes, NEW line \in Lines, Write(p, line), Said(p, line)
  PROVE  PipesTyped' /\ PipesSay'
  <1>1. /\ PipesTyped'
        /\ \A q \in Pipes \ {p} : pipe'[q] = pipe[q]
        /\ On(pipe'[p]) \subseteq On(pipe[p]) \cup {line}
    BY WriteEffect
  <1>2. ASSUME NEW q \in Pipes, NEW l \in On(pipe'[q])
        PROVE  Said(q, l)
    BY <1>1 DEF PipesSay
  <1> QED
    BY <1>1, <1>2 DEF PipesSay

LEMMA SaidRead ==
  ASSUME PipesTyped, PipesSay, NEW p \in Pipes, Read(p)
  PROVE  PipesTyped' /\ PipesSay'
  <1>1. /\ PipesTyped'
        /\ \A q \in Pipes \ {p} : pipe'[q] = pipe[q]
        /\ On(pipe'[p]) \subseteq On(pipe[p])
    BY ReadEffect
  <1>2. ASSUME NEW q \in Pipes, NEW l \in On(pipe'[q])
        PROVE  Said(q, l)
    BY <1>1 DEF PipesSay
  <1> QED
    BY <1>1, <1>2 DEF PipesSay

\* What the actions that write write, and where.
Writes(p, line) == p \in Pipes /\ line \in Lines /\ Write(p, line) /\ Said(p, line)

LEMMA AskWrites ==
  ASSUME ClientTypeOK, Ask
  PROVE  /\ Handshake[stage].to \in Children
         /\ Writes(In[Handshake[stage].to], Line(Handshake[stage].ask))
         /\ Line(Handshake[stage].ask).kind \in {"Initialize", "GetUserInfo"}
  <1> DEFINE p == In[Handshake[stage].to]
             line == Line(Handshake[stage].ask)
  <1>1. stage \in 1..3
    BY HandshakeFacts DEF ClientTypeOK
  <1>2. \/ Handshake[stage].to = "node" /\ Handshake[stage].ask = "Initialize"
        \/ Handshake[stage].to = "wallet" /\ Handshake[stage].ask = "Initialize"
        \/ Handshake[stage].to = "wallet" /\ Handshake[stage].ask = "GetUserInfo"
    BY <1>1, HandshakeFacts
  <1>3. \/ p = "nodeIn" /\ line.kind = "Initialize"
        \/ p = "walletIn" /\ line.kind \in {"Initialize", "GetUserInfo"}
    BY <1>2, LineFacts DEF In
  <1>4. line \in Lines /\ line.by = "client"
    BY <1>2, LineFacts, AllKinds
  <1>5. Write(p, line)
    BY DEF Ask
  <1> HIDE DEF p, line
  <1>6. Said(p, line)
    BY <1>3, <1>4 DEF Said, NodeKinds, WalletKinds
  <1>7. p \in Pipes /\ line.kind \in {"Initialize", "GetUserInfo"}
    BY <1>3 DEF Pipes
  <1>8. Handshake[stage].to \in Children
    BY <1>2 DEF Children
  <1> QED
    BY <1>4, <1>5, <1>6, <1>7, <1>8 DEF Writes, p, line

LEMMA BotSendWrites ==
  ASSUME ClientTypeOK, BotSend
  PROVE  Writes("walletIn", TxLine("SignRequest", "bot", made["bot"]))
  <1>1. made["bot"] \in Int
    BY DEF ClientTypeOK, Makers
  <1>2. TxLine("SignRequest", "bot", made["bot"]) \in Lines
    BY <1>1, LineFacts, AllKinds DEF Makers
  <1>3. Said("walletIn", TxLine("SignRequest", "bot", made["bot"]))
    BY LineFacts DEF Said, Makers
  <1> QED
    BY <1>2, <1>3 DEF Writes, BotSend, Pipes

LEMMA RelayPublishWrites ==
  ASSUME ClientTypeOK, RelayHolds, RelayPublish
  PROVE  /\ signed.kind = "SignResponse" /\ signed.by \in Makers
         /\ Writes("nodeIn", TxLine("PublishTx", signed.by, signed.n))
  <1>1. signed.kind = "SignResponse" /\ signed.by \in Makers /\ signed.n \in Int
    BY DEF ClientTypeOK, RelayHolds, RelayPublish, At, Lines
  <1>2. TxLine("PublishTx", signed.by, signed.n) \in Lines
    BY <1>1, LineFacts, AllKinds
  <1>3. Said("nodeIn", TxLine("PublishTx", signed.by, signed.n))
    BY <1>1, LineFacts DEF Said
  <1> QED
    BY <1>1, <1>2, <1>3 DEF Writes, RelayPublish, Pipes

LEMMA StatusAskWrites ==
  ASSUME ClientTypeOK, StatusAsk
  PROVE  /\ next \in 1..Asked /\ StatusRound[next] \in StatusKinds
         /\ Writes("nodeIn", Line(StatusRound[next]))
  <1>1. next \in 1..Asked /\ StatusRound[next] \in StatusKinds
    BY RoundFacts DEF ClientTypeOK, StatusKinds
  <1>2. Line(StatusRound[next]) \in Lines
    BY <1>1, StatusReplies, LineFacts
  <1>3. Said("nodeIn", Line(StatusRound[next]))
    BY <1>1, LineFacts DEF Said, NodeKinds
  <1> QED
    BY <1>1, <1>2, <1>3 DEF Writes, StatusAsk, Pipes

LEMMA MakerOf == \A text : Maker(text) \in Makers \ {"bot"}
  BY DEF Maker, Makers

LEMMA UiWriteWrites ==
  ASSUME ClientTypeOK, UiWrite
  PROVE  \/ /\ pc["ui"] = "signing" /\ Maker(app.text) \in Makers
            /\ Writes("walletIn", TxLine("SignRequest", Maker(app.text), made[Maker(app.text)]))
         \/ /\ pc["ui"] = "saving"
            /\ Writes("nodeIn", Line("RequestStateSerialization"))
  <1> DEFINE m == Maker(app.text)
  <1>1. m \in Makers /\ made[m] \in Int
    BY MakerOf DEF ClientTypeOK
  <1>2. \/ pc["ui"] = "signing" /\ Write("walletIn", TxLine("SignRequest", m, made[m]))
        \/ pc["ui"] = "saving" /\ Write("nodeIn", Line("RequestStateSerialization"))
    BY DEF UiWrite, At
  <1> HIDE DEF m
  <1>3. /\ TxLine("SignRequest", m, made[m]) \in Lines
        /\ Line("RequestStateSerialization") \in Lines
    BY <1>1, LineFacts, AllKinds
  <1>4. /\ Said("walletIn", TxLine("SignRequest", m, made[m]))
        /\ Said("nodeIn", Line("RequestStateSerialization"))
    BY <1>1, LineFacts DEF Said, NodeKinds
  <1> QED
    BY <1>1, <1>2, <1>3, <1>4 DEF Writes, Pipes, m

LEMMA WriteQuitWrites ==
  ASSUME WriteQuit
  PROVE  \E c \in Children : Writes(In[c], Line("Quit"))
  <1>1. Line("Quit") \in Lines /\ \A c \in Children : Said(In[c], Line("Quit"))
    BY LineFacts, AllKinds DEF Said, NodeKinds, WalletKinds, Children, In
  <1>2. Write(In["node"], Line("Quit")) \/ Write(In["wallet"], Line("Quit"))
    BY DEF WriteQuit, In
  <1> QED
    BY <1>1, <1>2 DEF Writes, Children, In, Pipes

LEMMA NotifyWrites ==
  ASSUME ClientTypeOK
  PROVE  /\ Notify => Writes("nodeOut", Line("Notify"))
         /\ LogsLocked => \E p \in {"nodeOut", "nodeErr"} : Writes(p, Line("Notify"))
  <1>1. Line("Notify") \in Lines /\ \A p \in {"nodeOut", "nodeErr"} : Said(p, Line("Notify"))
    BY LineFacts, AllKinds DEF Said
  <1>2. ASSUME NEW l \in Locks, LogLocked(l)
        PROVE  lock[l] \in {"nodeOut", "nodeErr"} /\ Write(lock[l], Line("Notify"))
    BY <1>2 DEF ClientTypeOK, LogLocked
  <1> QED
    BY <1>1, <1>2 DEF Writes, Notify, LogsLocked, Pipes

\* The actions that leave the pipes alone.
Silent ==
    \/ BotCommand \/ RelayCheck \/ StatusCheck \/ ReaderOuter \/ ReaderInner \/ ReaderSave
    \/ Keys \/ JoinUi \/ Wait \/ JoinThreads
    \/ (\E c \in Children : Orphaned(c)) \/ NodePanics
    \/ (\E l \in Locks, p \in {"nodeOut", "nodeErr"} : TakeLock(l, p))
    \/ UNCHANGED vars

LEMMA SilentPipes == Silent => UNCHANGED pipe
  <1>1. BotCommand \/ RelayCheck \/ StatusCheck \/ ReaderOuter \/ ReaderInner \/ ReaderSave =>
          UNCHANGED pipe
    BY DEF BotCommand, RelayCheck, StatusCheck, ReaderOuter, ReaderInner, ReaderSave
  <1>2. Keys => UNCHANGED pipe
    BY DEF Keys, Enter, CtrlS, Esc, Turn
  <1>3. JoinUi \/ Wait \/ JoinThreads \/ UNCHANGED vars => UNCHANGED pipe
    BY DEF JoinUi, Wait, JoinThreads, vars
  <1>4. (\E c \in Children : Orphaned(c)) \/ NodePanics
          \/ (\E l \in Locks, p \in {"nodeOut", "nodeErr"} : TakeLock(l, p)) => UNCHANGED pipe
    BY DEF Orphaned, NodePanics, TakeLock
  <1> QED
    BY <1>1, <1>2, <1>3, <1>4 DEF Silent

LEMMA Steps ==
  ASSUME [Next]_vars
  PROVE  \/ Silent
         \/ Ask \/ Await \/ BotSend \/ RelayRead \/ RelayPublish \/ StatusAsk \/ ReaderRead
         \/ ErrRead \/ UiWrite \/ WriteQuit \/ Notify \/ LogsLocked
         \/ \E c \in Children : Handle(c)
  BY DEF Next, Silent, Main, Bot, Relay, Status, Reader, Keys, Loop, Node, Finished

LEMMA AwaitReads ==
  ASSUME ClientTypeOK, Await
  PROVE  /\ Handshake[stage].to \in Children
         /\ Out[Handshake[stage].to] \in Pipes
         /\ Read(Out[Handshake[stage].to])
  <1>1. Handshake[stage].to \in Children
    BY HandshakeFacts DEF ClientTypeOK, Children
  <1>2. Read(Out[Handshake[stage].to])
    BY DEF Await
  <1> QED
    BY <1>1, <1>2 DEF Children, Out, Pipes

\* Where the threads are when main has started them.
Started ==
    [pc EXCEPT !["main"] = "session", !["bot"] = "check", !["relay"] = "check",
               !["status"] = "check", !["reader"] = "outer", !["err"] = "read",
               !["ui"] = "poll"]

\* What main does with the line it waits for.
LEMMA AwaitCases ==
  ASSUME ClientTypeOK, Await
  PROVE  LET line == FirstLine(Out[Handshake[stage].to])
         IN  \/ line.kind # Handshake[stage].reply /\ UNCHANGED <<pc, stage>>
             \/ /\ line.kind = Handshake[stage].reply
                /\ stage < 3 /\ stage' = stage + 1 /\ Goto("main", "ask")
             \/ /\ line.kind = Handshake[stage].reply
                /\ stage = 3 /\ stage' = stage
                /\ pc' = Started
  <1> DEFINE answered == FirstLine(Out[Handshake[stage].to]).kind = Handshake[stage].reply
  <1>1. stage \in 1..3 /\ Len(Handshake) = 3
    BY HandshakeFacts DEF ClientTypeOK
  <1>2. CASE ~answered
    BY <1>2 DEF Await
  <1>3. CASE answered /\ stage < 3
    <2>1. Goto("main", "ask") /\ stage' = stage + 1
      <3>1. stage < Len(Handshake) /\ ~(stage = Len(Handshake))
        BY <1>1, <1>3
      <3> QED
        BY <1>3, <3>1, SMTT(30) DEF Await
    <2> QED
      BY <1>3, <2>1
  <1>4. CASE answered /\ stage = 3
    BY <1>1, <1>4 DEF Await, Started
  <1> QED
    BY <1>1, <1>2, <1>3, <1>4

\* What the reader does with a line.
LEMMA ReaderReadCases ==
  ASSUME ClientTypeOK, ReaderRead
  PROVE  LET reply == FirstLine("nodeOut")
         IN  \/ reply = Nothing /\ Goto("reader", "inner") /\ UNCHANGED screenVars
             \/ /\ reply # Nothing /\ reply.kind \in Panels
                /\ panels' = [panels EXCEPT ![reply.kind] = @ + 1]
                /\ app' = IF reply.kind = "AddressBalance"
                          THEN [app EXCEPT !.balance = reply.n] ELSE app
                /\ WhileNotQuit("reader", "inner") /\ UNCHANGED files
             \/ /\ reply # Nothing /\ reply.kind \notin Panels
                /\ files' = [files EXCEPT ![1] = @ + 1]
                /\ Goto("reader", "saving") /\ UNCHANGED <<app, panels>>
             \/ /\ reply # Nothing /\ reply.kind \notin Panels
                /\ WhileNotQuit("reader", "inner") /\ UNCHANGED screenVars
  <1> DEFINE reply == FirstLine("nodeOut")
  <1>1. CASE reply = Nothing
    BY <1>1, LineFacts, OtherKinds DEF ReaderRead
  <1>2. CASE reply # Nothing /\ reply.kind \in Panels
    BY <1>2, OtherKinds DEF ReaderRead
  <1>3. CASE reply # Nothing /\ reply.kind \notin Panels /\ reply.kind = "StateSerialization"
    BY <1>3 DEF ReaderRead
  <1>4. CASE reply # Nothing /\ reply.kind \notin Panels /\ reply.kind # "StateSerialization"
    BY <1>4 DEF ReaderRead
  <1> QED
    BY <1>1, <1>2, <1>3, <1>4

LEMMA PipesStep ==
  ASSUME ClientTypeOK, PipesSay, RelayHolds, HandshakeHolds, [Next]_vars
  PROVE  PipesTyped' /\ PipesSay'
  <1> USE ClientTypeOK DEF PipesTyped
  <1>0. PipesTyped
    BY DEF ClientTypeOK
  <1>1. ASSUME \E p, line : Writes(p, line)
        PROVE  PipesTyped' /\ PipesSay'
    BY <1>0, <1>1, SaidWrite DEF Writes
  <1>2. CASE Silent
    BY <1>0, <1>2, SilentPipes DEF PipesSay
  <1>3. CASE Ask \/ BotSend \/ RelayPublish \/ StatusAsk \/ UiWrite
    BY <1>1, <1>3, AskWrites, BotSendWrites, RelayPublishWrites, StatusAskWrites, UiWriteWrites
  <1>4. CASE WriteQuit \/ Notify \/ LogsLocked
    BY <1>1, <1>4, WriteQuitWrites, NotifyWrites
  <1>5. CASE Await
    BY <1>0, <1>5, AwaitReads, SaidRead
  <1>6. CASE RelayRead \/ ReaderRead \/ ErrRead
    <2>1. \E p \in Pipes : Read(p)
      BY <1>6 DEF RelayRead, ReaderRead, ErrRead, Pipes
    <2> QED
      BY <1>0, <2>1, SaidRead
  <1>7. CASE \E c \in Children : Handle(c)
    <2>1. PICK c \in Children : Handle(c)
      BY <1>7
    <2>2. PICK request \in Lines, reply \in Lines : Answered(c, request, reply)
      BY <2>1, HandleEffect
    <2>3. PipesTyped'
      BY <2>1, HandleEffect
    <2>4. ASSUME NEW q \in Pipes, NEW l \in On(pipe'[q])
          PROVE  Said(q, l)
      BY <2>2 DEF PipesSay, Answered
    <2> QED
      BY <2>3, <2>4 DEF PipesSay
  <1> QED
    BY <1>2, <1>3, <1>4, <1>5, <1>6, <1>7, Steps

\* The next transaction of a maker that the node publishes is the one after the
\* last that it has published.
LEMMA PublishNext ==
  ASSUME ClientTypeOK, TxsInOrder, NEW request \in Lines, NEW reply \in Lines,
         Answered("node", request, reply), request.kind = "PublishTx"
  PROVE  request.by \in Makers /\ request.n = Len(published[request.by]) + 1
  <1>1. pipe["nodeIn"] # <<>> /\ Head(pipe["nodeIn"]) = request /\ Said("nodeIn", request)
    BY DEF Answered, In
  <1>2. request.by \in Makers
    BY <1>1, OtherKinds DEF Said, NodeKinds
  <1>3. PICK a, b, c, d \in Nat : TxsFit(request.by, a, b, c, d)
    BY <1>2 DEF TxsInOrder
  <1>4. InOrder(pipe["nodeIn"], request.by, Len(published[request.by]) + 1, a)
    BY <1>3 DEF TxsFit
  <1>5. Len(published[request.by]) + 1 \in Nat /\ pipe["nodeIn"] \in Seq(Lines)
    BY <1>2 DEF ClientTypeOK, Pipes
  <1>6. Mine(request, request.by) /\ request.by # "status"
    BY <1>2 DEF Mine, Makers
  <1>7. Nth(request, request.by, Len(published[request.by]) + 1)
    BY <1>1, <1>4, <1>5, <1>6, InOrderTail
  <1> QED
    BY <1>2, <1>6, <1>7 DEF Nth

LEMMA PcStep ==
  ASSUME ClientTypeOK, [Next]_vars
  PROVE  pc' \in [Threads -> Labels]
  <1>1. pc \in [Threads -> Labels]
    BY DEF ClientTypeOK
  <1>2. ASSUME NEW t \in Threads, NEW label \in Labels, Goto(t, label)
        PROVE  pc' \in [Threads -> Labels]
    BY <1>1, <1>2 DEF Goto
  <1>3. ASSUME NEW t \in Threads, NEW label \in Labels, WhileNotQuit(t, label)
        PROVE  pc' \in [Threads -> Labels]
    BY <1>1, <1>3 DEF WhileNotQuit, Goto, Labels, Over
  <1>4. /\ {"check", "send", "read", "publish", "outer", "inner", "poll", "signing", "saving", "ask",
            "await", "session", "quit node", "quit wallet", "wait", "join"} \subseteq Labels
        /\ {"ended", "panicked"} \subseteq Labels
        /\ Threads = {"main", "bot", "relay", "status", "reader", "err", "ui"}
    BY DEF Labels, Over, Threads
  <1>5. CASE UNCHANGED pc
    BY <1>1, <1>5
  <1>6. CASE BotCommand \/ BotSend
    <2>1. Goto("bot", "send") \/ Goto("bot", "check")
      BY <1>6 DEF BotCommand, BotSend
    <2> QED
      BY <1>2, <1>4, <2>1
  <1>7. CASE Relay
    <2>1. \/ \E label \in {"read", "publish"} : WhileNotQuit("relay", label)
          \/ Goto("relay", "check")
      BY <1>7 DEF Relay, RelayCheck, RelayRead, RelayPublish
    <2> QED
      BY <1>2, <1>3, <1>4, <2>1
  <1>8. CASE Status
    <2>1. WhileNotQuit("status", "ask") \/ Goto("status", "check") \/ UNCHANGED pc
      BY <1>8 DEF Status, StatusCheck, StatusAsk
    <2> QED
      BY <1>2, <1>3, <1>4, <1>5, <2>1
  <1>9. CASE Reader
    <2>1. \/ WhileNotQuit("reader", "inner") \/ Goto("reader", "inner") \/ Goto("reader", "saving")
          \/ \E label \in {"panicked", "read"} : Goto("reader", label)
      BY <1>9 DEF Reader, ReaderOuter, ReaderInner, ReaderRead, ReaderSave
    <2> QED
      BY <1>2, <1>3, <1>4, <2>1
  <1>10. CASE ErrRead
    BY <1>3, <1>4, <1>10 DEF ErrRead
  <1>11. CASE UiWrite \/ Keys
    <2>1. \/ Goto("ui", "poll") \/ Goto("ui", "signing") \/ Goto("ui", "saving")
          \/ Goto("ui", "ended") \/ UNCHANGED pc
      BY <1>11 DEF UiWrite, Keys, Enter, CtrlS, Esc, Turn
    <2> QED
      BY <1>2, <1>4, <1>5, <2>1
  <1>12. CASE Ask \/ JoinUi \/ WriteQuit \/ Wait \/ JoinThreads
    <2>1. \E label \in {"await", "quit node", "quit wallet", "wait", "join", "panicked", "ended"} :
             Goto("main", label)
      BY <1>12 DEF Ask, JoinUi, WriteQuit, Wait, JoinThreads
    <2> QED
      BY <1>2, <1>4, <2>1
  <1>13. CASE Await
    <2>1. \/ UNCHANGED pc \/ Goto("main", "ask")
          \/ pc' = Started
      BY <1>13, AwaitCases
    <2>2. ASSUME pc' = Started
          PROVE  pc' \in [Threads -> Labels]
      BY <1>1, <1>4, <2>2 DEF Started
    <2> QED
      BY <1>2, <1>4, <1>5, <2>1, <2>2
  <1>14. CASE (\E c \in Children : Loop(c)) \/ Node \/ LogsLocked
    <2>1. UNCHANGED pc
      BY <1>14 DEF Loop, Handle, Orphaned, Node, Notify, NodePanics, TakeLock, LogsLocked, LogLocked
    <2> QED
      BY <1>5, <2>1
  <1>15. CASE UNCHANGED vars
    BY <1>5, <1>15 DEF vars
  <1> QED
    BY <1>6, <1>7, <1>8, <1>9, <1>10, <1>11, <1>12, <1>13, <1>14, <1>15
       DEF Next, Main, Bot, Finished

\* The variables that the type invariant is about, but for the pipes and the pc.
DataTyped ==
    /\ signed \in Lines /\ signed.kind \in {"SignResponse", "nothing"}
    /\ stage \in DOMAIN Handshake /\ next \in DOMAIN StatusRound
    /\ child \in [Children -> {"new", "ready", "gone"}]
    /\ lock \in [Locks -> {"free", "nodeOut", "nodeErr"}] /\ poisoned \subseteq Locks
    /\ app \in [valid : BOOLEAN, balance : Balances \cup {-1}, shouldQuit : BOOLEAN,
               text : Texts]
    /\ panels \in [Panels -> Nat]
    /\ files \in [1..2 -> Nat] /\ acts \in 0..MaxActs
    /\ made \in [Makers -> Nat] /\ published \in [Makers -> Seq(Nat)]

LEMMA TypeStep ==
  ASSUME IInv, [Next]_vars
  PROVE  ClientTypeOK'
  <1>1. PipesTyped /\ PipesTyped' /\ DataTyped /\ pc' \in [Threads -> Labels]
    BY PipesStep, PcStep DEF IInv, ClientTypeOK, PipesTyped, DataTyped
  <1>2. SUFFICES DataTyped'
    BY <1>1 DEF DataTyped, ClientTypeOK, PipesTyped
  <1> USE DEF nodeVars, screenVars, countVars
  <1>3. CASE UNCHANGED <<signed, nodeVars, screenVars, countVars>>
    BY <1>1, <1>3 DEF DataTyped
  <1>4. ASSUME UNCHANGED <<signed, nodeVars, screenVars, stage, next>>, made' \in [Makers -> Nat],
               acts' \in 0..MaxActs
        PROVE  DataTyped'
    BY <1>1, <1>4 DEF DataTyped
  <1>5. ASSUME Begin
        PROVE  acts' \in 0..MaxActs
    BY <1>1, <1>5, ClientAssumption DEF Begin, DataTyped
  <1>6. ASSUME NEW m \in Makers
        PROVE  [made EXCEPT ![m] = @ + 1] \in [Makers -> Nat] /\ made \in [Makers -> Nat]
    BY <1>1 DEF DataTyped
  <1>7. CASE BotCommand \/ Enter
    BY <1>7, <1>4, <1>5, <1>6 DEF BotCommand, Enter, Makers
  <1>8. CASE CtrlS \/ Notify \/ StatusCheck
    <2>1. acts' \in 0..MaxActs
      BY <1>1, <1>5, <1>8 DEF DataTyped, CtrlS, Notify, StatusCheck
    <2> QED
      BY <1>8, <2>1, <1>4, <1>6 DEF CtrlS, Notify, StatusCheck, Makers
  <1>9. CASE BotSend \/ RelayCheck \/ ReaderOuter \/ ReaderInner \/ ErrRead
    BY <1>3, <1>9 DEF BotSend, RelayCheck, ReaderOuter, ReaderInner, ErrRead
  <1>10. CASE Ask \/ JoinUi \/ WriteQuit \/ Wait \/ JoinThreads \/ UNCHANGED vars
    BY <1>3, <1>10 DEF Ask, JoinUi, WriteQuit, Wait, JoinThreads, vars
  <1>11. CASE RelayRead \/ RelayPublish
    <2>1. signed' \in Lines /\ signed'.kind \in {"SignResponse", "nothing"}
      <3>1. RelayRead => FirstLine("walletOut") \in Lines
        BY <1>1, ReadEffect DEF RelayRead, Pipes
      <3>2. Nothing \in Lines /\ Nothing.kind = "nothing"
        BY LineFacts
      <3> QED
        BY <1>11, <3>1, <3>2 DEF RelayRead, RelayPublish
    <2>2. UNCHANGED <<nodeVars, screenVars, countVars>>
      BY <1>11 DEF RelayRead, RelayPublish
    <2> QED
      BY <1>1, <2>1, <2>2 DEF DataTyped
  <1>12. CASE StatusAsk
    <2>1. next' \in DOMAIN StatusRound
      BY <1>1, <1>12, RoundFacts, ClientAssumption DEF DataTyped, StatusAsk
    <2>2. UNCHANGED <<signed, nodeVars, screenVars, stage, made, acts>>
      BY <1>12 DEF StatusAsk
    <2> QED
      BY <1>1, <2>1, <2>2 DEF DataTyped
  <1>13. CASE ReaderSave
    <2>1. files' \in [1..2 -> Nat]
      BY <1>1, <1>13 DEF DataTyped, ReaderSave
    <2>2. UNCHANGED <<signed, nodeVars, app, panels, countVars>>
      BY <1>13 DEF ReaderSave
    <2> QED
      BY <1>1, <2>1, <2>2 DEF DataTyped
  <1>14. CASE ReaderRead
    <2> DEFINE reply == FirstLine("nodeOut")
    <2>1. UNCHANGED <<signed, nodeVars, countVars>>
      BY <1>14 DEF ReaderRead
    <2>2. app' = app \/ (reply.kind = "AddressBalance" /\ reply # Nothing
                          /\ app' = [app EXCEPT !.balance = reply.n])
      BY <1>14, ReaderReadCases DEF IInv
    <2>3. reply # Nothing /\ reply.kind = "AddressBalance" => reply.n \in Balances
      <3>1. reply # Nothing => reply \in On(pipe["nodeOut"])
        BY <1>1, <1>14, ReadEffect DEF ReaderRead, Pipes
      <3> QED
        BY <3>1 DEF IInv, PipesSay, Said, Pipes
    <2>4. app' \in [valid : BOOLEAN, balance : Balances \cup {-1}, shouldQuit : BOOLEAN,
                   text : Texts]
      <3>1. app \in [valid : BOOLEAN, balance : Balances \cup {-1}, shouldQuit : BOOLEAN,
                    text : Texts]
        BY <1>1 DEF DataTyped
      <3> HIDE DEF reply
      <3> QED
        BY <3>1, <2>2, <2>3
    <2>5. panels' = panels \/ (reply.kind \in Panels
                               /\ panels' = [panels EXCEPT ![reply.kind] = @ + 1])
      BY <1>14, ReaderReadCases DEF IInv
    <2>6. panels' \in [Panels -> Nat]
      <3> HIDE DEF reply
      <3>1. panels \in [Panels -> Nat]
        BY <1>1 DEF DataTyped
      <3> QED
        BY <3>1, <2>5
    <2>7. files' = files \/ files' = [files EXCEPT ![1] = @ + 1]
      BY <1>14, ReaderReadCases DEF IInv
    <2>8. files' \in [1..2 -> Nat]
      BY <1>1, <2>7 DEF DataTyped
    <2> QED
      BY <1>1, <2>1, <2>4, <2>6, <2>8 DEF DataTyped
  <1>15. CASE UiWrite \/ Esc \/ \E text \in Texts : Turn(text)
    <2>1. app \in [valid : BOOLEAN, balance : Balances \cup {-1}, shouldQuit : BOOLEAN,
                  text : Texts]
      BY <1>1 DEF DataTyped
    <2>2. ASSUME NEW text \in Texts
          PROVE  Drawn(text) \in [valid : BOOLEAN, balance : Balances \cup {-1},
                                 shouldQuit : BOOLEAN, text : Texts]
      <3>1. Valid(text, app.balance) \in BOOLEAN
        BY <2>2, ClientAssumption DEF Valid
      <3> QED
        BY <2>1, <3>1 DEF Drawn
    <2>3. \/ app' = [app EXCEPT !.shouldQuit = TRUE]
          \/ \E text \in Texts : app' = Drawn(text)
      BY <1>15, <2>1 DEF UiWrite, Esc, Turn
    <2>4. app' \in [valid : BOOLEAN, balance : Balances \cup {-1}, shouldQuit : BOOLEAN,
                   text : Texts]
      BY <2>1, <2>2, <2>3
    <2>5. UNCHANGED <<signed, nodeVars, panels, files, countVars>>
      BY <1>15 DEF UiWrite, Esc, Turn
    <2> QED
      BY <1>1, <2>4, <2>5 DEF DataTyped
  <1>16. CASE Await
    <2>1. stage' \in DOMAIN Handshake
      BY <1>1, <1>16, AwaitCases, HandshakeFacts DEF DataTyped, IInv
    <2>2. UNCHANGED <<signed, nodeVars, screenVars, next, made, acts>>
      BY <1>16 DEF Await
    <2> QED
      BY <1>1, <2>1, <2>2 DEF DataTyped
  <1>17. CASE \E c \in Children : Handle(c)
    <2>1. PICK c \in Children : Handle(c)
      BY <1>17
    <2>2. PICK request \in Lines, reply \in Lines : Answered(c, request, reply)
      BY <2>1, HandleEffect DEF IInv
    <2>3. child' \in [Children -> {"new", "ready", "gone"}]
      BY <1>1, <2>2 DEF DataTyped, Answered
    <2>4. published' \in [Makers -> Seq(Nat)]
      <3>1. CASE request.kind # "PublishTx"
        BY <1>1, <2>2, <3>1 DEF DataTyped, Answered
      <3>2. CASE request.kind = "PublishTx"
        <4>1. c = "node"
          <5>1. CASE c = "wallet"
            <6>1. Said("walletIn", request)
              BY <5>1, <2>2 DEF Answered, In
            <6> QED
              BY <6>1, <3>2 DEF Said, WalletKinds
          <5> QED
            BY <5>1 DEF Children
        <4>2. request.by \in Makers /\ request.n = Len(published[request.by]) + 1
          BY <2>2, <3>2, <4>1, PublishNext DEF IInv
        <4>3. published[request.by] \in Seq(Nat) /\ request.n \in Nat
          BY <1>1, <4>2 DEF DataTyped
        <4>4. Append(published[request.by], request.n) \in Seq(Nat)
          BY <4>3
        <4> QED
          BY <1>1, <2>2, <3>2, <4>2, <4>4 DEF DataTyped, Answered
      <3> QED
        BY <3>1, <3>2
    <2>5. UNCHANGED <<signed, lock, poisoned, screenVars, countVars>>
      BY <2>1 DEF Handle
    <2> QED
      BY <1>1, <2>3, <2>4, <2>5 DEF DataTyped
  <1>18. CASE NodePanics \/ \E c \in Children : Orphaned(c)
    <2>1. child' \in [Children -> {"new", "ready", "gone"}]
      BY <1>1, <1>18 DEF DataTyped, NodePanics, Orphaned, Children
    <2>2. UNCHANGED <<signed, lock, poisoned, published, screenVars, countVars>>
      BY <1>18 DEF NodePanics, Orphaned
    <2> QED
      BY <1>1, <2>1, <2>2 DEF DataTyped
  <1>19. CASE LogsLocked \/ \E l \in Locks, p \in {"nodeOut", "nodeErr"} : TakeLock(l, p)
    <2>1. acts' \in 0..MaxActs
      BY <1>1, <1>5, <1>19 DEF DataTyped, LogsLocked, LogLocked, TakeLock
    <2>3. lock' \in [Locks -> {"free", "nodeOut", "nodeErr"}] /\ poisoned' \subseteq Locks
      <3>1. lock \in [Locks -> {"free", "nodeOut", "nodeErr"}] /\ poisoned \subseteq Locks
        BY <1>1 DEF DataTyped
      <3> QED
        BY <1>19, <3>1 DEF LogsLocked, LogLocked, TakeLock
    <2>2. UNCHANGED <<signed, child, published, screenVars, stage, next, made>>
      BY <1>19 DEF LogsLocked, LogLocked, TakeLock
    <2> QED
      BY <1>1, <2>1, <2>2, <2>3 DEF DataTyped
  <1> QED
    BY <1>7, <1>8, <1>9, <1>10, <1>11, <1>12, <1>13, <1>14, <1>15, <1>16, <1>17, <1>18, <1>19
       DEF Next, Main, Bot, Relay, Status, Reader, Keys, Loop, Node, Finished

-----------------------------------------------------------------------------
(* Every step: what the threads hold, the handshake and the end            *)

LEMMA GotoFacts ==
  ASSUME ClientTypeOK, NEW t \in Threads, NEW label
  PROVE  /\ Goto(t, label) => /\ pc'[t] = label
                              /\ \A u \in Threads \ {t} : pc'[u] = pc[u]
         /\ WhileNotQuit(t, label) => /\ AppFree
                                      /\ pc'[t] = IF app.shouldQuit THEN "ended" ELSE label
                                      /\ \A u \in Threads \ {t} : pc'[u] = pc[u]
  BY DEF ClientTypeOK, Goto, WhileNotQuit

LEMMA StartedFacts ==
  ASSUME ClientTypeOK
  PROVE  /\ Started["main"] = "session" /\ Started["bot"] = "check"
         /\ Started["relay"] = "check" /\ Started["status"] = "check"
         /\ Started["reader"] = "outer" /\ Started["err"] = "read" /\ Started["ui"] = "poll"
  BY DEF ClientTypeOK, Started, Threads

\* Which thread an action moves.
Moves(t) ==
    CASE t = "main"   -> Main
      [] t = "bot"    -> Bot
      [] t = "relay"  -> Relay
      [] t = "status" -> Status
      [] t = "reader" -> Reader
      [] t = "err"    -> ErrRead
      [] t = "ui"     -> UiWrite \/ Keys

LEMMA OthersStay ==
  ASSUME ClientTypeOK, NEW t \in Threads, Moves(t), ~Await
  PROVE  \A u \in Threads \ {t} : pc'[u] = pc[u]
  <1>1. CASE t = "main"
    BY <1>1, GotoFacts DEF Moves, Main, Ask, JoinUi, WriteQuit, Wait, JoinThreads, Threads
  <1>2. CASE t = "bot"
    BY <1>2, GotoFacts DEF Moves, Bot, BotCommand, BotSend, Threads
  <1>3. CASE t = "relay"
    BY <1>3, GotoFacts DEF Moves, Relay, RelayCheck, RelayRead, RelayPublish, Threads
  <1>4. CASE t = "status"
    BY <1>4, GotoFacts DEF Moves, Status, StatusCheck, StatusAsk, Threads
  <1>5. CASE t = "reader"
    <2>1. ReaderRead => Goto("reader", "inner") \/ Goto("reader", "saving") \/ WhileNotQuit("reader", "inner")
      BY ReaderReadCases
    <2> QED
      BY <1>5, <2>1, GotoFacts DEF Moves, Reader, ReaderOuter, ReaderInner, ReaderSave, Threads
  <1>6. CASE t = "err"
    BY <1>6, GotoFacts DEF Moves, ErrRead, Threads
  <1>7. CASE t = "ui"
    BY <1>7, GotoFacts DEF Moves, UiWrite, Keys, Enter, CtrlS, Esc, Turn, Threads
  <1> QED
    BY <1>1, <1>2, <1>3, <1>4, <1>5, <1>6, <1>7 DEF Threads

\* What the children do, and nothing.
Aside == (\E c \in Children : Loop(c)) \/ Node \/ LogsLocked \/ UNCHANGED vars

LEMMA WhoMoves ==
  ASSUME [Next]_vars
  PROVE  (\E t \in Threads : Moves(t)) \/ Aside
  BY DEF Next, Moves, Threads, Aside, Finished

LEMMA AsideKeeps ==
  ASSUME Aside
  PROVE  UNCHANGED <<pc, signed, screenVars, stage, next, made>>
  <1>1. CASE \E c \in Children : Loop(c)
    BY <1>1 DEF Loop, Handle, Orphaned, countVars
  <1>2. CASE Node
    BY <1>2 DEF Node, Notify, NodePanics, TakeLock, countVars
  <1>3. CASE LogsLocked
    BY <1>3 DEF LogsLocked, LogLocked, countVars
  <1>4. CASE UNCHANGED vars
    BY <1>4 DEF vars, countVars
  <1> QED
    BY <1>1, <1>2, <1>3, <1>4 DEF Aside

LEMMA RelayStep ==
  ASSUME ClientTypeOK, PipesSay, RelayHolds, [Next]_vars
  PROVE  RelayHolds'
  <1>1. CASE UNCHANGED signed /\ pc'["relay"] = pc["relay"]
    BY <1>1 DEF RelayHolds
  <1>2. CASE Aside
    BY <1>1, <1>2, AsideKeeps
  <1>3. CASE Await
    <2>1. pc'["relay"] = pc["relay"] \/ pc'["relay"] = "check"
      BY <1>3, AwaitCases, GotoFacts, StartedFacts DEF Threads
    <2>2. UNCHANGED signed
      BY <1>3 DEF Await
    <2> QED
      BY <2>1, <2>2 DEF RelayHolds
  <1>4. CASE RelayCheck
    <2>1. UNCHANGED signed
      BY <1>4 DEF RelayCheck
    <2>2. pc'["relay"] \in {"ended", IF signed = Nothing THEN "read" ELSE "publish"}
      BY <1>4, GotoFacts DEF RelayCheck, Threads
    <2> QED
      BY <2>1, <2>2 DEF RelayHolds
  <1>5. CASE RelayRead
    <2>1. pc'["relay"] = "check"
      BY <1>5, GotoFacts DEF RelayRead, Threads
    <2>2. FirstLine("walletOut") = Nothing \/ FirstLine("walletOut") \in On(pipe["walletOut"])
      BY <1>5, ReadEffect DEF RelayRead, Pipes, ClientTypeOK, PipesTyped
    <2>3. ASSUME FirstLine("walletOut").kind = "SignResponse"
          PROVE  FirstLine("walletOut").by \in Makers
      <3>1. FirstLine("walletOut") \in On(pipe["walletOut"])
        BY <2>2, <2>3, LineFacts
      <3>2. Said("walletOut", FirstLine("walletOut"))
        BY <3>1 DEF PipesSay, Pipes
      <3> QED
        BY <2>3, <3>2, Replies DEF Said, WalletKinds
    <2>4. signed' = Nothing \/ (signed'.kind = "SignResponse" /\ signed'.by \in Makers)
      BY <1>5, <2>3 DEF RelayRead
    <2> QED
      BY <2>1, <2>4 DEF RelayHolds
  <1>6. CASE RelayPublish
    <2>1. pc'["relay"] = "check" /\ signed' = Nothing
      BY <1>6, GotoFacts DEF RelayPublish, Threads
    <2> QED
      BY <2>1 DEF RelayHolds
  <1>7. ASSUME NEW t \in Threads \ {"relay"}, Moves(t), ~Await
        PROVE  RelayHolds'
    <2>1. pc'["relay"] = pc["relay"]
      BY <1>7, OthersStay DEF Threads
    <2>2. UNCHANGED signed
      <3>1. Main \/ Bot \/ Status => UNCHANGED signed
        BY <1>7 DEF Main, Ask, JoinUi, WriteQuit, Wait, JoinThreads, Bot, BotCommand, BotSend, Status,
                    StatusCheck, StatusAsk
      <3>2. Reader \/ ErrRead => UNCHANGED signed
        BY DEF Reader, ReaderOuter, ReaderInner, ReaderRead, ReaderSave, ErrRead
      <3>3. UiWrite \/ Keys => UNCHANGED signed
        BY DEF UiWrite, Keys, Enter, CtrlS, Esc, Turn
      <3> QED
        BY <1>7, <3>1, <3>2, <3>3 DEF Moves, Threads
    <2> QED
      BY <1>1, <2>1, <2>2
  <1>8. ASSUME Moves("relay")
        PROVE  RelayHolds'
    BY <1>4, <1>5, <1>6, <1>8 DEF Moves, Relay
  <1> QED
    BY <1>2, <1>3, <1>7, <1>8, WhoMoves

LEMMA ThreadsApart ==
  ASSUME NEW t \in Threads, Moves(t)
  PROVE  UNCHANGED nodeVars
  <1>1. Main \/ Bot \/ Status => UNCHANGED nodeVars
    BY DEF Main, Ask, Await, JoinUi, WriteQuit, Wait, JoinThreads, Bot, BotCommand, BotSend, Status,
           StatusCheck, StatusAsk
  <1>2. Relay \/ Reader \/ ErrRead => UNCHANGED nodeVars
    BY DEF Relay, RelayCheck, RelayRead, RelayPublish,
           Reader, ReaderOuter, ReaderInner, ReaderRead, ReaderSave, ErrRead
  <1>3. UiWrite \/ Keys => UNCHANGED nodeVars
    BY DEF UiWrite, Keys, Enter, CtrlS, Esc, Turn
  <1> QED
    BY <1>1, <1>2, <1>3 DEF Moves, Threads

LEMMA ChildSteps ==
  ASSUME ClientTypeOK, [Next]_vars, NEW c \in Children
  PROVE  /\ child[c] # "new" => child'[c] # "new"
         /\ child[c] = "gone" => child'[c] = "gone"
  <1>1. ASSUME NEW t \in Threads, Moves(t)
        PROVE  UNCHANGED child
    BY <1>1, ThreadsApart DEF nodeVars
  <1>2. ASSUME NEW b \in Children, Loop(b)
        PROVE  /\ child[c] # "new" => child'[c] # "new"
               /\ child[c] = "gone" => child'[c] = "gone"
    <2>1. child[b] # "gone" /\ \E v \in {"gone", "ready"} : child' = [child EXCEPT ![b] = v]
      BY <1>2 DEF Loop, Handle, Orphaned
    <2> QED
      BY <2>1 DEF ClientTypeOK
  <1>3. Node \/ LogsLocked \/ UNCHANGED vars =>
          UNCHANGED child \/ child' = [child EXCEPT !["node"] = "gone"]
    BY DEF Node, Notify, NodePanics, TakeLock, LogsLocked, LogLocked, vars, nodeVars
  <1>4. ASSUME child' = [child EXCEPT !["node"] = "gone"]
        PROVE  /\ child[c] # "new" => child'[c] # "new"
               /\ child[c] = "gone" => child'[c] = "gone"
    <2>1. child'[c] = IF c = "node" THEN "gone" ELSE child[c]
      BY <1>4 DEF ClientTypeOK
    <2> QED
      BY <2>1
  <1>5. CASE Aside
    <2>1. CASE \E b \in Children : Loop(b)
      BY <1>2, <2>1
    <2>2. CASE Node \/ LogsLocked \/ UNCHANGED vars
      <3>1. CASE UNCHANGED child
        BY <3>1
      <3>2. CASE child' = [child EXCEPT !["node"] = "gone"]
        BY <1>4, <3>2
      <3>3. UNCHANGED child \/ child' = [child EXCEPT !["node"] = "gone"]
        BY <1>3, <2>2, Zenon
      <3> QED
        BY <3>1, <3>2, <3>3
    <2> QED
      BY <1>5, <2>1, <2>2 DEF Aside
  <1>6. CASE \E t \in Threads : Moves(t)
    BY <1>1, <1>6
  <1> QED
    BY <1>5, <1>6, WhoMoves

LEMMA NotStarting ==
  ASSUME ClientTypeOK, [Next]_vars, ~Starting
  PROVE  ~Starting'
  <1>1. pc'["main"] = pc["main"] => ~Starting'
    BY DEF Starting
  <1>2. CASE Aside
    BY <1>1, <1>2, AsideKeeps
  <1>3. CASE Main
    <2>1. ~Ask /\ ~Await
      BY DEF Ask, Await, At, Starting
    <2>2. \E label \in {"quit node", "quit wallet", "wait", "join", "panicked", "ended"} :
             Goto("main", label)
      BY <1>3, <2>1 DEF Main, JoinUi, WriteQuit, Wait, JoinThreads
    <2> QED
      BY <2>2, GotoFacts DEF Threads, Starting
  <1>4. ASSUME NEW t \in Threads \ {"main"}, Moves(t)
        PROVE  ~Starting'
    <2>1. ~Await
      BY DEF Await, At, Starting
    <2> QED
      BY <1>1, <1>4, <2>1, OthersStay DEF Threads
  <1> QED
    BY <1>2, <1>3, <1>4, WhoMoves DEF Moves

\* Before the threads start, only main and the children do something.
LEMMA WhileStarting ==
  ASSUME ClientTypeOK, HandshakeHolds, [Next]_vars, Starting
  PROVE  Ask \/ Await \/ Aside
  <1>1. \A t \in Threads \ {"main"} : pc[t] = "new"
    BY DEF HandshakeHolds
  <1>2. ~BotCommand /\ ~BotSend /\ ~Relay /\ ~Status /\ ~Reader /\ ~ErrRead
    BY <1>1 DEF Threads, BotCommand, BotSend, Relay, RelayCheck, RelayRead, RelayPublish, Status,
                StatusCheck, StatusAsk, Reader, ReaderOuter, ReaderInner, ReaderRead, ReaderSave,
                ErrRead, At
  <1>3. ~UiWrite /\ ~Keys
    BY <1>1 DEF Threads, UiWrite, Keys, Enter, CtrlS, Esc, Turn, At
  <1>4. ~JoinUi /\ ~WriteQuit /\ ~Wait /\ ~JoinThreads
    BY DEF Starting, JoinUi, WriteQuit, Wait, JoinThreads, At
  <1> QED
    BY <1>2, <1>3, <1>4 DEF Next, Main, Bot, Aside, Finished

LEMMA HandshakeStep ==
  ASSUME ClientTypeOK, PipesSay, RelayHolds, HandshakeHolds, [Next]_vars
  PROVE  HandshakeHolds'
  <1>0. PipesTyped /\ "node" \in Children /\ "wallet" \in Children
    BY DEF ClientTypeOK, PipesTyped, Children
  <1>1. CASE ~Starting
    <2>1. \A c \in Children : child[c] # "new"
      BY <1>1 DEF HandshakeHolds, NewChild, Starting, Children
    <2>2. \A c \in Children : child'[c] # "new"
      BY <2>1, ChildSteps
    <2>3. ~Starting'
      BY <1>1, NotStarting
    <2> QED
      BY <1>0, <2>2, <2>3 DEF HandshakeHolds
  <1>2. CASE Starting /\ pipe' = pipe /\ UNCHANGED <<pc, stage, child>>
    BY <1>2 DEF HandshakeHolds, NewChild, Starting
  <1>3. CASE Starting /\ Ask
    <2> DEFINE to == Handshake[stage].to
               line == Line(Handshake[stage].ask)
    <2>1. /\ to \in Children /\ In[to] \in Pipes /\ line \in Lines /\ Write(In[to], line)
          /\ line.kind \in {"Initialize", "GetUserInfo"} /\ line.by = "client"
      BY <1>3, AskWrites, LineFacts DEF Writes
    <2>2. /\ pc["main"] = "ask" /\ pc'["main"] = "await"
          /\ \A t \in Threads \ {"main"} : pc'[t] = pc[t]
      BY <1>3, GotoFacts DEF Ask, At, Threads
    <2>3. UNCHANGED <<child, stage>>
      BY <1>3 DEF Ask, nodeVars, countVars
    <2> HIDE DEF line, to
    <2>4. /\ \A q \in Pipes \ {In[to]} : pipe'[q] = pipe[q]
          /\ On(pipe'[In[to]]) \subseteq On(pipe[In[to]]) \cup {line}
          /\ child[Child(In[to])] # "gone" => pipe'[In[to]] = Append(pipe[In[to]], line)
      BY <1>0, <2>1, WriteEffect
    <2>5. /\ \A t \in Threads \ {"main"} : pc'[t] = "new"
          /\ \A q \in Pipes : \A l \in On(pipe'[q]) : Early(l)
      <3>1. Early(line)
        BY <2>1 DEF Early, EarlyKinds
      <3> QED
        BY <1>3, <2>1, <2>2, <2>4, <3>1 DEF HandshakeHolds
    <2>6. \A c \in Children : Out[c] # In[to] /\ Out[c] \in Pipes
      BY <2>1 DEF Children, In, Out, Pipes
    <2>7. \A c \in Children : \A l \in On(pipe'[Out[c]]) : l.kind = "Initialized" => child'[c] # "new"
      BY <2>3, <2>4, <2>6 DEF HandshakeHolds
    <2>8. ASSUME NEW c \in Children, child[c] = "new", stage = IF c = "node" THEN 1 ELSE 2,
                 pipe[In[c]] = <<>>
          PROVE  pipe'[In[c]] = <<Line("Initialize")>>
      <3>1. to = c /\ line = Line("Initialize")
        BY <2>8, HandshakeFacts DEF Children, to, line
      <3>2. child[Child(In[c])] # "gone"
        BY <2>8 DEF Children, In, Child
      <3> QED
        BY <2>4, <2>8, <3>1, <3>2
    <2>9. child'["node"] = "new" => NewChild("node", 1)'
      BY <1>0, <2>2, <2>3, <2>8 DEF HandshakeHolds, NewChild
    <2>10. child'["wallet"] = "new" =>
              NewChild("wallet", 2)' \/ (stage' = 1 /\ Starting' /\ pipe'["walletIn"] = <<>>)
      <3>1. ASSUME child["wallet"] = "new", stage = 1, pipe["walletIn"] = <<>>
            PROVE  pipe'["walletIn"] = <<>>
        <4>1. In[to] = "nodeIn"
          BY <3>1, HandshakeFacts DEF In, to
        <4> QED
          BY <2>4, <3>1, <4>1 DEF Pipes
      <3> QED
        BY <1>0, <2>2, <2>3, <2>8, <3>1 DEF HandshakeHolds, NewChild, Starting
    <2> QED
      BY <2>5, <2>7, <2>9, <2>10 DEF HandshakeHolds
  <1>4. CASE Starting /\ Await
    <2> DEFINE p == Out[Handshake[stage].to]
    <2>1. p \in Pipes /\ Read(p) /\ Handshake[stage].to \in Children
      BY <1>4, AwaitReads
    <2>2. /\ \A q \in Pipes : On(pipe'[q]) \subseteq On(pipe[q])
          /\ \A q \in Pipes \ {p} : pipe'[q] = pipe[q]
          /\ FirstLine(p) = Nothing \/ FirstLine(p) \in On(pipe[p])
      BY <1>0, <2>1, ReadEffect
    <2>3. UNCHANGED child
      BY <1>4 DEF Await, nodeVars
    <2>4. pc["main"] = "await" /\ stage \in 1..3
      BY <1>4, HandshakeFacts DEF Await, At, ClientTypeOK
    <2>5. \/ UNCHANGED <<pc, stage>>
          \/ /\ stage < 3 /\ stage' = stage + 1 /\ FirstLine(p).kind = Handshake[stage].reply
             /\ pc'["main"] = "ask" /\ \A t \in Threads \ {"main"} : pc'[t] = pc[t]
          \/ /\ stage = 3 /\ pc'["main"] = "session"
      BY <1>4, AwaitCases, GotoFacts, StartedFacts DEF Threads
    <2>6. \A c \in Children : /\ In[c] \in Pipes \ {p} /\ Out[c] \in Pipes
                             /\ pipe'[In[c]] = pipe[In[c]]
      <3>1. \A c \in Children : In[c] \in Pipes \ {p} /\ Out[c] \in Pipes
        BY <2>1 DEF Children, In, Out, Pipes
      <3> QED
        BY <2>2, <3>1
    <2> HIDE DEF p
    <2>7. Starting' => /\ \A t \in Threads \ {"main"} : pc'[t] = "new"
                       /\ \A q \in Pipes : \A l \in On(pipe'[q]) : Early(l)
      BY <1>4, <2>2, <2>5 DEF HandshakeHolds, Starting
    <2>8. \A c \in Children : \A l \in On(pipe'[Out[c]]) : l.kind = "Initialized" => child'[c] # "new"
      BY <2>2, <2>3, <2>6 DEF HandshakeHolds
    <2>9. ASSUME NEW c \in Children, p = Out[c], stage # 3,
                 FirstLine(p).kind = Handshake[stage].reply
          PROVE  child[c] # "new"
      <3>1. FirstLine(p).kind = "Initialized"
        BY <2>4, <2>9, HandshakeFacts
      <3> QED
        BY <2>2, <2>9, <3>1, LineFacts DEF HandshakeHolds
    <2>10. child["node"] = "new" => UNCHANGED <<pc, stage>>
      <3>1. ASSUME child["node"] = "new"
            PROVE  stage = 1 /\ p = Out["node"]
        BY <3>1, HandshakeFacts DEF HandshakeHolds, NewChild, p
      <3> QED
        BY <1>0, <2>4, <2>5, <2>9, <3>1
    <2>11. child["wallet"] = "new" => \/ UNCHANGED <<pc, stage>>
                                      \/ stage = 1 /\ stage' = 2 /\ pc'["main"] = "ask"
                                         /\ pipe["walletIn"] = <<>>
      <3>1. CASE child["wallet"] = "new" /\ stage = 2
        <4>1. p = Out["wallet"]
          BY <3>1, HandshakeFacts DEF p
        <4> QED
          BY <1>0, <2>4, <2>5, <2>9, <3>1, <4>1
      <3>2. CASE child["wallet"] = "new" /\ stage # 2
        <4>1. stage = 1 /\ pipe["walletIn"] = <<>>
          BY <3>2 DEF HandshakeHolds, NewChild
        <4> QED
          BY <2>5, <4>1
      <3> QED
        BY <3>1, <3>2
    <2>12. In["node"] = "nodeIn" /\ In["wallet"] = "walletIn"
      BY DEF In
    <2>13. child'["node"] = "new" => NewChild("node", 1)'
      BY <1>0, <2>3, <2>6, <2>10 DEF HandshakeHolds, NewChild
    <2>14. child'["wallet"] = "new" =>
              NewChild("wallet", 2)' \/ (stage' = 1 /\ Starting' /\ pipe'["walletIn"] = <<>>)
      BY <1>0, <2>3, <2>6, <2>11, <2>12 DEF HandshakeHolds, NewChild, Starting
    <2> QED
      BY <2>7, <2>8, <2>13, <2>14 DEF HandshakeHolds
  <1>5. ASSUME Starting, NEW c \in Children, Handle(c)
        PROVE  HandshakeHolds'
    <2>1. PICK request \in Lines, reply \in Lines : Answered(c, request, reply)
      BY <1>5, HandleEffect
    <2>2. UNCHANGED <<pc, stage>>
      BY <1>5 DEF Handle, countVars
    <2>3. /\ In[c] \in Pipes /\ Out[c] \in Pipes
          /\ request \in On(pipe[In[c]]) /\ reply.by = request.by
          /\ reply.kind = ReplyTo[request.kind] /\ child'[c] # "new"
          /\ \A b \in Children \ {c} : child'[b] = child[b]
          /\ On(pipe'[In[c]]) \subseteq On(pipe[In[c]])
          /\ On(pipe'[Out[c]]) \subseteq On(pipe[Out[c]]) \cup {reply}
          /\ \A q \in Pipes \ {In[c], Out[c]} : pipe'[q] = pipe[q]
          /\ Said(In[c], request)
      <3>1. In[c] \in Pipes /\ Out[c] \in Pipes
        BY DEF Children, In, Out, Pipes
      <3>2. child'[c] # "new" /\ \A b \in Children \ {c} : child'[b] = child[b]
        BY <2>1 DEF Answered, ClientTypeOK
      <3> QED
        BY <2>1, <3>1, <3>2 DEF Answered
    <2>4. Early(reply)
      <3>1. Early(request) /\ request.kind \in {"Initialize", "GetUserInfo"}
        <4>1. Early(request)
          BY <1>5, <2>3 DEF HandshakeHolds
        <4>2. request.kind \in NodeKinds \cup WalletKinds \cup {"PublishTx", "SignRequest"}
          <5>1. In[c] = "nodeIn" \/ In[c] = "walletIn"
            BY DEF Children, In
          <5>2. In[c] = "nodeIn" => request.kind \in NodeKinds \cup {"PublishTx"}
            BY <2>3 DEF Said
          <5>3. In[c] = "walletIn" => request.kind \in WalletKinds \cup {"SignRequest"}
            BY <2>3 DEF Said
          <5> QED
            BY <5>1, <5>2, <5>3
        <4> QED
          BY <4>1, <4>2, OtherKinds DEF Early, EarlyKinds, NodeKinds, WalletKinds
      <3> QED
        BY <2>3, <3>1, Replies DEF Early, EarlyKinds
    <2>5. /\ \A t \in Threads \ {"main"} : pc'[t] = "new"
          /\ \A q \in Pipes : \A l \in On(pipe'[q]) : Early(l)
      BY <1>5, <2>2, <2>3, <2>4 DEF HandshakeHolds
    <2>6. \A b \in Children \ {c} : /\ pipe'[Out[b]] = pipe[Out[b]]
                                   /\ pipe'[In[b]] = pipe[In[b]]
      <3>1. \A b \in Children \ {c} : {Out[b], In[b]} \subseteq Pipes \ {In[c], Out[c]}
        BY DEF Children, In, Out, Pipes
      <3> QED
        BY <2>3, <3>1
    <2>7. \A b \in Children : \A l \in On(pipe'[Out[b]]) : l.kind = "Initialized" => child'[b] # "new"
      BY <2>3, <2>6 DEF HandshakeHolds
    <2>8. In["node"] = "nodeIn" /\ In["wallet"] = "walletIn"
      BY DEF In
    <2>9. child'["node"] = "new" => NewChild("node", 1)'
      BY <1>0, <2>2, <2>3, <2>6 DEF HandshakeHolds, NewChild
    <2>10. child'["wallet"] = "new" =>
              NewChild("wallet", 2)' \/ (stage' = 1 /\ Starting' /\ pipe'["walletIn"] = <<>>)
      BY <1>0, <2>2, <2>3, <2>6, <2>8 DEF HandshakeHolds, NewChild, Starting
    <2> QED
      BY <2>5, <2>7, <2>9, <2>10 DEF HandshakeHolds
  <1>6. ASSUME Starting, NEW c \in Children, Orphaned(c)
        PROVE  HandshakeHolds'
    BY <1>6 DEF Starting, Orphaned, Alive, Over
  <1>7. CASE Starting /\ (Notify \/ LogsLocked)
    <2>1. PICK p \in {"nodeOut", "nodeErr"} : Writes(p, Line("Notify"))
      BY <1>7, NotifyWrites
    <2>2. /\ On(pipe'[p]) \subseteq On(pipe[p]) \cup {Line("Notify")}
          /\ \A q \in Pipes \ {p} : pipe'[q] = pipe[q]
      BY <1>0, <2>1, WriteEffect DEF Writes
    <2>3. UNCHANGED <<pc, stage, child>>
      BY <1>7 DEF Notify, LogsLocked, LogLocked, nodeVars, countVars
    <2>4. Line("Notify").kind = "Notify" /\ Early(Line("Notify"))
      BY LineFacts DEF Early, EarlyKinds
    <2>5. /\ \A t \in Threads \ {"main"} : pc'[t] = "new"
          /\ \A q \in Pipes : \A l \in On(pipe'[q]) : Early(l)
      BY <1>7, <2>2, <2>3, <2>4 DEF HandshakeHolds
    <2>6. \A b \in Children : pipe'[In[b]] = pipe[In[b]] /\ Out[b] \in Pipes
      <3>1. \A b \in Children : In[b] \in Pipes \ {p} /\ Out[b] \in Pipes
        BY DEF Children, In, Out, Pipes
      <3> QED
        BY <2>2, <3>1
    <2>7. \A b \in Children : \A l \in On(pipe'[Out[b]]) : l.kind = "Initialized" => child'[b] # "new"
      BY <2>2, <2>3, <2>4, <2>6 DEF HandshakeHolds
    <2>8. In["node"] = "nodeIn" /\ In["wallet"] = "walletIn"
      BY DEF In
    <2>9. child'["node"] = "new" => NewChild("node", 1)'
      BY <1>0, <2>3, <2>6 DEF HandshakeHolds, NewChild
    <2>10. child'["wallet"] = "new" =>
              NewChild("wallet", 2)' \/ (stage' = 1 /\ Starting' /\ pipe'["walletIn"] = <<>>)
      BY <1>0, <2>3, <2>6, <2>8 DEF HandshakeHolds, NewChild, Starting
    <2> QED
      BY <2>5, <2>7, <2>9, <2>10 DEF HandshakeHolds
  <1>8. CASE Starting /\ NodePanics
    <2>1. pipe["nodeIn"] # <<>> /\ FirstLine("nodeIn").kind \notin EarlyKinds
      <3>1. FirstLine("nodeIn").kind \in Needs["chain"] \cup Needs["pool"]
        BY <1>8 DEF NodePanics, Unwraps, ClientTypeOK, Locks, Needs
      <3> QED
        BY <3>1, LineFacts DEF FirstLine, Needs, EarlyKinds
    <2>2. FirstLine("nodeIn") \in On(pipe["nodeIn"])
      BY <1>0, <2>1, OnTail DEF FirstLine, Pipes, PipesTyped
    <2>3. Early(FirstLine("nodeIn"))
      BY <1>8, <2>2 DEF HandshakeHolds, Pipes
    <2> QED
      BY <2>1, <2>3 DEF Early
  <1>9. ASSUME Starting, NEW l \in Locks, NEW p \in {"nodeOut", "nodeErr"}, TakeLock(l, p)
        PROVE  HandshakeHolds'
    BY <1>2, <1>9 DEF TakeLock
  <1>10. CASE UNCHANGED vars
    BY <1>1, <1>2, <1>10 DEF vars, nodeVars, countVars
  <1> QED
    BY <1>1, <1>3, <1>4, <1>5, <1>6, <1>7, <1>8, <1>9, <1>10, WhileStarting
       DEF Aside, Loop, Node

\* The user's escape key, and nothing else, lets the session end.
LEMMA QuitSteps ==
  ASSUME ClientTypeOK, HandshakeHolds, EndsAfterQuit, [Next]_vars
  PROVE  /\ app.shouldQuit => app'.shouldQuit
         /\ app'.shouldQuit <=> pc'["ui"] = "ended"
  <1>0. app.shouldQuit <=> pc["ui"] = "ended"
    BY DEF EndsAfterQuit
  <1>1. CASE app'.shouldQuit = app.shouldQuit /\ pc'["ui"] = pc["ui"]
    BY <1>0, <1>1
  <1>2. CASE Aside
    BY <1>1, <1>2, AsideKeeps DEF screenVars
  <1>3. CASE Await
    <2>1. app' = app /\ ~app.shouldQuit
      BY <1>0, <1>3 DEF Await, At, HandshakeHolds, Starting, screenVars, Threads
    <2>2. pc'["ui"] = pc["ui"] \/ pc'["ui"] = "poll"
      BY <1>3, AwaitCases, GotoFacts, StartedFacts DEF Threads
    <2> QED
      BY <1>0, <2>1, <2>2
  <1>4. ASSUME NEW t \in Threads \ {"ui"}, Moves(t), ~Await
        PROVE  app'.shouldQuit = app.shouldQuit /\ pc'["ui"] = pc["ui"]
    <2>1. pc'["ui"] = pc["ui"]
      BY <1>4, OthersStay DEF Threads
    <2>2. app' = app \/ \E b : app' = [app EXCEPT !.balance = b]
      <3> USE DEF screenVars
      <3>1. Main \/ Bot \/ Status => app' = app
        BY <1>4 DEF Main, Ask, JoinUi, WriteQuit, Wait, JoinThreads, Bot, BotCommand, BotSend, Status,
                    StatusCheck, StatusAsk
      <3>2. Relay \/ ReaderOuter \/ ReaderInner \/ ReaderSave \/ ErrRead => app' = app
        BY DEF Relay, RelayCheck, RelayRead, RelayPublish,
               ReaderOuter, ReaderInner, ReaderSave, ErrRead
      <3>3. ReaderRead => app' = app \/ \E b : app' = [app EXCEPT !.balance = b]
        BY ReaderReadCases
      <3> QED
        BY <1>4, <3>1, <3>2, <3>3 DEF Moves, Threads, Reader
    <2> QED
      BY <2>1, <2>2 DEF ClientTypeOK
  <1>5. CASE UiWrite \/ Enter \/ CtrlS
    <2>1. pc["ui"] # "ended" /\ pc'["ui"] # "ended"
      BY <1>5, GotoFacts DEF UiWrite, Enter, CtrlS, At, Threads
    <2>2. app'.shouldQuit = app.shouldQuit
      BY <1>5 DEF UiWrite, Enter, CtrlS, Drawn, screenVars, ClientTypeOK
    <2> QED
      BY <1>0, <2>1, <2>2
  <1>6. ASSUME NEW text \in Texts, Turn(text)
        PROVE  app'.shouldQuit = app.shouldQuit /\ pc'["ui"] = pc["ui"]
    BY <1>6 DEF Turn, Drawn, ClientTypeOK
  <1>7. CASE Esc
    <2>1. pc'["ui"] = "ended"
      BY <1>7, GotoFacts DEF Esc, Threads
    <2>2. app'.shouldQuit = TRUE
      BY <1>7 DEF Esc, ClientTypeOK
    <2> QED
      BY <2>1, <2>2
  <1> QED
    BY <1>1, <1>2, <1>3, <1>4, <1>5, <1>6, <1>7, WhoMoves DEF Moves, Keys

\* Where the threads go that end.
LEMMA EndSteps ==
  ASSUME ClientTypeOK, HandshakeHolds, EndsAfterQuit, [Next]_vars,
         NEW t \in {"relay", "status", "reader", "err"}
  PROVE  pc'[t] = pc[t] \/ pc'[t] \notin Over \/ app.shouldQuit
  <1>1. CASE Aside
    BY <1>1, AsideKeeps
  <1>2. CASE Await
    BY <1>2, AwaitCases, GotoFacts, StartedFacts DEF Threads, Over
  <1>3. ASSUME NEW u \in Threads \ {t}, Moves(u), ~Await
        PROVE  pc'[t] = pc[t]
    BY <1>3, OthersStay DEF Threads
  <1>4. CASE t = "relay" /\ Moves(t)
    BY <1>4, GotoFacts DEF Moves, Relay, RelayCheck, RelayRead, RelayPublish, Threads, Over
  <1>5. CASE t = "status" /\ Moves(t)
    BY <1>5, GotoFacts DEF Moves, Status, StatusCheck, StatusAsk, Threads, Over
  <1>6. CASE t = "reader" /\ Moves(t)
    <2>1. ReaderRead => Goto("reader", "inner") \/ Goto("reader", "saving") \/ WhileNotQuit("reader", "inner")
      BY ReaderReadCases
    <2>2. ReaderInner => app.shouldQuit \/ Goto("reader", "read")
      BY DEF ReaderInner
    <2> QED
      BY <1>6, <2>1, <2>2, GotoFacts DEF Moves, Reader, ReaderOuter, ReaderSave, Threads, Over
  <1>7. CASE t = "err" /\ Moves(t)
    BY <1>7, GotoFacts DEF Moves, ErrRead, Threads, Over
  <1> QED
    BY <1>1, <1>2, <1>3, <1>4, <1>5, <1>6, <1>7, WhoMoves

\* Only main says Quit, after the user has quit.
LEMMA QuitLines ==
  ASSUME ClientTypeOK, PipesSay, RelayHolds, HandshakeHolds, EndsAfterQuit, [Next]_vars,
         NEW c \in Children, NEW line \in On(pipe'[In[c]]), line.kind = "Quit"
  PROVE  app.shouldQuit
  <1>0. PipesTyped /\ In[c] \in Pipes /\ \A b \in Children : Out[b] \in Pipes /\ Out[b] # In[c]
    BY DEF ClientTypeOK, PipesTyped, Children, In, Out, Pipes
  <1>1. CASE line \in On(pipe[In[c]])
    BY <1>1 DEF EndsAfterQuit
  <1>2. CASE Silent
    BY <1>1, <1>2, SilentPipes
  <1>3. ASSUME NEW p, NEW l, Writes(p, l), l.kind # "Quit"
        PROVE  line \in On(pipe[In[c]])
    BY <1>0, <1>3, WriteEffect DEF Writes
  <1>4. CASE Ask \/ BotSend \/ RelayPublish \/ StatusAsk \/ UiWrite
    <2>1. StatusAsk => StatusRound[next] # "Quit"
      BY StatusAskWrites, OtherKinds
    <2> QED
      BY <1>1, <1>3, <1>4, <2>1, AskWrites, BotSendWrites, RelayPublishWrites, StatusAskWrites,
         UiWriteWrites, LineFacts
  <1>5. CASE Notify \/ LogsLocked
    BY <1>1, <1>3, <1>5, NotifyWrites, LineFacts
  <1>6. CASE WriteQuit
    BY <1>6 DEF WriteQuit, At, EndsAfterQuit
  <1>7. ASSUME NEW p \in Pipes, Read(p)
        PROVE  line \in On(pipe[In[c]])
    BY <1>0, <1>7, ReadEffect
  <1>8. CASE Await \/ RelayRead \/ ReaderRead \/ ErrRead
    BY <1>1, <1>7, <1>8, AwaitReads DEF RelayRead, ReaderRead, ErrRead, Pipes
  <1>9. ASSUME NEW b \in Children, Handle(b)
        PROVE  line \in On(pipe[In[c]])
    <2>1. PICK request \in Lines, reply \in Lines : Answered(b, request, reply)
      BY <1>9, HandleEffect
    <2>2. On(pipe'[In[b]]) \subseteq On(pipe[In[b]])
      BY <2>1 DEF Answered
    <2>3. In[b] = In[c] \/ pipe'[In[c]] = pipe[In[c]]
      BY <1>0, <2>1 DEF Answered
    <2> QED
      BY <2>2, <2>3
  <1> QED
    BY <1>1, <1>2, <1>4, <1>5, <1>6, <1>8, <1>9, Steps

LEMMA MakerFacts ==
  ASSUME NEW m \in Makers
  PROVE  /\ \A line : Mine(line, m) <=> line.by = m
         /\ \A line, q : Nth(line, m, q) <=> line.n = q
         /\ m # "client"
  BY DEF Makers, Mine, Nth

\* A transaction that the node is asked to publish has been made.
LEMMA AskedIsMade ==
  ASSUME ClientTypeOK, TxsInOrder, NEW m \in Makers, pipe["nodeIn"] # <<>>,
         FirstLine("nodeIn").by = m
  PROVE  made[m] > 0
  <1>1. PICK a \in Nat, b \in Nat, c \in Nat, d \in Nat : TxsFit(m, a, b, c, d)
    BY DEF TxsInOrder
  <1>2. /\ published[m] \in Seq(Nat) /\ made[m] \in Nat
        /\ \A p \in Pipes : pipe[p] \in Seq(Lines)
    BY DEF ClientTypeOK
  <1> DEFINE from == IF signed.by = m THEN b + 1 ELSE b
             done == Len(published[m]) + 1
  <1>3. from \in Nat /\ b <= from /\ done \in Nat /\ done >= 1 /\ done + 1 \in Nat
    BY <1>2
  <1>4. /\ InOrder(pipe["nodeIn"], m, done, a) /\ a <= b
        /\ InOrder(pipe["walletOut"], m, from, c)
        /\ InOrder(pipe["walletIn"], m, c, d) /\ d <= Sent(m) + 1
    BY <1>1 DEF TxsFit
  <1>5. Sent(m) \in Int /\ Sent(m) <= made[m]
    BY <1>2 DEF Sent
  <1> HIDE DEF from, done
  <1>6. from <= c /\ c <= d
    BY <1>2, <1>3, <1>4, InOrderBounds DEF Pipes
  <1>7. InOrder(Tail(pipe["nodeIn"]), m, done + 1, a)
    <2>1. Mine(Head(pipe["nodeIn"]), m)
      BY MakerFacts DEF FirstLine
    <2> QED
      BY <1>2, <1>3, <1>4, <2>1, InOrderTail DEF Pipes
  <1>8. done + 1 <= a
    BY <1>2, <1>3, <1>7, OnTail, InOrderBounds DEF Pipes
  <1> QED
    BY <1>2, <1>3, <1>4, <1>5, <1>6, <1>8

LEMMA GoneSteps ==
  ASSUME ClientTypeOK, PipesSay, HandshakeHolds, EndsAfterQuit, TxsInOrder, [Next]_vars,
         NEW c \in Children, child'[c] = "gone"
  PROVE  \/ child[c] = "gone" \/ app.shouldQuit
         \/ c = "node" /\ (poisoned # {} \/ made["mistyped"] > 0)
  <1>1. CASE child' = child
    BY <1>1
  <1>2. ASSUME NEW t \in Threads, Moves(t)
        PROVE  child' = child
    BY <1>2, ThreadsApart DEF nodeVars
  <1>3. ASSUME NEW b \in Children, Handle(b)
        PROVE  child[c] = "gone" \/ app.shouldQuit
    <2>1. PICK request \in Lines, reply \in Lines : Answered(b, request, reply)
      BY <1>3, HandleEffect
    <2>2. request \in On(pipe[In[b]])
      BY <2>1 DEF Answered
    <2>3. child' = [child EXCEPT ![b] = IF request.kind = "Quit" THEN "gone" ELSE "ready"]
      BY <2>1 DEF Answered
    <2>4. c # b => child[c] = "gone"
      BY <2>3 DEF ClientTypeOK
    <2>5. c = b => request.kind = "Quit"
      BY <2>3 DEF ClientTypeOK
    <2> QED
      BY <2>2, <2>4, <2>5 DEF EndsAfterQuit
  <1>4. ASSUME NEW b \in Children, Orphaned(b)
        PROVE  app.shouldQuit
    BY <1>4 DEF Orphaned, Alive, Over, EndsAfterQuit
  <1>5. CASE NodePanics
    <2>1. c # "node" => child[c] = "gone"
      BY <1>5 DEF NodePanics, ClientTypeOK
    <2>2. poisoned = {} => made["mistyped"] > 0
      <3>1. ASSUME poisoned = {}
            PROVE  FirstLine("nodeIn").kind = "PublishTx" /\ FirstLine("nodeIn").by = "mistyped"
        BY <1>5, <3>1 DEF NodePanics, Unwraps
      <3>2. FirstLine("nodeIn").by = "mistyped" => pipe["nodeIn"] # <<>>
        BY LineFacts DEF FirstLine
      <3> QED
        BY <3>1, <3>2, AskedIsMade DEF Makers
    <2> QED
      BY <2>1, <2>2
  <1>6. CASE Notify \/ LogsLocked \/ UNCHANGED vars \/ \E l \in Locks, p \in {"nodeOut", "nodeErr"} : TakeLock(l, p)
    BY <1>1, <1>6 DEF Notify, LogsLocked, LogLocked, TakeLock, vars, nodeVars
  <1> QED
    BY <1>1, <1>2, <1>3, <1>4, <1>5, <1>6, WhoMoves DEF Aside, Loop, Node

LEMMA NothingForgotten ==
  ASSUME ClientTypeOK, [Next]_vars
  PROVE  poisoned \subseteq poisoned' /\ made'["mistyped"] >= made["mistyped"]
  <1>1. made \in [Makers -> Nat] /\ "mistyped" \in Makers
    BY DEF ClientTypeOK, Makers
  <1>2. CASE Aside
    <2>1. made' = made
      BY <1>2, AsideKeeps
    <2>2. poisoned \subseteq poisoned'
      BY <1>2 DEF Aside, Loop, Handle, Orphaned, Node, Notify, NodePanics, TakeLock, LogsLocked,
                  LogLocked, vars, nodeVars
    <2> QED
      BY <1>1, <2>1, <2>2
  <1>3. ASSUME NEW t \in Threads, Moves(t)
        PROVE  poisoned' = poisoned
    BY <1>3, ThreadsApart DEF nodeVars
  <1>4. ASSUME NEW t \in Threads, Moves(t)
        PROVE  made'["mistyped"] >= made["mistyped"]
    <2>1. made' = made \/ \E m \in Makers : made' = [made EXCEPT ![m] = @ + 1]
      <3>1. CASE BotCommand \/ Enter
        BY <3>1, MakerOf DEF BotCommand, Enter, Makers
      <3>2. CASE ~BotCommand /\ ~Enter
        BY <1>4, <3>2 DEF Moves, Threads, countVars, Main, Ask, Await, JoinUi, WriteQuit, Wait,
           JoinThreads, Bot, BotSend, Relay, RelayCheck, RelayRead, RelayPublish, Status,
           StatusCheck, StatusAsk, Reader, ReaderOuter, ReaderInner, ReaderRead, ReaderSave,
           ErrRead, UiWrite, Keys, CtrlS, Esc, Turn
      <3> QED
        BY <3>1, <3>2
    <2> QED
      BY <1>1, <2>1
  <1> QED
    BY <1>2, <1>3, <1>4, WhoMoves

LEMMA EndsStep ==
  ASSUME IInv, [Next]_vars
  PROVE  EndsAfterQuit'
  <1> USE DEF IInv
  <1>1. /\ app.shouldQuit => app'.shouldQuit
        /\ app'.shouldQuit <=> pc'["ui"] = "ended"
    BY QuitSteps
  <1>2. app.shouldQuit \/ pc'["main"] \in {"ask", "await", "session"}
    <2>1. CASE pc'["main"] = pc["main"]
      BY <2>1 DEF EndsAfterQuit
    <2>2. CASE Aside
      BY <2>1, <2>2, AsideKeeps
    <2>3. CASE Ask \/ Await
      BY <2>1, <2>3, AwaitCases, GotoFacts, StartedFacts DEF Ask, Threads
    <2>4. CASE JoinUi \/ WriteQuit \/ Wait \/ JoinThreads
      BY <2>4 DEF JoinUi, WriteQuit, Wait, JoinThreads, At, EndsAfterQuit
    <2>5. ASSUME NEW t \in Threads \ {"main"}, Moves(t), ~Await
          PROVE  pc'["main"] = pc["main"]
      BY <2>5, OthersStay DEF Threads
    <2> QED
      BY <2>1, <2>2, <2>3, <2>4, <2>5, WhoMoves DEF Moves, Main
  <1>3. \A t \in {"relay", "status", "reader", "err"} : pc'[t] \in Over => app.shouldQuit
    BY EndSteps DEF EndsAfterQuit
  <1>4. \A c \in Children : \A line \in On(pipe'[In[c]]) : line.kind = "Quit" => app.shouldQuit
    BY QuitLines
  <1>5. /\ child'["wallet"] = "gone" => app.shouldQuit
        /\ child'["node"] = "gone" => app.shouldQuit \/ poisoned # {} \/ made["mistyped"] > 0
        /\ poisoned \subseteq poisoned' /\ made'["mistyped"] >= made["mistyped"]
    <2>2. poisoned \subseteq poisoned' /\ made'["mistyped"] >= made["mistyped"]
      BY NothingForgotten
    <2>1. {"wallet", "node"} \subseteq Children
      BY DEF Children
    <2> QED
      BY <2>1, <2>2, GoneSteps DEF EndsAfterQuit
  <1>6. made["mistyped"] > 0 => made'["mistyped"] > 0
    <2>1. made["mistyped"] \in Nat /\ made'["mistyped"] \in Nat
      BY TypeStep DEF ClientTypeOK, Makers
    <2> QED
      BY <1>5, <2>1
  <1> QED
    BY <1>1, <1>2, <1>3, <1>4, <1>5, <1>6 DEF EndsAfterQuit

\* The way of main from the threads' start to its end.
LEMMA MainGoes ==
  ASSUME ClientTypeOK
  PROVE  /\ Ask => pc'["main"] = "await"
         /\ Await => pc'["main"] \in {"await", "ask", "session"}
         /\ JoinUi => pc'["main"] = "quit node"
         /\ WriteQuit => pc'["main"] \in {"quit wallet", "wait", "panicked"}
         /\ Wait => pc'["main"] = "join"
         /\ JoinThreads => pc'["main"] \in {"ended", "panicked"}
  <1> USE DEF Threads
  <1>1. Ask => pc'["main"] = "await"
    BY GotoFacts DEF Ask
  <1>2. Await => pc'["main"] \in {"await", "ask", "session"}
    BY AwaitCases, GotoFacts, StartedFacts DEF Await, At
  <1>3. JoinUi => pc'["main"] = "quit node"
    BY GotoFacts DEF JoinUi
  <1>4. ASSUME WriteQuit
        PROVE  pc'["main"] \in {"quit wallet", "wait", "panicked"}
    <2>1. \E label \in {"quit wallet", "wait", "panicked"} : Goto("main", label)
      BY <1>4 DEF WriteQuit
    <2> QED
      BY <2>1, GotoFacts
  <1>5. Wait => pc'["main"] = "join"
    BY GotoFacts DEF Wait
  <1>6. JoinThreads => pc'["main"] \in {"ended", "panicked"}
    BY GotoFacts DEF JoinThreads
  <1> QED
    BY <1>1, <1>2, <1>3, <1>4, <1>5, <1>6

LEMMA EndInOrderStep ==
  ASSUME IInv, [Next]_vars
  PROVE  EndInOrder'
  <1> USE DEF IInv
  <1>1. pc'["main"] \in {"join", "ended"} => \A c \in Children : child'[c] = "gone"
    <2>1. pc'["main"] \in {"join", "ended"} =>
             pc["main"] \in {"join", "ended"} \/ \A c \in Children : child[c] = "gone"
      <3>1. CASE Aside
        BY <3>1, AsideKeeps
      <3>2. CASE Ask \/ Await
        BY <3>2, MainGoes
      <3>3. CASE JoinUi \/ WriteQuit \/ Wait \/ JoinThreads
        BY <3>3, MainGoes DEF Wait, JoinThreads, At
      <3>4. ASSUME NEW t \in Threads \ {"main"}, Moves(t), ~Await
            PROVE  pc'["main"] = pc["main"]
        BY <3>4, OthersStay DEF Threads
      <3> QED
        BY <3>1, <3>2, <3>3, <3>4, WhoMoves DEF Moves, Main
    <2> QED
      BY <2>1, ChildSteps DEF EndInOrder
  <1>2. pc'["main"] = "ended" => \A t \in {"relay", "status", "reader", "err"} : pc'[t] = "ended"
    <2>1. CASE pc["main"] = "ended"
      <3>1. ~Alive
        BY <2>1 DEF Alive, Over
      <3>2. \A t \in Threads : ~Moves(t)
        <4>1. ~Main /\ ~Bot /\ ~Status
          BY <3>1 DEF At, Main, Ask, Await, JoinUi, WriteQuit, Wait, JoinThreads, Bot, BotCommand,
                      BotSend, Status, StatusCheck, StatusAsk
        <4>2. ~Relay /\ ~Reader /\ ~ErrRead
          BY <3>1 DEF At, Relay, RelayCheck, RelayRead, RelayPublish,
                      Reader, ReaderOuter, ReaderInner, ReaderRead, ReaderSave, ErrRead
        <4>3. ~UiWrite /\ ~Keys
          BY <3>1 DEF At, UiWrite, Keys, Enter, CtrlS, Esc, Turn
        <4> QED
          BY <4>1, <4>2, <4>3 DEF Moves, Threads
      <3> QED
        BY <2>1, <3>2, WhoMoves, AsideKeeps DEF EndInOrder
    <2>2. CASE pc["main"] # "ended" /\ pc'["main"] = "ended"
      <3>1. ~Aside
        BY <2>2, AsideKeeps
      <3>2. \A t \in Threads \ {"main"} : Moves(t) => Await
        BY <2>2, OthersStay DEF Threads
      <3>3. ~Ask /\ ~Await /\ ~JoinUi /\ ~WriteQuit /\ ~Wait
        BY <2>2, MainGoes
      <3>4. JoinThreads
        BY <3>1, <3>2, <3>3, WhoMoves DEF Moves, Main, Threads
      <3>5. /\ pc["relay"] = "ended" /\ pc["status"] = "ended"
            /\ pc["reader"] = "ended" /\ pc["err"] = "ended"
        BY <2>2, <3>4, GotoFacts DEF JoinThreads, Threads
      <3>6. \A t \in Threads \ {"main"} : pc'[t] = pc[t]
        BY <3>3, <3>4, OthersStay DEF Moves, Main, Threads
      <3> QED
        BY <3>5, <3>6 DEF Threads
    <2> QED
      BY <2>1, <2>2
  <1>3. files'[1] = files'[2] + IF pc'["reader"] = "saving" THEN 1 ELSE 0
    <2>0. files[1] = files[2] + (IF pc["reader"] = "saving" THEN 1 ELSE 0) /\ files \in [1..2 -> Nat]
      BY DEF EndInOrder, ClientTypeOK
    <2>1. CASE UNCHANGED files /\ (pc'["reader"] = "saving" <=> pc["reader"] = "saving")
      BY <2>0, <2>1
    <2>2. CASE Aside
      BY <2>1, <2>2, AsideKeeps DEF screenVars
    <2>3. CASE Await
      <3>1. pc["reader"] = "new"
        BY <2>3 DEF Await, At, HandshakeHolds, Starting, Threads
      <3>2. pc'["reader"] = pc["reader"] \/ pc'["reader"] = "outer"
        BY <2>3, AwaitCases, GotoFacts, StartedFacts DEF Threads
      <3>3. UNCHANGED files
        BY <2>3 DEF Await, screenVars
      <3> QED
        BY <2>1, <3>1, <3>2, <3>3
    <2>4. ASSUME NEW t \in Threads \ {"reader"}, Moves(t), ~Await
          PROVE  UNCHANGED files /\ pc'["reader"] = pc["reader"]
      <3>1. pc'["reader"] = pc["reader"]
        BY <2>4, OthersStay DEF Threads
      <3> USE DEF screenVars
      <3>2. Main \/ Bot \/ Status => UNCHANGED files
        BY <2>4 DEF Main, Ask, JoinUi, WriteQuit, Wait, JoinThreads, Bot, BotCommand, BotSend, Status,
                    StatusCheck, StatusAsk
      <3>3. Relay \/ ErrRead => UNCHANGED files
        BY DEF Relay, RelayCheck, RelayRead, RelayPublish, ErrRead
      <3>4. UiWrite \/ Keys => UNCHANGED files
        BY DEF UiWrite, Keys, Enter, CtrlS, Esc, Turn
      <3> QED
        BY <2>4, <3>1, <3>2, <3>3, <3>4 DEF Moves, Threads
    <2>5. CASE ReaderOuter \/ ReaderInner
      <3>1. pc["reader"] # "saving" /\ pc'["reader"] # "saving"
        BY <2>5, GotoFacts DEF ReaderOuter, ReaderInner, At, Threads
      <3>2. UNCHANGED files
        BY <2>5 DEF ReaderOuter, ReaderInner, screenVars
      <3> QED
        BY <2>1, <3>1, <3>2
    <2>6. CASE ReaderRead
      <3>1. pc["reader"] = "read"
        BY <2>6 DEF ReaderRead, At
      <3>2. \/ UNCHANGED files /\ pc'["reader"] # "saving"
            \/ files' = [files EXCEPT ![1] = @ + 1] /\ pc'["reader"] = "saving"
        BY <2>6, ReaderReadCases, GotoFacts DEF Threads, screenVars
      <3> QED
        BY <2>0, <3>1, <3>2
    <2>7. CASE ReaderSave
      <3>1. pc["reader"] = "saving" /\ pc'["reader"] # "saving"
        BY <2>7, GotoFacts DEF ReaderSave, At, Threads
      <3>2. files' = [files EXCEPT ![2] = @ + 1]
        BY <2>7 DEF ReaderSave
      <3> QED
        BY <2>0, <3>1, <3>2
    <2> QED
      BY <2>1, <2>2, <2>3, <2>4, <2>5, <2>6, <2>7, WhoMoves DEF Moves, Reader
  <1> QED
    BY <1>1, <1>2, <1>3 DEF EndInOrder

-----------------------------------------------------------------------------
(* Every step: the transactions                                            *)

\* A maker has one more transaction on its way when it has written it.
LEMMA SentSteps ==
  ASSUME ClientTypeOK, HandshakeHolds, [Next]_vars, NEW m \in Makers,
         ~(m = "bot" /\ BotSend), ~(UiWrite /\ Signing(m))
  PROVE  Sent(m)' = Sent(m)
  <1>0. /\ made \in [Makers -> Nat] /\ "bot" \in Makers
        /\ Maker(app.text) \in Makers \ {"bot"}
        /\ Signing(m) => m # "bot"
    BY MakerOf DEF ClientTypeOK, Makers, Signing
  <1>1. CASE /\ made'[m] = made[m]
             /\ m = "bot" => (pc'["bot"] = "send" <=> pc["bot"] = "send")
             /\ Signing(m)' <=> Signing(m)
    BY <1>1 DEF Sent
  <1>2. CASE Aside
    BY <1>1, <1>2, AsideKeeps DEF screenVars, Signing
  <1>3. CASE Await
    <2>1. made' = made /\ pc["bot"] = "new" /\ pc["ui"] = "new"
      BY <1>3 DEF Await, At, HandshakeHolds, Starting, Threads
    <2>2. pc'["bot"] \in {"new", "check"} /\ pc'["ui"] \in {"new", "poll"}
      BY <1>3, <2>1, AwaitCases, GotoFacts, StartedFacts DEF Threads
    <2> QED
      BY <1>1, <2>1, <2>2 DEF Signing
  <1>4. ASSUME NEW t \in Threads \ {"bot", "ui"}, Moves(t), ~Await
        PROVE  Sent(m)' = Sent(m)
    <2>1. pc'["bot"] = pc["bot"] /\ pc'["ui"] = pc["ui"]
      BY <1>4, OthersStay DEF Threads
    <2>2. made' = made
      <3> USE DEF countVars
      <3>1. Main \/ Status => UNCHANGED made
        BY <1>4 DEF Main, Ask, JoinUi, WriteQuit, Wait, JoinThreads, Status, StatusCheck, StatusAsk
      <3>2. Relay \/ Reader \/ ErrRead => UNCHANGED made
        BY DEF Relay, RelayCheck, RelayRead, RelayPublish,
               Reader, ReaderOuter, ReaderInner, ReaderRead, ReaderSave, ErrRead
      <3> QED
        BY <1>4, <3>1, <3>2 DEF Moves, Threads
    <2>3. app'.text = app.text
      <3> USE DEF screenVars
      <3>1. Main \/ Status \/ Relay => UNCHANGED app
        BY <1>4 DEF Main, Ask, JoinUi, WriteQuit, Wait, JoinThreads, Status, StatusCheck, StatusAsk,
                    Relay, RelayCheck, RelayRead, RelayPublish
      <3>2. ReaderOuter \/ ReaderInner \/ ReaderSave \/ ErrRead => UNCHANGED app
        BY DEF ReaderOuter, ReaderInner, ReaderSave, ErrRead
      <3>3. CASE ReaderRead
        <4>1. app' = app \/ \E n : app' = [app EXCEPT !.balance = n]
          BY <3>3, ReaderReadCases
        <4> QED
          BY <4>1 DEF ClientTypeOK
      <3> QED
        BY <1>4, <3>1, <3>2, <3>3 DEF Moves, Threads, Reader
    <2> QED
      BY <1>1, <2>1, <2>2, <2>3 DEF Signing
  <1>5. CASE BotCommand
    <2>1. /\ pc["bot"] = "check" /\ pc'["bot"] = "send" /\ pc'["ui"] = pc["ui"]
          /\ app' = app
          /\ made' = [made EXCEPT !["bot"] = @ + 1]
      BY <1>5, GotoFacts DEF BotCommand, At, Threads, screenVars
    <2>2. CASE m = "bot"
      <3>1. made'[m] = made[m] + 1 /\ made[m] \in Nat
        BY <1>0, <2>1, <2>2
      <3> QED
        BY <1>0, <2>1, <2>2, <3>1 DEF Sent, Signing
    <2>3. CASE m # "bot"
      BY <1>0, <1>1, <2>1, <2>3 DEF Signing
    <2> QED
      BY <2>2, <2>3
  <1>6. CASE Enter
    <2>1. /\ pc["ui"] = "poll" /\ pc'["ui"] = "signing" /\ pc'["bot"] = pc["bot"]
          /\ app' = app
          /\ made' = [made EXCEPT ![Maker(app.text)] = @ + 1]
      BY <1>6, GotoFacts DEF Enter, At, Threads, screenVars
    <2>2. CASE m = Maker(app.text)
      <3>1. made'[m] = made[m] + 1 /\ made[m] \in Nat
        BY <1>0, <2>1, <2>2
      <3> QED
        BY <1>0, <2>1, <2>2, <3>1 DEF Sent, Signing
    <2>3. CASE m # Maker(app.text)
      BY <1>0, <1>1, <2>1, <2>3 DEF Signing
    <2> QED
      BY <2>2, <2>3
  <1>7. CASE BotSend
    <2>1. m # "bot" /\ made' = made /\ pc'["ui"] = pc["ui"] /\ app' = app
      BY <1>7, GotoFacts DEF BotSend, Threads, countVars, screenVars
    <2> QED
      BY <1>1, <2>1 DEF Signing
  <1>8. CASE UiWrite
    <2>1. made' = made /\ pc'["ui"] = "poll" /\ pc'["bot"] = pc["bot"]
      BY <1>8, GotoFacts DEF UiWrite, Threads, countVars
    <2> QED
      BY <1>1, <1>8, <2>1 DEF Signing
  <1>9. CASE CtrlS \/ Esc
    <2>1. /\ made' = made /\ pc["ui"] # "signing" /\ pc'["ui"] # "signing"
          /\ pc'["bot"] = pc["bot"]
      BY <1>9, GotoFacts DEF CtrlS, Esc, Threads, countVars, At
    <2> QED
      BY <1>1, <2>1 DEF Signing
  <1>10. CASE \E text \in Texts : Turn(text)
    BY <1>1, <1>10 DEF Turn, At, countVars, Signing
  <1> QED
    BY <1>2, <1>3, <1>4, <1>5, <1>6, <1>7, <1>8, <1>9, <1>10, WhoMoves DEF Moves, Bot, Keys

\* A step that does not touch the maker's transactions keeps them in order.
LEMMA TxsFrame ==
  ASSUME ClientTypeOK, [Next]_vars, NEW m \in Makers,
         Kept("nodeIn", m), Kept("walletOut", m), Kept("walletIn", m),
         published'[m] = published[m], signed' = signed, Sent(m)' = Sent(m),
         NEW a \in Nat, NEW b \in Nat, NEW c \in Nat, NEW d \in Nat, TxsFit(m, a, b, c, d)
  PROVE  TxsFit(m, a, b, c, d)'
  <1>1. \A x \in Children : child'[x] # "gone" => child[x] # "gone"
    BY ChildSteps
  <1>2. "node" \in Children /\ "wallet" \in Children
    BY DEF Children
  <1>3. Len(published[m]) + 1 \in Nat
    BY DEF ClientTypeOK
  <1>4. InOrder(pipe'["nodeIn"], m, Len(published'[m]) + 1, a)
    BY <1>3 DEF Kept, TxsFit
  <1>5. InOrder(pipe'["walletOut"], m, IF signed'.by = m THEN b + 1 ELSE b, c)
    BY DEF Kept, TxsFit
  <1>6. InOrder(pipe'["walletIn"], m, c, d)
    BY DEF Kept, TxsFit
  <1> QED
    BY <1>1, <1>2, <1>4, <1>5, <1>6 DEF TxsFit

LEMMA RelayReadKeepsOrder ==
  ASSUME IInv, [Next]_vars, RelayRead, NEW m \in Makers,
         NEW a \in Nat, NEW b \in Nat, NEW c \in Nat, NEW d \in Nat, TxsFit(m, a, b, c, d)
  PROVE  TxsFit(m, a, b, c, d)' /\ published' = published
  <1> DEFINE line == FirstLine("walletOut")
  <1>1. PipesTyped /\ pipe["walletOut"] \in Seq(Lines)
    BY DEF IInv, ClientTypeOK, PipesTyped, Pipes
  <1>2. signed.by # m
    BY MakerFacts, LineFacts DEF IInv, RelayHolds, RelayRead, At
  <1>3. /\ \A q \in Pipes \ {"walletOut"} : pipe'[q] = pipe[q]
        /\ \/ line = Nothing /\ pipe' = pipe
           \/ /\ line = Head(pipe["walletOut"]) /\ line \in On(pipe["walletOut"])
              /\ pipe["walletOut"] # <<>> /\ pipe'["walletOut"] = Tail(pipe["walletOut"])
    BY <1>1, ReadEffect DEF RelayRead, Pipes
  <1>4. pipe'["nodeIn"] = pipe["nodeIn"] /\ pipe'["walletIn"] = pipe["walletIn"]
    BY <1>3 DEF Pipes
  <1>5. /\ UNCHANGED <<child, published, made>>
        /\ signed' = IF line.kind = "SignResponse" THEN line ELSE Nothing
    BY DEF RelayRead, nodeVars, countVars
  <1>6. Sent(m)' = Sent(m)
    <2>1. ~BotSend /\ ~UiWrite
      <3>1. pc["relay"] = "read" /\ pc' = [pc EXCEPT !["relay"] = "check"]
        BY DEF RelayRead, At, Goto
      <3>2. pc'["bot"] = pc["bot"] /\ pc'["ui"] = pc["ui"]
        BY <3>1 DEF IInv, ClientTypeOK, Threads
      <3> QED
        BY <3>2, GotoFacts DEF BotSend, UiWrite, At, Threads, IInv
    <2> QED
      BY <2>1, SentSteps DEF IInv
  <1> HIDE DEF line
  <1>7. CASE line.by = m
    <2>1. /\ line = Head(pipe["walletOut"]) /\ line \in On(pipe["walletOut"])
          /\ pipe["walletOut"] # <<>> /\ pipe'["walletOut"] = Tail(pipe["walletOut"])
      BY <1>3, <1>7, LineFacts, MakerFacts
    <2>2. line.kind = "SignResponse"
      <3>1. Said("walletOut", line)
        BY <2>1 DEF IInv, PipesSay, Pipes
      <3> QED
        BY <1>7, <3>1, MakerFacts DEF Said
    <2>3. InOrder(pipe["walletOut"], m, b, c)
      BY <1>2 DEF TxsFit
    <2>4. line.n = b /\ InOrder(pipe'["walletOut"], m, b + 1, c)
      BY <1>1, <1>7, <2>1, <2>3, InOrderTail, MakerFacts
    <2>5. signed' = line
      BY <1>5, <2>2
    <2> QED
      BY <1>4, <1>5, <1>6, <1>7, <2>4, <2>5 DEF TxsFit
  <1>8. CASE line.by # m
    <2>1. Kept("walletOut", m)
      BY <1>1, <1>3, <1>8, InOrderTail, MakerFacts, SameKept DEF Kept
    <2>2. signed'.by # m
      BY <1>5, <1>8, LineFacts, MakerFacts
    <2>3. InOrder(pipe'["walletOut"], m, b, c)
      BY <1>2, <2>1 DEF TxsFit, Kept
    <2> QED
      BY <1>4, <1>5, <1>6, <2>2, <2>3 DEF TxsFit
  <1> QED
    BY <1>5, <1>7, <1>8

LEMMA RelayPublishKeepsOrder ==
  ASSUME IInv, [Next]_vars, RelayPublish, NEW m \in Makers,
         NEW a \in Nat, NEW b \in Nat, NEW c \in Nat, NEW d \in Nat, TxsFit(m, a, b, c, d)
  PROVE  published' = published /\ \E a2, b2 \in Nat : TxsFit(m, a2, b2, c, d)'
  <1> DEFINE line == TxLine("PublishTx", signed.by, signed.n)
  <1>1. PipesTyped /\ pipe["nodeIn"] \in Seq(Lines) /\ "nodeIn" \in Pipes
    BY DEF IInv, ClientTypeOK, PipesTyped, Pipes
  <1>2. signed.by \in Makers /\ line \in Lines /\ Write("nodeIn", line)
    BY RelayPublishWrites DEF IInv, Writes
  <1>3. line.by = signed.by /\ line.n = signed.n
    BY LineFacts
  <1> HIDE DEF line
  <1>4. /\ \A q \in Pipes \ {"nodeIn"} : pipe'[q] = pipe[q]
        /\ child["node"] = "gone" => pipe' = pipe
        /\ child["node"] # "gone" => pipe'["nodeIn"] = Append(pipe["nodeIn"], line)
    BY <1>1, <1>2, WriteEffect DEF Child
  <1>5. pipe'["walletOut"] = pipe["walletOut"] /\ pipe'["walletIn"] = pipe["walletIn"]
    BY <1>4 DEF Pipes
  <1>6. UNCHANGED <<child, published, made>> /\ signed' = Nothing /\ signed'.by # m
    BY LineFacts, MakerFacts DEF RelayPublish, nodeVars, countVars
  <1>7. Sent(m)' = Sent(m)
    <2>1. pc' = [pc EXCEPT !["relay"] = "check"]
      BY DEF RelayPublish, Goto
    <2>2. pc'["bot"] = pc["bot"] /\ pc'["ui"] = pc["ui"]
      BY <2>1 DEF IInv, ClientTypeOK, Threads
    <2>3. app' = app
      BY DEF RelayPublish, screenVars
    <2> QED
      BY <1>6, <2>2, <2>3 DEF Sent, Signing
  <1>8. Len(published[m]) + 1 \in Nat
    BY DEF IInv, ClientTypeOK
  <1>9. CASE signed.by # m
    <2>1. Kept("nodeIn", m)
      BY <1>1, <1>2, <1>3, <1>9, WriteKeeps, MakerFacts
    <2>2. InOrder(pipe'["nodeIn"], m, Len(published[m]) + 1, a)
      BY <1>8, <2>1 DEF TxsFit, Kept
    <2>3. TxsFit(m, a, b, c, d)'
      BY <1>5, <1>6, <1>7, <1>9, <2>2 DEF TxsFit
    <2> QED
      BY <1>6, <2>3
  <1>10. CASE signed.by = m /\ child["node"] = "gone"
    <2>1. TxsFit(m, a, b + 1, c, d)'
      <3>1. pipe' = pipe /\ child'["node"] = "gone" /\ a <= b + 1
        BY <1>4, <1>6, <1>10 DEF TxsFit
      <3> QED
        BY <1>6, <1>7, <1>10, <3>1 DEF TxsFit
    <2> QED
      BY <1>6, <2>1
  <1>11. CASE signed.by = m /\ child["node"] # "gone"
    <2>1. a = b /\ signed.n = a /\ pipe'["nodeIn"] = Append(pipe["nodeIn"], line)
      BY <1>4, <1>11 DEF TxsFit
    <2>2. InOrder(pipe'["nodeIn"], m, Len(published[m]) + 1, a + 1)
      BY <1>1, <1>2, <1>3, <1>8, <1>11, <2>1, InOrderAppend, MakerFacts DEF TxsFit
    <2>3. TxsFit(m, a + 1, b + 1, c, d)'
      BY <1>5, <1>6, <1>7, <1>11, <2>1, <2>2 DEF TxsFit
    <2> QED
      BY <1>6, <2>3
  <1> QED
    BY <1>9, <1>10, <1>11

LEMMA SignKeepsOrder ==
  ASSUME IInv, [Next]_vars, NEW m \in Makers,
         Write("walletIn", TxLine("SignRequest", m, made[m])),
         UNCHANGED <<signed, nodeVars>>, Sent(m) = made[m] - 1, Sent(m)' = made[m],
         NEW a \in Nat, NEW b \in Nat, NEW c \in Nat, NEW d \in Nat, TxsFit(m, a, b, c, d)
  PROVE  \E d2 \in Nat : TxsFit(m, a, b, c, d2)'
  <1> DEFINE line == TxLine("SignRequest", m, made[m])
  <1>1. PipesTyped /\ pipe["walletIn"] \in Seq(Lines) /\ "walletIn" \in Pipes /\ made[m] \in Nat
    BY DEF IInv, ClientTypeOK, PipesTyped, Pipes
  <1>2. line \in Lines /\ line.by = m /\ line.n = made[m] /\ Write("walletIn", line)
    BY <1>1, LineFacts, AllKinds
  <1> HIDE DEF line
  <1>3. /\ \A q \in Pipes \ {"walletIn"} : pipe'[q] = pipe[q]
        /\ child["wallet"] = "gone" => pipe' = pipe
        /\ child["wallet"] # "gone" => pipe'["walletIn"] = Append(pipe["walletIn"], line)
    BY <1>1, <1>2, WriteEffect DEF Child
  <1>4. pipe'["walletOut"] = pipe["walletOut"] /\ pipe'["nodeIn"] = pipe["nodeIn"]
    BY <1>3 DEF Pipes
  <1>5. UNCHANGED <<child, published, signed>>
    BY DEF nodeVars
  <1>6. CASE child["wallet"] = "gone"
    <2>1. TxsFit(m, a, b, c, d)'
      BY <1>1, <1>3, <1>4, <1>5, <1>6 DEF TxsFit
    <2> QED
      BY <2>1
  <1>7. CASE child["wallet"] # "gone"
    <2>1. d = made[m] /\ pipe'["walletIn"] = Append(pipe["walletIn"], line)
      BY <1>1, <1>3, <1>7 DEF TxsFit
    <2>2. InOrder(pipe'["walletIn"], m, c, d + 1)
      BY <1>1, <1>2, <2>1, InOrderAppend, MakerFacts DEF TxsFit
    <2>3. TxsFit(m, a, b, c, d + 1)'
      BY <1>1, <1>4, <1>5, <2>1, <2>2 DEF TxsFit
    <2> QED
      BY <2>3
  <1> QED
    BY <1>6, <1>7

LEMMA WalletKeepsOrder ==
  ASSUME IInv, [Next]_vars, Handle("wallet"), NEW m \in Makers,
         NEW a \in Nat, NEW b \in Nat, NEW c \in Nat, NEW d \in Nat, TxsFit(m, a, b, c, d)
  PROVE  published' = published /\ \E c2 \in Nat : TxsFit(m, a, b, c2, d)'
  <1>1. PICK request \in Lines, reply \in Lines : Answered("wallet", request, reply)
    BY HandleEffect DEF IInv, Children
  <1>2. /\ pipe["walletIn"] # <<>> /\ request = Head(pipe["walletIn"]) /\ Said("walletIn", request)
        /\ pipe'["walletIn"] = Tail(pipe["walletIn"])
        /\ pipe'["walletOut"] = Append(pipe["walletOut"], reply)
        /\ pipe'["nodeIn"] = pipe["nodeIn"]
        /\ reply.by = request.by
        /\ request.kind # "GetAddressBalance" => reply.n = request.n
    BY <1>1 DEF Answered, In, Out, Pipes
  <1>3. pipe["walletIn"] \in Seq(Lines) /\ pipe["walletOut"] \in Seq(Lines)
    BY DEF IInv, ClientTypeOK, Pipes
  <1>4. \/ request.kind \in WalletKinds /\ request.by = "client"
        \/ request.kind = "SignRequest" /\ request.by \in Makers
    BY <1>2 DEF Said
  <1>5. published' = published
    BY <1>1, <1>4 DEF Answered, WalletKinds
  <1>6. /\ UNCHANGED <<signed, made, pc, app>> /\ child["wallet"] # "gone"
        /\ child'["node"] = child["node"]
    BY <1>1 DEF Handle, countVars, screenVars, Answered, IInv, ClientTypeOK, Children
  <1>7. Sent(m)' = Sent(m)
    BY <1>6 DEF Sent, Signing
  <1>8. CASE request.by = m
    <2>1. InOrder(pipe["walletIn"], m, c, d)
      BY DEF TxsFit
    <2>2. request.n = c /\ InOrder(pipe'["walletIn"], m, c + 1, d)
      BY <1>2, <1>3, <1>8, <2>1, InOrderTail, MakerFacts
    <2>3. reply.n = c
      BY <1>2, <1>4, <1>8, <2>2, MakerFacts
    <2>4. InOrder(pipe'["walletOut"], m, IF signed.by = m THEN b + 1 ELSE b, c + 1)
      <3>1. (IF signed.by = m THEN b + 1 ELSE b) \in Nat
        OBVIOUS
      <3> QED
        BY <1>2, <1>3, <1>8, <2>3, <3>1, InOrderAppend, MakerFacts DEF TxsFit
    <2>5. TxsFit(m, a, b, c + 1, d)'
      BY <1>2, <1>5, <1>6, <1>7, <2>2, <2>4 DEF TxsFit
    <2> QED
      BY <1>5, <2>5
  <1>9. CASE request.by # m
    <2>1. InOrder(pipe'["walletIn"], m, c, d)
      BY <1>2, <1>3, <1>9, InOrderTail, MakerFacts DEF TxsFit
    <2>2. InOrder(pipe'["walletOut"], m, IF signed.by = m THEN b + 1 ELSE b, c)
      <3> DEFINE from == IF signed.by = m THEN b + 1 ELSE b
      <3>1. from \in Nat /\ InOrder(pipe["walletOut"], m, from, c)
        BY DEF TxsFit
      <3> HIDE DEF from
      <3>2. ~Mine(reply, m)
        BY <1>2, <1>9, MakerFacts
      <3>3. InOrder(pipe'["walletOut"], m, from, c)
        BY <1>2, <1>3, <3>1, <3>2, InOrderAppend
      <3> QED
        BY <3>3 DEF from
    <2>3. TxsFit(m, a, b, c, d)'
      BY <1>2, <1>5, <1>6, <1>7, <2>1, <2>2 DEF TxsFit
    <2> QED
      BY <1>5, <2>3
  <1> QED
    BY <1>8, <1>9

\* One more number on a sequence of the first numbers.
LEMMA Counted ==
  ASSUME NEW s \in Seq(Nat), s = [i \in 1..Len(s) |-> i]
  PROVE  Append(s, Len(s) + 1) = [i \in 1..(Len(s) + 1) |-> i]
  <1> DEFINE n == Len(s)
             l == Append(s, n + 1)
             r == [i \in 1..(n + 1) |-> i]
  <1>1. n \in Nat /\ \A i \in 1..n : s[i] = i
    OBVIOUS
  <1>2. l \in Seq(Nat) /\ Len(l) = n + 1
    OBVIOUS
  <1>3. l[n + 1] = n + 1 /\ \A i \in 1..n : l[i] = s[i]
    OBVIOUS
  <1>4. r \in Seq(Nat) /\ Len(r) = n + 1 /\ \A i \in 1..(n + 1) : r[i] = i
    OBVIOUS
  <1> HIDE DEF n, l, r
  <1>5. \A i \in 1..Len(l) : l[i] = r[i]
    BY <1>1, <1>2, <1>3, <1>4
  <1>6. l = r
    BY <1>2, <1>4, <1>5, SeqEqual
  <1> QED
    BY <1>6 DEF n, l, r

LEMMA NodeKeepsOrder ==
  ASSUME IInv, [Next]_vars, Handle("node"), NEW m \in Makers,
         NEW a \in Nat, NEW b \in Nat, NEW c \in Nat, NEW d \in Nat, TxsFit(m, a, b, c, d)
  PROVE  TxsFit(m, a, b, c, d)' /\ published'[m] = [i \in 1..Len(published'[m]) |-> i]
  <1>1. PICK request \in Lines, reply \in Lines : Answered("node", request, reply)
    BY HandleEffect DEF IInv, Children
  <1>2. /\ pipe["nodeIn"] # <<>> /\ request = Head(pipe["nodeIn"]) /\ Said("nodeIn", request)
        /\ pipe'["nodeIn"] = Tail(pipe["nodeIn"])
        /\ pipe'["walletIn"] = pipe["walletIn"] /\ pipe'["walletOut"] = pipe["walletOut"]
    BY <1>1 DEF Answered, In, Out, Pipes
  <1>3. /\ pipe["nodeIn"] \in Seq(Lines) /\ published \in [Makers -> Seq(Nat)]
        /\ Len(published[m]) + 1 \in Nat
    BY DEF IInv, ClientTypeOK, Pipes
  <1>4. /\ UNCHANGED <<signed, made, pc, app>> /\ child["node"] # "gone"
        /\ child'["wallet"] = child["wallet"]
    BY <1>1 DEF Handle, countVars, screenVars, Answered, IInv, ClientTypeOK, Children
  <1>5. Sent(m)' = Sent(m)
    BY <1>4 DEF Sent, Signing
  <1>6. published[m] = [i \in 1..Len(published[m]) |-> i]
    BY DEF IInv, TxsInOrder
  <1>7. InOrder(pipe["nodeIn"], m, Len(published[m]) + 1, a)
    BY DEF TxsFit
  <1>8. CASE request.by = m
    <2>1. request.kind = "PublishTx"
      BY <1>2, <1>8, MakerFacts DEF Said
    <2>2. published' = [published EXCEPT ![m] = Append(@, request.n)]
      BY <1>1, <1>8, <2>1 DEF Answered
    <2>3. /\ request.n = Len(published[m]) + 1
          /\ InOrder(pipe'["nodeIn"], m, Len(published[m]) + 1 + 1, a)
      <3> DEFINE from == Len(published[m]) + 1
      <3>1. from \in Nat /\ InOrder(pipe["nodeIn"], m, from, a)
        BY <1>3, <1>7
      <3> HIDE DEF from
      <3>2. Mine(request, m)
        BY <1>8, MakerFacts
      <3>3. Nth(request, m, from) /\ InOrder(pipe'["nodeIn"], m, from + 1, a)
        BY <1>2, <1>3, <3>1, <3>2, InOrderTail
      <3>4. request.n = from
        BY <3>3, MakerFacts
      <3> QED
        BY <3>3, <3>4 DEF from
    <2>4. published'[m] = Append(published[m], Len(published[m]) + 1) /\ published[m] \in Seq(Nat)
      BY <1>3, <2>2, <2>3
    <2>5. Len(published'[m]) = Len(published[m]) + 1
      BY <2>4
    <2>6. published'[m] = [i \in 1..Len(published'[m]) |-> i]
      <3>1. Append(published[m], Len(published[m]) + 1) = [i \in 1..(Len(published[m]) + 1) |-> i]
        BY <1>6, <2>4, Counted
      <3> QED
        BY <2>4, <2>5, <3>1
    <2>7. TxsFit(m, a, b, c, d)'
      BY <1>2, <1>4, <1>5, <2>3, <2>5 DEF TxsFit
    <2> QED
      BY <2>6, <2>7
  <1>9. CASE request.by # m
    <2>1. InOrder(pipe'["nodeIn"], m, Len(published[m]) + 1, a)
      BY <1>2, <1>3, <1>7, <1>9, InOrderTail, MakerFacts
    <2>2. published'[m] = published[m]
      BY <1>1, <1>3, <1>9 DEF Answered
    <2>3. TxsFit(m, a, b, c, d)'
      BY <1>2, <1>4, <1>5, <2>1, <2>2 DEF TxsFit
    <2> QED
      BY <1>6, <2>2, <2>3
  <1> QED
    BY <1>8, <1>9

LEMMA WritesKeep ==
  ASSUME ClientTypeOK, NEW p, NEW line, Writes(p, line), NEW st, ~Mine(line, st)
  PROVE  \A q \in Pipes : Kept(q, st)
  <1>1. PipesTyped /\ p \in Pipes /\ line \in Lines /\ Write(p, line)
    BY DEF ClientTypeOK, PipesTyped, Writes
  <1> QED
    BY <1>1, WriteKeeps

\* The other steps touch neither what is signed nor what is published, and on
\* the pipes no line of the maker.
LEMMA OtherSteps ==
  ASSUME IInv, [Next]_vars, NEW m \in Makers,
         ~RelayRead, ~RelayPublish, \A c \in Children : ~Handle(c),
         ~(m = "bot" /\ BotSend), ~(UiWrite /\ Signing(m))
  PROVE  /\ Kept("nodeIn", m) /\ Kept("walletOut", m) /\ Kept("walletIn", m)
         /\ published' = published /\ signed' = signed
  <1>1. /\ ClientTypeOK /\ PipesTyped /\ PipesSay /\ HandshakeHolds
        /\ "nodeIn" \in Pipes /\ "walletOut" \in Pipes /\ "walletIn" \in Pipes
        /\ "nodeOut" \in Pipes /\ "nodeErr" \in Pipes
    BY DEF IInv, ClientTypeOK, PipesTyped, Pipes
  <1>2. SUFFICES /\ \A q \in Pipes \ {"nodeOut", "nodeErr"} : Kept(q, m)
                 /\ published' = published /\ signed' = signed
    BY <1>1
  <1>3. CASE Silent
    <2>1. pipe' = pipe
      BY <1>3, SilentPipes
    <2>2. published' = published /\ signed' = signed
      BY <1>3 DEF Silent, BotCommand, RelayCheck, StatusCheck, ReaderOuter, ReaderInner,
         ReaderSave, Keys, Enter, CtrlS, Esc, Turn, JoinUi, Wait, JoinThreads, Orphaned,
         NodePanics, TakeLock, vars, nodeVars
    <2> QED
      BY <2>1, <2>2, SameKept
  <1>4. CASE Ask
    <2>1. Line(Handshake[stage].ask).by = "client"
      BY LineFacts
    <2>2. \A q \in Pipes : Kept(q, m)
      BY <1>1, <1>4, <2>1, AskWrites, WritesKeep, MakerFacts
    <2> QED
      BY <1>4, <2>2 DEF Ask, nodeVars
  <1>5. CASE Await
    <2> DEFINE p == Out[Handshake[stage].to]
    <2>1. p \in Pipes /\ Read(p)
      BY <1>1, <1>5, AwaitReads
    <2>2. Starting
      BY <1>5 DEF Await, At, Starting
    <2> HIDE DEF p
    <2>3. FirstLine(p) = Nothing \/ FirstLine(p) \in On(pipe[p])
      BY <1>1, <2>1, ReadEffect
    <2>4. FirstLine(p).by = "client"
      BY <1>1, <2>1, <2>2, <2>3, LineFacts DEF HandshakeHolds, Early
    <2>5. \A q \in Pipes : Kept(q, m)
      BY <1>1, <2>1, <2>4, ReadKeeps, MakerFacts
    <2> QED
      BY <1>5, <2>5 DEF Await, nodeVars
  <1>6. CASE BotSend
    <2> DEFINE line == TxLine("SignRequest", "bot", made["bot"])
    <2>1. Writes("walletIn", line) /\ line.by = "bot"
      BY <1>1, <1>6, BotSendWrites, LineFacts
    <2> HIDE DEF line
    <2>2. \A q \in Pipes : Kept(q, m)
      BY <1>1, <1>6, <2>1, WritesKeep, MakerFacts
    <2> QED
      BY <1>6, <2>2 DEF BotSend, nodeVars
  <1>7. CASE StatusAsk
    <2>1. Line(StatusRound[next]).by = "client"
      BY LineFacts
    <2>2. \A q \in Pipes : Kept(q, m)
      BY <1>1, <1>7, <2>1, StatusAskWrites, WritesKeep, MakerFacts
    <2> QED
      BY <1>7, <2>2 DEF StatusAsk, nodeVars
  <1>8. CASE ReaderRead \/ ErrRead
    <2>1. Read("nodeOut") \/ Read("nodeErr")
      BY <1>8 DEF ReaderRead, ErrRead
    <2>2. \A q \in Pipes \ {"nodeOut", "nodeErr"} : pipe'[q] = pipe[q]
      BY <1>1, <2>1, ReadEffect
    <2> QED
      BY <1>8, <2>2, SameKept DEF ReaderRead, ErrRead, nodeVars
  <1>9. CASE UiWrite
    <2>1. \A q \in Pipes : Kept(q, m)
      <3>1. CASE /\ pc["ui"] = "signing"
                 /\ Writes("walletIn", TxLine("SignRequest", Maker(app.text), made[Maker(app.text)]))
        <4> DEFINE line == TxLine("SignRequest", Maker(app.text), made[Maker(app.text)])
        <4>1. line.by # m /\ Writes("walletIn", line)
          BY <1>9, <3>1, LineFacts DEF Signing
        <4> HIDE DEF line
        <4> QED
          BY <1>1, <4>1, WritesKeep, MakerFacts
      <3>2. CASE Writes("nodeIn", Line("RequestStateSerialization"))
        <4>1. Line("RequestStateSerialization").by = "client"
          BY LineFacts
        <4> QED
          BY <1>1, <3>2, <4>1, WritesKeep, MakerFacts
      <3> QED
        BY <1>1, <1>9, <3>1, <3>2, UiWriteWrites
    <2> QED
      BY <1>9, <2>1 DEF UiWrite, nodeVars
  <1>10. CASE WriteQuit \/ Notify \/ LogsLocked
    <2>1. PICK p, kind : Writes(p, Line(kind))
      BY <1>1, <1>10, WriteQuitWrites, NotifyWrites
    <2>2. Line(kind).by = "client"
      BY LineFacts
    <2>3. \A q \in Pipes : Kept(q, m)
      BY <1>1, <2>1, <2>2, WritesKeep, MakerFacts
    <2> QED
      BY <1>10, <2>3 DEF WriteQuit, Notify, LogsLocked, LogLocked, nodeVars
  <1> QED
    BY <1>3, <1>4, <1>5, <1>6, <1>7, <1>8, <1>9, <1>10, Steps

LEMMA TxsStep ==
  ASSUME IInv, [Next]_vars
  PROVE  TxsInOrder'
  <1>1. SUFFICES ASSUME NEW m \in Makers
                 PROVE  /\ published'[m] = [i \in 1..Len(published'[m]) |-> i]
                        /\ \E a, b, c, d \in Nat : TxsFit(m, a, b, c, d)'
    BY DEF TxsInOrder
  <1>2. published[m] = [i \in 1..Len(published[m]) |-> i]
    BY DEF IInv, TxsInOrder
  <1>3. PICK a \in Nat, b \in Nat, c \in Nat, d \in Nat : TxsFit(m, a, b, c, d)
    BY DEF IInv, TxsInOrder
  <1>4. CASE RelayRead
    BY <1>2, <1>3, <1>4, RelayReadKeepsOrder
  <1>5. CASE RelayPublish
    <2>1. published' = published /\ \E a2, b2 \in Nat : TxsFit(m, a2, b2, c, d)'
      BY <1>3, <1>5, RelayPublishKeepsOrder
    <2> QED
      BY <1>2, <2>1
  <1>6. CASE \E k \in Children : Handle(k)
    <2>1. CASE Handle("wallet")
      <3>1. published' = published /\ \E c2 \in Nat : TxsFit(m, a, b, c2, d)'
        BY <1>3, <2>1, WalletKeepsOrder
      <3> QED
        BY <1>2, <3>1
    <2>2. CASE Handle("node")
      <3>1. TxsFit(m, a, b, c, d)' /\ published'[m] = [i \in 1..Len(published'[m]) |-> i]
        BY <1>3, <2>2, NodeKeepsOrder
      <3> QED
        BY <3>1
    <2> QED
      BY <1>6, <2>1, <2>2 DEF Children
  <1>7. CASE m = "bot" /\ BotSend
    <2>1. Sent(m) = made[m] - 1 /\ Sent(m)' = made[m]
      <3>1. pc["bot"] = "send" /\ pc'["bot"] = "check" /\ made' = made
        BY <1>7 DEF BotSend, At, Goto, countVars, IInv, ClientTypeOK, Threads
      <3> QED
        BY <1>7, <3>1, MakerOf DEF Sent, Signing
    <2>2. /\ Write("walletIn", TxLine("SignRequest", m, made[m]))
          /\ UNCHANGED <<signed, nodeVars>>
      BY <1>7 DEF BotSend
    <2>3. published' = published
      BY <2>2 DEF nodeVars
    <2> QED
      BY <1>2, <1>3, <2>1, <2>2, <2>3, SignKeepsOrder
  <1>8. CASE UiWrite /\ Signing(m)
    <2>1. Sent(m) = made[m] - 1 /\ Sent(m)' = made[m]
      <3>1. pc'["ui"] = "poll" /\ made' = made /\ m # "bot"
        BY <1>8, MakerOf DEF UiWrite, Goto, countVars, IInv, ClientTypeOK, Threads, Signing
      <3> QED
        BY <1>8, <3>1 DEF Sent, Signing
    <2>2. /\ Write("walletIn", TxLine("SignRequest", m, made[m]))
          /\ UNCHANGED <<signed, nodeVars>>
      BY <1>8 DEF UiWrite, At, Signing
    <2>3. published' = published
      BY <2>2 DEF nodeVars
    <2> QED
      BY <1>2, <1>3, <2>1, <2>2, <2>3, SignKeepsOrder
  <1>9. CASE /\ ~RelayRead /\ ~RelayPublish /\ \A k \in Children : ~Handle(k)
             /\ ~(m = "bot" /\ BotSend) /\ ~(UiWrite /\ Signing(m))
    <2>1. /\ Kept("nodeIn", m) /\ Kept("walletOut", m) /\ Kept("walletIn", m)
          /\ published' = published /\ signed' = signed
      BY <1>9, OtherSteps
    <2>2. Sent(m)' = Sent(m)
      BY <1>9, SentSteps DEF IInv
    <2>3. TxsFit(m, a, b, c, d)'
      BY <1>3, <2>1, <2>2, TxsFrame DEF IInv
    <2> QED
      BY <1>2, <2>1, <2>3
  <1> QED
    BY <1>4, <1>5, <1>6, <1>7, <1>8, <1>9

-----------------------------------------------------------------------------
(* The order of the status requests                                        *)

LEMMA StatusFacts ==
  /\ \A line : Mine(line, "status") <=> line.kind \in StatusKinds \cup Panels
  /\ \A line, q : Nth(line, "status", q) <=>
         line.kind \in {StatusRound[Place(q)], ReplyTo[StatusRound[Place(q)]]}
  /\ StatusKinds = {StatusRound[i] : i \in 1..Asked}
  /\ Panels = {ReplyTo[StatusRound[i]] : i \in 1..Asked}
  /\ StatusKinds \cap Panels = {}
  <1>1. /\ \A line : Mine(line, "status") <=> line.kind \in StatusKinds \cup Panels
        /\ \A line, q : Nth(line, "status", q) <=>
               line.kind \in {StatusRound[Place(q)], ReplyTo[StatusRound[Place(q)]]}
    BY DEF Mine, Nth
  <1>2. /\ StatusKinds = {StatusRound[i] : i \in 1..Asked}
        /\ Panels = {ReplyTo[StatusRound[i]] : i \in 1..Asked}
    BY RoundFacts DEF StatusKinds, Panels
  <1>3. StatusKinds \cap Panels = {}
    BY <1>2, RoundDistinct
  <1> QED
    BY <1>1, <1>2, <1>3

\* A step that does not touch the status requests keeps them in order.
LEMMA RoundsFrame ==
  ASSUME ClientTypeOK, [Next]_vars, Kept("nodeIn", "status"), Kept("nodeOut", "status"),
         panels' = panels, next' = next,
         NEW a \in Nat, NEW b \in Nat, NEW c \in Nat, RoundsFit(a, b, c)
  PROVE  RoundsFit(a, b, c)'
  <1>1. child["node"] = "gone" => child'["node"] = "gone"
    BY ChildSteps DEF Children
  <1>2. InOrder(pipe'["nodeOut"], "status", a, b) /\ InOrder(pipe'["nodeIn"], "status", b, c)
    BY DEF Kept, RoundsFit
  <1>3. Shown(a)'
    BY DEF RoundsFit, Shown
  <1> QED
    BY <1>1, <1>2, <1>3 DEF RoundsFit

LEMMA StatusAskKeepsOrder ==
  ASSUME IInv, [Next]_vars, StatusAsk,
         NEW a \in Nat, NEW b \in Nat, NEW c \in Nat, RoundsFit(a, b, c)
  PROVE  \E c2 \in Nat : RoundsFit(a, b, c2)'
  <1> DEFINE line == Line(StatusRound[next])
  <1>1. /\ ClientTypeOK /\ PipesTyped /\ pipe["nodeIn"] \in Seq(Lines) /\ "nodeIn" \in Pipes
        /\ "nodeOut" \in Pipes \ {"nodeIn"}
    BY DEF IInv, ClientTypeOK, PipesTyped, Pipes
  <1>2. next \in 1..Asked /\ line \in Lines /\ Write("nodeIn", line)
    BY <1>1, StatusAskWrites DEF Writes
  <1>3. line.kind = StatusRound[next]
    BY LineFacts
  <1> HIDE DEF line
  <1>4. /\ pipe'["nodeOut"] = pipe["nodeOut"]
        /\ child["node"] = "gone" => pipe' = pipe
        /\ child["node"] # "gone" => pipe'["nodeIn"] = Append(pipe["nodeIn"], line)
    BY <1>1, <1>2, WriteEffect DEF Child
  <1>5. /\ child' = child /\ panels' = panels
        /\ next' = IF next = Asked THEN 1 ELSE next + 1
    BY RoundFacts DEF StatusAsk, nodeVars, screenVars
  <1>6. Shown(a)' /\ InOrder(pipe'["nodeOut"], "status", a, b)
    BY <1>4, <1>5 DEF RoundsFit, Shown
  <1>7. InOrder(pipe["nodeIn"], "status", b, c)
    BY DEF RoundsFit
  <1>8. CASE child["node"] = "gone"
    <2>1. RoundsFit(a, b, c)'
      BY <1>4, <1>5, <1>6, <1>7, <1>8 DEF RoundsFit
    <2> QED
      BY <2>1
  <1>9. CASE child["node"] # "gone"
    <2>1. Place(c) = next
      BY <1>9 DEF RoundsFit
    <2>2. Mine(line, "status") /\ Nth(line, "status", c)
      BY <1>2, <1>3, <2>1, StatusFacts
    <2>3. InOrder(pipe'["nodeIn"], "status", b, c + 1)
      BY <1>1, <1>2, <1>4, <1>7, <1>9, <2>2, InOrderAppend
    <2>4. Place(c + 1) = next'
      BY <1>5, <2>1, PlaceNext
    <2>5. RoundsFit(a, b, c + 1)'
      BY <1>6, <2>3, <2>4 DEF RoundsFit
    <2> QED
      BY <2>5
  <1> QED
    BY <1>8, <1>9

\* One more answer on the screen.
LEMMA ShowsNext ==
  ASSUME ClientTypeOK, NEW a \in Nat, Shown(a),
         panels' = [panels EXCEPT ![ReplyTo[StatusRound[Place(a)]]] = @ + 1]
  PROVE  Shown(a + 1)'
  <1>1. PICK r \in Nat : \A i \in 1..Asked :
            panels[ReplyTo[StatusRound[i]]] = IF i < Place(a) THEN r + 1 ELSE r
    BY DEF Shown
  <1>2. /\ Place(a) \in 1..Asked /\ Asked \in Nat
        /\ Place(a + 1) = IF Place(a) = Asked THEN 1 ELSE Place(a) + 1
    BY PlaceNext, ClientAssumption
  <1>3. ASSUME NEW i \in 1..Asked
        PROVE  panels'[ReplyTo[StatusRound[i]]] = IF i <= Place(a) THEN r + 1 ELSE r
    <2>1. ReplyTo[StatusRound[i]] \in Panels /\ panels \in [Panels -> Nat]
      BY StatusFacts DEF ClientTypeOK
    <2>2. ReplyTo[StatusRound[i]] = ReplyTo[StatusRound[Place(a)]] <=> i = Place(a)
      BY <1>2, RoundDistinct
    <2>3. panels'[ReplyTo[StatusRound[i]]] =
            IF i = Place(a) THEN panels[ReplyTo[StatusRound[i]]] + 1
                            ELSE panels[ReplyTo[StatusRound[i]]]
      BY <2>1, <2>2
    <2> QED
      BY <1>1, <1>2, <2>3
  <1>4. CASE Place(a) = Asked
    <2>1. \A i \in 1..Asked :
            panels'[ReplyTo[StatusRound[i]]] = IF i < Place(a + 1) THEN r + 1 + 1 ELSE r + 1
      BY <1>2, <1>3, <1>4
    <2> QED
      BY <2>1 DEF Shown, Place
  <1>5. CASE Place(a) # Asked
    <2>1. \A i \in 1..Asked :
            panels'[ReplyTo[StatusRound[i]]] = IF i < Place(a + 1) THEN r + 1 ELSE r
      BY <1>2, <1>3, <1>5
    <2> QED
      BY <2>1 DEF Shown, Place
  <1> QED
    BY <1>4, <1>5

LEMMA ReaderReadKeepsOrder ==
  ASSUME IInv, [Next]_vars, ReaderRead,
         NEW a \in Nat, NEW b \in Nat, NEW c \in Nat, RoundsFit(a, b, c)
  PROVE  \E a2 \in Nat : RoundsFit(a2, b, c)'
  <1> DEFINE reply == FirstLine("nodeOut")
  <1>1. /\ ClientTypeOK /\ PipesTyped /\ pipe["nodeOut"] \in Seq(Lines) /\ "nodeOut" \in Pipes
        /\ "nodeIn" \in Pipes \ {"nodeOut"} /\ Read("nodeOut")
    BY DEF IInv, ClientTypeOK, PipesTyped, Pipes, ReaderRead
  <1>2. /\ pipe'["nodeIn"] = pipe["nodeIn"]
        /\ \/ reply = Nothing /\ pipe' = pipe
           \/ /\ reply = Head(pipe["nodeOut"]) /\ reply \in On(pipe["nodeOut"])
              /\ pipe["nodeOut"] # <<>> /\ pipe'["nodeOut"] = Tail(pipe["nodeOut"])
    BY <1>1, ReadEffect
  <1>3. \/ reply.kind \notin Panels /\ panels' = panels
        \/ reply = Nothing /\ panels' = panels
        \/ /\ reply # Nothing /\ reply.kind \in Panels
           /\ panels' = [panels EXCEPT ![reply.kind] = @ + 1]
    BY <1>1, ReaderReadCases DEF screenVars
  <1> HIDE DEF reply
  <1>4. UNCHANGED <<child, next>>
    BY DEF ReaderRead, nodeVars, countVars
  <1>5. Nothing.kind \notin Panels \cup StatusKinds
    BY LineFacts, OtherKinds
  <1>6. CASE reply.kind \in Panels
    <2>1. /\ reply = Head(pipe["nodeOut"]) /\ pipe["nodeOut"] # <<>>
          /\ pipe'["nodeOut"] = Tail(pipe["nodeOut"])
          /\ panels' = [panels EXCEPT ![reply.kind] = @ + 1]
      BY <1>2, <1>3, <1>5, <1>6
    <2>2. Nth(reply, "status", a) /\ InOrder(pipe'["nodeOut"], "status", a + 1, b)
      BY <1>1, <1>6, <2>1, InOrderTail, StatusFacts DEF RoundsFit
    <2>3. reply.kind = ReplyTo[StatusRound[Place(a)]]
      <3>1. reply.kind \in {StatusRound[Place(a)], ReplyTo[StatusRound[Place(a)]]}
        BY <2>2, StatusFacts
      <3>2. StatusRound[Place(a)] \in StatusKinds
        BY PlaceNext, StatusFacts
      <3> QED
        BY <1>6, <3>1, <3>2, StatusFacts
    <2>4. Shown(a + 1)'
      BY <1>1, <2>1, <2>3, ShowsNext DEF RoundsFit
    <2>5. RoundsFit(a + 1, b, c)'
      BY <1>2, <1>4, <2>2, <2>4 DEF RoundsFit
    <2> QED
      BY <2>5
  <1>7. CASE reply.kind \notin Panels
    <2>1. reply.kind \notin StatusKinds
      <3>1. CASE reply \in On(pipe["nodeOut"])
        <4>1. Said("nodeOut", reply)
          BY <1>1, <3>1 DEF IInv, PipesSay
        <4>2. reply.kind \in {ReplyTo[k] : k \in NodeKinds} \cup {"PublishTxDone", "Notify"}
          BY <4>1 DEF Said
        <4>3. \A k \in StatusKinds : ReplyTo[k] \in Panels
          BY StatusReplies
        <4> QED
          BY <1>7, <4>2, <4>3, OtherKinds, Replies DEF NodeKinds
      <3> QED
        BY <1>2, <1>5, <3>1
    <2>2. ~Mine(FirstLine("nodeOut"), "status")
      BY <1>7, <2>1, StatusFacts DEF reply
    <2>3. Kept("nodeIn", "status") /\ Kept("nodeOut", "status")
      BY <1>1, <2>2, ReadKeeps
    <2>4. panels' = panels
      BY <1>3, <1>7
    <2>5. RoundsFit(a, b, c)'
      BY <1>1, <1>4, <2>3, <2>4, RoundsFrame
    <2> QED
      BY <2>5
  <1> QED
    BY <1>6, <1>7

LEMMA NodeKeepsRounds ==
  ASSUME IInv, [Next]_vars, Handle("node"),
         NEW a \in Nat, NEW b \in Nat, NEW c \in Nat, RoundsFit(a, b, c)
  PROVE  \E b2 \in Nat : RoundsFit(a, b2, c)'
  <1>1. PICK request \in Lines, reply \in Lines : Answered("node", request, reply)
    BY HandleEffect DEF IInv, Children
  <1>2. /\ pipe["nodeIn"] # <<>> /\ request = Head(pipe["nodeIn"]) /\ Said("nodeIn", request)
        /\ pipe'["nodeIn"] = Tail(pipe["nodeIn"])
        /\ pipe'["nodeOut"] = Append(pipe["nodeOut"], reply)
        /\ reply.kind = ReplyTo[request.kind]
    BY <1>1 DEF Answered, In, Out
  <1>3. pipe["nodeIn"] \in Seq(Lines) /\ pipe["nodeOut"] \in Seq(Lines)
    BY DEF IInv, ClientTypeOK, Pipes
  <1>4. child["node"] # "gone" /\ next' = next /\ panels' = panels
    BY DEF Handle, countVars, screenVars
  <1>5. Shown(a)' /\ (Place(c) = next')
    BY <1>4 DEF RoundsFit, Shown
  <1>6. InOrder(pipe["nodeIn"], "status", b, c) /\ InOrder(pipe["nodeOut"], "status", a, b)
    BY DEF RoundsFit
  <1>7. CASE request.kind \in StatusKinds
    <2>1. Nth(request, "status", b) /\ InOrder(pipe'["nodeIn"], "status", b + 1, c)
      BY <1>2, <1>3, <1>6, <1>7, InOrderTail, StatusFacts
    <2>2. request.kind = StatusRound[Place(b)]
      <3>1. request.kind \in {StatusRound[Place(b)], ReplyTo[StatusRound[Place(b)]]}
        BY <2>1, StatusFacts
      <3>2. ReplyTo[StatusRound[Place(b)]] \in Panels
        BY PlaceNext, StatusFacts
      <3> QED
        BY <1>7, <3>1, <3>2, StatusFacts
    <2>3. Mine(reply, "status") /\ Nth(reply, "status", b)
      BY <1>2, <2>2, PlaceNext, StatusFacts
    <2>4. InOrder(pipe'["nodeOut"], "status", a, b + 1)
      BY <1>2, <1>3, <1>6, <2>3, InOrderAppend
    <2>5. RoundsFit(a, b + 1, c)'
      BY <1>5, <2>1, <2>4 DEF RoundsFit
    <2> QED
      BY <2>5
  <1>8. CASE request.kind \notin StatusKinds
    <2>1. request.kind \in {"Initialize", "Quit", "RequestStateSerialization", "PublishTx"}
      BY <1>2, <1>8 DEF Said, NodeKinds
    <2>2. reply.kind \in {"Initialized", "Quitting", "StateSerialization", "PublishTxDone"}
      BY <1>2, <2>1, Replies
    <2>3. ~Mine(request, "status") /\ ~Mine(reply, "status")
      BY <2>1, <2>2, OtherKinds, StatusFacts
    <2>4. InOrder(pipe'["nodeIn"], "status", b, c)
      BY <1>2, <1>3, <1>6, <2>3, InOrderTail
    <2>5. InOrder(pipe'["nodeOut"], "status", a, b)
      BY <1>2, <1>3, <1>6, <2>3, InOrderAppend
    <2>6. RoundsFit(a, b, c)'
      BY <1>5, <2>4, <2>5 DEF RoundsFit
    <2> QED
      BY <2>6
  <1> QED
    BY <1>7, <1>8

\* The other steps touch no status request and no answer to one.
LEMMA OtherThanRounds ==
  ASSUME IInv, [Next]_vars, ~StatusAsk, ~ReaderRead, ~Handle("node")
  PROVE  /\ Kept("nodeIn", "status") /\ Kept("nodeOut", "status")
         /\ panels' = panels /\ next' = next
  <1>1. /\ ClientTypeOK /\ PipesTyped /\ PipesSay /\ RelayHolds /\ HandshakeHolds
        /\ "nodeIn" \in Pipes \ {"walletIn", "walletOut", "nodeErr"}
        /\ "nodeOut" \in Pipes \ {"walletIn", "walletOut", "nodeErr"}
        /\ "walletOut" \in Pipes /\ "nodeErr" \in Pipes
    BY DEF IInv, ClientTypeOK, PipesTyped, Pipes
  <1>2. \A line : line.kind \in {"Initialize", "Initialized", "GetUserInfo", "UserInfo",
                                 "Notify", "Quit", "RequestStateSerialization", "PublishTx",
                                 "SignRequest", "nothing"} => ~Mine(line, "status")
    BY OtherKinds, StatusFacts
  <1>3. ASSUME NEW p, NEW line, Writes(p, line),
               line.kind \in {"Initialize", "GetUserInfo", "Notify", "Quit",
                              "RequestStateSerialization", "PublishTx", "SignRequest"}
        PROVE  Kept("nodeIn", "status") /\ Kept("nodeOut", "status")
    <2>1. ~Mine(line, "status")
      BY <1>2, <1>3
    <2> QED
      BY <1>1, <1>3, <2>1, WritesKeep
  <1>4. CASE Silent
    <2>1. pipe' = pipe
      BY <1>4, SilentPipes
    <2>2. panels' = panels /\ next' = next
      BY <1>4 DEF Silent, BotCommand, RelayCheck, StatusCheck, ReaderOuter, ReaderInner,
         ReaderSave, Keys, Enter, CtrlS, Esc, Turn, JoinUi, Wait, JoinThreads, Orphaned,
         NodePanics, TakeLock, vars, screenVars, countVars
    <2> QED
      BY <2>1, <2>2, SameKept
  <1>5. CASE Ask
    <2>1. /\ Writes(In[Handshake[stage].to], Line(Handshake[stage].ask))
          /\ Line(Handshake[stage].ask).kind \in {"Initialize", "GetUserInfo"}
      BY <1>1, <1>5, AskWrites
    <2> QED
      BY <1>3, <1>5, <2>1 DEF Ask, screenVars, countVars
  <1>6. CASE Await
    <2> DEFINE p == Out[Handshake[stage].to]
    <2>1. p \in Pipes /\ Read(p)
      BY <1>1, <1>6, AwaitReads
    <2>2. Starting
      BY <1>6 DEF Await, At, Starting
    <2> HIDE DEF p
    <2>3. FirstLine(p) = Nothing \/ FirstLine(p) \in On(pipe[p])
      BY <1>1, <2>1, ReadEffect
    <2>4. FirstLine(p).kind \in {"Initialize", "GetUserInfo", "Initialized", "UserInfo",
                                 "Notify", "nothing"}
      BY <1>1, <2>1, <2>2, <2>3, LineFacts DEF HandshakeHolds, Early, EarlyKinds
    <2>5. ~Mine(FirstLine(p), "status")
      BY <1>2, <2>4
    <2>6. Kept("nodeIn", "status") /\ Kept("nodeOut", "status")
      BY <1>1, <2>1, <2>5, ReadKeeps
    <2> QED
      BY <1>6, <2>6 DEF Await, screenVars
  <1>7. CASE BotSend
    <2> DEFINE line == TxLine("SignRequest", "bot", made["bot"])
    <2>1. Writes("walletIn", line) /\ line.kind = "SignRequest"
      BY <1>1, <1>7, BotSendWrites, LineFacts
    <2> HIDE DEF line
    <2> QED
      BY <1>3, <1>7, <2>1 DEF BotSend, screenVars, countVars
  <1>8. CASE RelayPublish
    <2> DEFINE line == TxLine("PublishTx", signed.by, signed.n)
    <2>1. Writes("nodeIn", line) /\ line.kind = "PublishTx"
      BY <1>1, <1>8, RelayPublishWrites, LineFacts
    <2> HIDE DEF line
    <2> QED
      BY <1>3, <1>8, <2>1 DEF RelayPublish, screenVars, countVars
  <1>9. CASE RelayRead \/ ErrRead
    <2>1. Read("walletOut") \/ Read("nodeErr")
      BY <1>9 DEF RelayRead, ErrRead
    <2>2. pipe'["nodeIn"] = pipe["nodeIn"] /\ pipe'["nodeOut"] = pipe["nodeOut"]
      <3>1. CASE Read("walletOut")
        <4>1. \A q \in Pipes \ {"walletOut"} : pipe'[q] = pipe[q]
          BY <1>1, <3>1, ReadEffect
        <4> QED
          BY <1>1, <4>1
      <3>2. CASE Read("nodeErr")
        <4>1. \A q \in Pipes \ {"nodeErr"} : pipe'[q] = pipe[q]
          BY <1>1, <3>2, ReadEffect
        <4> QED
          BY <1>1, <4>1
      <3> QED
        BY <2>1, <3>1, <3>2
    <2> QED
      BY <1>9, <2>2, SameKept DEF RelayRead, ErrRead, screenVars, countVars
  <1>10. CASE UiWrite
    <2>1. PICK p, line : /\ Writes(p, line)
                         /\ line.kind \in {"SignRequest", "RequestStateSerialization"}
      BY <1>1, <1>10, UiWriteWrites, LineFacts
    <2>2. Kept("nodeIn", "status") /\ Kept("nodeOut", "status")
      BY <1>3, <2>1
    <2> QED
      BY <1>10, <2>2 DEF UiWrite, countVars
  <1>11. CASE WriteQuit \/ Notify \/ LogsLocked
    <2>1. PICK kind \in {"Quit", "Notify"} : \E p : Writes(p, Line(kind))
      BY <1>1, <1>11, WriteQuitWrites, NotifyWrites
    <2>2. Line(kind).kind \in {"Quit", "Notify"}
      BY LineFacts
    <2>3. Kept("nodeIn", "status") /\ Kept("nodeOut", "status")
      BY <1>3, <2>1, <2>2
    <2> QED
      BY <1>11, <2>3 DEF WriteQuit, Notify, LogsLocked, LogLocked, screenVars, countVars
  <1>12. CASE Handle("wallet")
    <2>1. PICK request \in Lines, reply \in Lines : Answered("wallet", request, reply)
      BY <1>1, <1>12, HandleEffect DEF Children
    <2>2. pipe'["nodeIn"] = pipe["nodeIn"] /\ pipe'["nodeOut"] = pipe["nodeOut"]
      BY <1>1, <2>1 DEF Answered, In, Out
    <2> QED
      BY <1>12, <2>2, SameKept DEF Handle, screenVars, countVars
  <1>13. (\E c \in Children : Handle(c)) => Handle("wallet")
    BY DEF Children
  <1> QED
    BY <1>4, <1>5, <1>6, <1>7, <1>8, <1>9, <1>10, <1>11, <1>12, <1>13, Steps

LEMMA RoundsStep ==
  ASSUME IInv, [Next]_vars
  PROVE  RoundsInOrder'
  <1>1. PICK a \in Nat, b \in Nat, c \in Nat : RoundsFit(a, b, c)
    BY DEF IInv, RoundsInOrder
  <1>2. SUFFICES \E a2, b2, c2 \in Nat : RoundsFit(a2, b2, c2)'
    BY DEF RoundsInOrder
  <1>3. CASE StatusAsk
    <2>1. \E c2 \in Nat : RoundsFit(a, b, c2)'
      BY <1>1, <1>3, StatusAskKeepsOrder
    <2> QED
      BY <2>1
  <1>4. CASE ReaderRead
    <2>1. \E a2 \in Nat : RoundsFit(a2, b, c)'
      BY <1>1, <1>4, ReaderReadKeepsOrder
    <2> QED
      BY <2>1
  <1>5. CASE Handle("node")
    <2>1. \E b2 \in Nat : RoundsFit(a, b2, c)'
      BY <1>1, <1>5, NodeKeepsRounds
    <2> QED
      BY <2>1
  <1>6. CASE ~StatusAsk /\ ~ReaderRead /\ ~Handle("node")
    <2>1. /\ Kept("nodeIn", "status") /\ Kept("nodeOut", "status")
          /\ panels' = panels /\ next' = next
      BY <1>6, OtherThanRounds
    <2>2. RoundsFit(a, b, c)'
      BY <1>1, <2>1, RoundsFrame DEF IInv
    <2> QED
      BY <2>2
  <1> QED
    BY <1>3, <1>4, <1>5, <1>6

-----------------------------------------------------------------------------
(* The theorems                                                            *)

LEMMA Invariance == Spec => []IInv
  <1>1. Init => IInv
    BY InitHolds
  <1>2. IInv /\ [Next]_vars => IInv'
    <2> SUFFICES ASSUME IInv, [Next]_vars
                 PROVE  IInv'
      OBVIOUS
    <2>1. ClientTypeOK'
      BY TypeStep
    <2>2. PipesSay' /\ RelayHolds' /\ HandshakeHolds' /\ EndsAfterQuit'
      BY PipesStep, RelayStep, HandshakeStep, EndsStep DEF IInv
    <2>3. EndInOrder' /\ TxsInOrder' /\ RoundsInOrder'
      BY EndInOrderStep, TxsStep, RoundsStep
    <2> QED
      BY <2>1, <2>2, <2>3 DEF IInv
  <1> QED
    BY <1>1, <1>2, PTL DEF Spec

\* Every thread, pipe, file and panel has a value of its type, no pipe holds
\* more lines than it has room for, and no more has begun than the bound allows.
THEOREM ClientTypeCorrect == Spec => []ClientTypeOK
  <1>1. IInv => ClientTypeOK
    BY DEF IInv
  <1> QED
    BY <1>1, Invariance, PTL

\* Until the user quits the three processes and the reader of the node's output
\* are there, whatever the threads and the children say to each other in between;
\* the node alone may have panicked, and then one of its threads has panicked with
\* a lock, or the user has made a transaction whose sender is no key.
THEOREM NobodyDiesEarly == Spec => []AliveTillQuit
  <1>1. IInv => AliveTillQuit
    BY DEF IInv, EndsAfterQuit, AliveTillQuit, Alive, Over, Children
  <1> QED
    BY <1>1, Invariance, PTL

\* When the client has ended as it should, a saved state has both its files, the
\* threads that main joins have ended by themselves, and so have the children.
THEOREM EndsClean == Spec => []CleanEnd
  <1>1. ASSUME IInv, pc["main"] = "ended"
        PROVE  /\ files[1] = files[2]
               /\ \A t \in {"relay", "status", "reader", "err", "ui"} : pc[t] = "ended"
               /\ \A c \in Children : child[c] = "gone"
    <2>1. \A t \in {"relay", "status", "reader", "err"} : pc[t] = "ended"
      BY <1>1 DEF IInv, EndInOrder
    <2>2. files[1] = files[2]
      BY <1>1, <2>1 DEF IInv, EndInOrder, ClientTypeOK
    <2>3. pc["ui"] = "ended"
      BY <1>1 DEF IInv, EndsAfterQuit
    <2>4. \A c \in Children : child[c] = "gone"
      BY <1>1 DEF IInv, EndInOrder
    <2> QED
      BY <2>1, <2>2, <2>3, <2>4
  <1>2. IInv => CleanEnd
    BY <1>1 DEF CleanEnd
  <1> QED
    BY <1>2, Invariance, PTL

\* Of what the bot and the user have made, the node publishes the first ones,
\* each once and in the order they were made in: none overtakes another in the
\* pipes, in the wallet or in the relay, and none is skipped.
THEOREM PublishesInOrder == Spec => []PublishedInOrder
  <1>1. ASSUME IInv, NEW m \in Makers
        PROVE  /\ published[m] = [i \in DOMAIN published[m] |-> i]
               /\ Len(published[m]) <= made[m]
    <2>1. /\ published[m] \in Seq(Nat) /\ made[m] \in Nat
          /\ \A p \in Pipes : pipe[p] \in Seq(Lines)
      BY <1>1 DEF IInv, ClientTypeOK
    <2>2. published[m] = [i \in 1..Len(published[m]) |-> i]
      BY <1>1 DEF IInv, TxsInOrder
    <2>3. PICK a \in Nat, b \in Nat, c \in Nat, d \in Nat : TxsFit(m, a, b, c, d)
      BY <1>1 DEF IInv, TxsInOrder
    <2> DEFINE from == IF signed.by = m THEN b + 1 ELSE b
               done == Len(published[m]) + 1
    <2>4. from \in Nat /\ b <= from /\ done \in Nat
      BY <2>1
    <2>5. /\ InOrder(pipe["nodeIn"], m, done, a) /\ a <= b
          /\ InOrder(pipe["walletOut"], m, from, c)
          /\ InOrder(pipe["walletIn"], m, c, d) /\ d <= Sent(m) + 1
      BY <2>3 DEF TxsFit
    <2>6. Sent(m) \in Int /\ Sent(m) <= made[m]
      BY <2>1 DEF Sent
    <2>7. done = Len(published[m]) + 1 /\ Len(published[m]) \in Nat
      BY <2>1
    <2> HIDE DEF from, done
    <2>8. done <= a /\ from <= c /\ c <= d
      BY <2>1, <2>4, <2>5, InOrderBounds DEF Pipes
    <2>9. Len(published[m]) <= made[m]
      BY <2>1, <2>4, <2>5, <2>6, <2>7, <2>8
    <2>10. DOMAIN published[m] = 1..Len(published[m])
      BY <2>1
    <2> QED
      BY <2>2, <2>9, <2>10
  <1>2. IInv => PublishedInOrder
    BY <1>1 DEF PublishedInOrder
  <1> QED
    BY <1>2, Invariance, PTL

\* The screen shows the answers of one round, or the first of the next: the node
\* answers in the order of the requests and the reader takes no answer twice.
THEOREM ScreenShowsRounds == Spec => []ScreenInOrder
  <1>1. ASSUME IInv, NEW i \in 1..Asked, NEW j \in 1..Asked, i < j
        PROVE  panels[ReplyTo[StatusRound[i]]] - panels[ReplyTo[StatusRound[j]]] \in {0, 1}
    <2>1. PICK q \in Nat : Shown(q)
      BY <1>1 DEF IInv, RoundsInOrder, RoundsFit
    <2>2. PICK r \in Nat : \A k \in 1..Asked :
              panels[ReplyTo[StatusRound[k]]] = IF k < Place(q) THEN r + 1 ELSE r
      BY <2>1 DEF Shown
    <2>3. Place(q) \in 1..Asked /\ Asked \in Nat
      BY PlaceNext, ClientAssumption
    <2> QED
      BY <1>1, <2>2, <2>3
  <1>2. IInv => ScreenInOrder
    BY <1>1, RoundFacts DEF ScreenInOrder
  <1> QED
    BY <1>2, Invariance, PTL
=============================================================================
