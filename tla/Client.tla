------------------------------- MODULE Client -------------------------------
(***************************************************************************)
(* A session of bin_client with its two children, bin_nakamoto and         *)
(* bin_wallet: the handshake, the seven threads of the client, the loops   *)
(* of the children over their stdin, the pipes between them, and the end.  *)
(*                                                                         *)
(* A pipe holds a limited number of lines; who writes to a full one waits, *)
(* with the mutex of the pipe taken, which for the other writers is the    *)
(* same as waiting for room.  The mutex of the App is different: only the  *)
(* UI thread waits for something else while it has it (AppFree).  Who has  *)
(* read a line and waits, the reader for the App and a child for room for  *)
(* its response, has in the model not yet taken the line out of the pipe.  *)
(*                                                                         *)
(* A transaction is who made it and its number: the time stamp makes each  *)
(* one new.  Those of which the user has typed a sender that is no key are *)
(* counted as a third maker's.  Sleeping and drawing are left out, and so  *)
(* are the stderr of the wallet, which nobody reads, and what the node's   *)
(* loop, apart from its other threads, writes to its stderr.               *)
(***************************************************************************)
EXTENDS Integers, Sequences

CONSTANTS
    Capacity,           \* how many lines each pipe holds
    Texts,              \* what may stand in the text areas
    DefaultText,        \* what stands there at first
    Balances,           \* the balances the node may answer
    Asked,              \* bound: how many requests of a round are made, of the five
    MaxActs             \* bound: how many things the bot, the user, the thread of the
                        \* status requests and the threads of the node begin, together

Pipes == {"nodeIn", "nodeOut", "nodeErr", "walletIn", "walletOut"}
Children == {"node", "wallet"}
In == [node |-> "nodeIn", wallet |-> "walletIn"]
Out == [node |-> "nodeOut", wallet |-> "walletOut"]
Child(p) == IF p \in {"walletIn", "walletOut"} THEN "wallet" ELSE "node"

ASSUME ClientAssumption ==
    /\ Capacity \in [Pipes -> Nat \ {0}]
    /\ Texts \subseteq [ids : BOOLEAN, key : BOOLEAN, amount : Int] /\ DefaultText \in Texts
    /\ Balances \subseteq Int
    /\ Asked \in 1..5 /\ MaxActs \in Nat

\* What main asks before it starts the threads, one after the other.
Handshake ==
    << [to |-> "node",   ask |-> "Initialize",  reply |-> "Initialized"],
       [to |-> "wallet", ask |-> "Initialize",  reply |-> "Initialized"],
       [to |-> "wallet", ask |-> "GetUserInfo", reply |-> "UserInfo"] >>

\* What the thread of the status requests asks every 500 ms.
StatusRound ==
    SubSeq(<<"GetAddressBalance", "RequestNetStatus", "RequestChainStatus",
             "RequestMinerStatus", "RequestTxPoolStatus">>, 1, Asked)

\* The requests of the client and the responses of the children.
ReplyTo ==
    [Initialize |-> "Initialized", Quit |-> "Quitting",
     GetAddressBalance |-> "AddressBalance", PublishTx |-> "PublishTxDone",
     RequestNetStatus |-> "NetStatus", RequestChainStatus |-> "ChainStatus",
     RequestMinerStatus |-> "MinerStatus", RequestTxPoolStatus |-> "TxPoolStatus",
     RequestStateSerialization |-> "StateSerialization",
     GetUserInfo |-> "UserInfo", SignRequest |-> "SignResponse"]

Kinds == {"Notify", "nothing"} \cup UNION {{r, ReplyTo[r]} : r \in DOMAIN ReplyTo}

\* The locks of the node, and the requests that it answers with them taken.
Locks == {"chain", "pool"}
Needs ==
    [chain |-> {"GetAddressBalance", "RequestChainStatus", "RequestStateSerialization"},
     pool |-> {"PublishTx", "RequestTxPoolStatus", "RequestStateSerialization"}]

Panels == {ReplyTo[StatusRound[i]] : i \in DOMAIN StatusRound}

Makers == {"bot", "user", "mistyped"}
Line(kind) == [kind |-> kind, by |-> "client", n |-> 0]
TxLine(kind, by, n) == [kind |-> kind, by |-> by, n |-> n]
Nothing == Line("nothing")

VARIABLES
    pipe,               \* the lines in each pipe
    pc,                 \* where each thread of the client is
    signed,             \* the signed transaction that the relay has not published yet
    stage,              \* how far the handshake is
    next,               \* the next request of the round of status requests
    child,              \* "new", "ready" once initialized, "gone"
    lock,               \* who has each lock of the node: nobody, or a thread that writes to
                        \* a pipe with it
    poisoned,           \* the locks with which a thread of the node has panicked
    app,                \* the App: are_inputs_valid, user_balance, should_quit, the texts
    panels,             \* how often each panel of the screen has been renewed
    files,              \* how many BlockTree files and TxPool files have been written
    made,               \* how many transactions the bot and the user have made
    published,          \* the transactions that publish_tx was called with, in order
    acts                \* how many things have begun

nodeVars == <<child, lock, poisoned, published>>
screenVars == <<app, panels, files>>
countVars == <<stage, next, made, acts>>
vars == <<pipe, pc, signed, nodeVars, screenVars, countVars>>

Threads == {"main", "bot", "relay", "status", "reader", "err", "ui"}
Over == {"ended", "panicked"}
Lines == [kind : Kinds, by : Makers \cup {"client"}, n : Int]

\* Where a thread may be: it waits for its next step, or is at the end.
Labels ==
    {"new", "ask", "await", "session", "quit node", "quit wallet", "wait", "join",
     "check", "send", "read", "publish", "outer", "inner", "poll", "signing", "saving"} \cup Over

ClientTypeOK ==
    /\ pipe \in [Pipes -> Seq(Lines)] /\ \A p \in Pipes : Len(pipe[p]) <= Capacity[p]
    /\ pc \in [Threads -> Labels]
    /\ signed \in Lines /\ signed.kind \in {"SignResponse", "nothing"}
    /\ stage \in DOMAIN Handshake /\ next \in DOMAIN StatusRound
    /\ child \in [Children -> {"new", "ready", "gone"}]
    /\ lock \in [Locks -> {"free", "nodeOut", "nodeErr"}] /\ poisoned \subseteq Locks
    /\ app \in [valid : BOOLEAN, balance : Balances \cup {-1}, shouldQuit : BOOLEAN,
               text : Texts]
    /\ panels \in [Panels -> Nat]
    /\ files \in [1..2 -> Nat] /\ acts \in 0..MaxActs
    /\ made \in [Makers -> Nat] /\ published \in [Makers -> Seq(Nat)]

Init ==
    /\ pipe = [p \in Pipes |-> <<>>]
    /\ pc = [t \in Threads |-> IF t = "main" THEN "ask" ELSE "new"]
    /\ signed = Nothing
    /\ stage = 1 /\ next = 1
    /\ child = [c \in Children |-> "new"]
    /\ lock = [l \in Locks |-> "free"] /\ poisoned = {}
    /\ app = [valid |-> FALSE, balance |-> -1, shouldQuit |-> FALSE, text |-> DefaultText]
    /\ panels = [k \in Panels |-> 0]
    /\ files = <<0, 0>>
    /\ made = [m \in Makers |-> 0] /\ published = [m \in Makers |-> <<>>]
    /\ acts = 0

-----------------------------------------------------------------------------
(* Pipes, threads and the App's mutex                                      *)

FaultyWrite(p, line) ==         \* does not wait for room
    pipe' = [pipe EXCEPT ![p] = Append(@, line)]

\* A write to a child that is gone fails, and nobody looks at the result.
Write(p, line) ==
    IF child[Child(p)] = "gone"
    THEN UNCHANGED pipe
    ELSE /\ Len(pipe[p]) < Capacity[p]
         /\ pipe' = [pipe EXCEPT ![p] = Append(@, line)]

\* read_line: FirstLine, which is nothing at the end of what a gone child has
\* written.
FirstLine(p) == IF pipe[p] = <<>> THEN Nothing ELSE Head(pipe[p])

Read(p) ==
    \/ pipe[p] # <<>> /\ pipe' = [pipe EXCEPT ![p] = Tail(@)]
    \/ pipe[p] = <<>> /\ child[Child(p)] = "gone" /\ UNCHANGED pipe

\* The client's process is there.
Alive == pc["main"] \notin Over

At(t, label) == Alive /\ pc[t] = label
Goto(t, label) == pc' = [pc EXCEPT ![t] = label]

\* The UI thread writes to a pipe with the mutex of the App taken.
AppFree == pc["ui"] \notin {"signing", "saving"}

Begin == acts < MaxActs /\ acts' = acts + 1

FaultyWhileNotQuit(t, label) ==         \* loop
    AppFree /\ Goto(t, label)

\* while app.lock().unwrap().should_quit == false
WhileNotQuit(t, label) == AppFree /\ Goto(t, IF app.shouldQuit THEN "ended" ELSE label)

-----------------------------------------------------------------------------
(* main: the handshake                                                     *)

\* main writes the request; the App's mutex does not exist yet.
Ask ==
    /\ At("main", "ask") /\ Goto("main", "await")
    /\ Write(In[Handshake[stage].to], Line(Handshake[stage].ask))
    /\ UNCHANGED <<signed, nodeVars, screenVars, countVars>>

\* Lines that are not the reply are dropped.  After the last reply main makes
\* the App, starts the threads and joins the UI thread.
Await ==
    LET p == Out[Handshake[stage].to]
        answered == FirstLine(p).kind = Handshake[stage].reply
    IN  /\ At("main", "await") /\ Read(p)
        /\ CASE ~answered -> UNCHANGED <<pc, stage>>
             [] answered /\ stage < Len(Handshake) ->
                    Goto("main", "ask") /\ stage' = stage + 1
             [] answered /\ stage = Len(Handshake) ->
                    /\ pc' = [pc EXCEPT !["main"] = "session", !["bot"] = "check",
                                        !["relay"] = "check", !["status"] = "check",
                                        !["reader"] = "outer", !["err"] = "read",
                                        !["ui"] = "poll"]
                    /\ UNCHANGED stage
        /\ UNCHANGED <<signed, nodeVars, screenVars, next, made, acts>>

-----------------------------------------------------------------------------
(* The bot and the relay of signed transactions                            *)

\* The next Send of the commands, which are read again from the start when
\* they are used up.  Nobody joins this thread.
BotCommand ==
    /\ At("bot", "check") /\ AppFree /\ ~app.shouldQuit
    /\ Goto("bot", "send")
    /\ Begin /\ made' = [made EXCEPT !["bot"] = @ + 1]
    /\ UNCHANGED <<pipe, signed, nodeVars, screenVars, stage, next>>

BotSend ==
    /\ At("bot", "send") /\ Goto("bot", "check")
    /\ Write("walletIn", TxLine("SignRequest", "bot", made["bot"]))
    /\ UNCHANGED <<signed, nodeVars, screenVars, countVars>>

FaultyRelayCheck ==             \* looks for the wrong word in the line
    /\ At("relay", "check")
    /\ WhileNotQuit("relay", IF signed.kind # "SignRequest" THEN "read" ELSE "publish")
    /\ UNCHANGED <<pipe, signed, nodeVars, screenVars, countVars>>

\* A signed transaction is given up if the session ends here.
RelayCheck ==
    /\ At("relay", "check")
    /\ WhileNotQuit("relay", IF signed = Nothing THEN "read" ELSE "publish")
    /\ UNCHANGED <<pipe, signed, nodeVars, screenVars, countVars>>

RelayRead ==
    /\ At("relay", "read") /\ Goto("relay", "check")
    /\ Read("walletOut")
    /\ signed' = IF FirstLine("walletOut").kind = "SignResponse"
                 THEN FirstLine("walletOut") ELSE Nothing
    /\ UNCHANGED <<nodeVars, screenVars, countVars>>

FaultyRelayPublish ==           \* the buffer keeps the line
    /\ At("relay", "publish") /\ Goto("relay", "check")
    /\ Write("nodeIn", TxLine("PublishTx", signed.by, signed.n))
    /\ UNCHANGED <<signed, nodeVars, screenVars, countVars>>

RelayPublish ==
    /\ At("relay", "publish") /\ Goto("relay", "check")
    /\ Write("nodeIn", TxLine("PublishTx", signed.by, signed.n))
    /\ signed' = Nothing
    /\ UNCHANGED <<nodeVars, screenVars, countVars>>

-----------------------------------------------------------------------------
(* The requests for the status, and the readers of the node's output       *)

StatusCheck ==
    /\ At("status", "check") /\ WhileNotQuit("status", "ask")
    /\ IF app.shouldQuit THEN UNCHANGED acts ELSE Begin
    /\ UNCHANGED <<pipe, signed, nodeVars, screenVars, stage, next, made>>

FaultyStatusAsk ==              \* writes what there is room for, and no more
    /\ At("status", "ask")
    /\ \/ Write("nodeIn", Line(StatusRound[next]))
       \/ Len(pipe["nodeIn"]) = Capacity["nodeIn"] /\ UNCHANGED pipe
    /\ IF next = Len(StatusRound)
       THEN Goto("status", "check") /\ next' = 1
       ELSE UNCHANGED pc /\ next' = next + 1
    /\ UNCHANGED <<signed, nodeVars, screenVars, stage, made, acts>>

\* One write after the other, also when the session ends meanwhile.
StatusAsk ==
    /\ At("status", "ask")
    /\ Write("nodeIn", Line(StatusRound[next]))
    /\ IF next = Len(StatusRound)
       THEN Goto("status", "check") /\ next' = 1
       ELSE UNCHANGED pc /\ next' = next + 1
    /\ UNCHANGED <<signed, nodeVars, screenVars, stage, made, acts>>

FaultyReaderInner ==            \* takes nothing for a reply
    /\ At("reader", "inner") /\ AppFree
    /\ Goto("reader", IF app.shouldQuit \/ pipe["nodeOut"] = <<>> THEN "panicked" ELSE "read")
    /\ UNCHANGED <<pipe, signed, nodeVars, screenVars, countVars>>

ReaderOuter ==
    /\ At("reader", "outer") /\ WhileNotQuit("reader", "inner")
    /\ UNCHANGED <<pipe, signed, nodeVars, screenVars, countVars>>

\* When the session has ended the inner loop is left with an empty line, which
\* from_str does not take and unwrap panics on.
ReaderInner ==
    /\ At("reader", "inner") /\ AppFree
    /\ Goto("reader", IF app.shouldQuit THEN "panicked" ELSE "read")
    /\ UNCHANGED <<pipe, signed, nodeVars, screenVars, countVars>>

\* A line is read, which is always a known one, and matched: it renews a panel of
\* the screen, is the first of the two files of a saved state, or is something
\* for the log.  Then the outer loop is tested.  At the end there is no line.
ReaderRead ==
    LET reply == FirstLine("nodeOut")
    IN  /\ At("reader", "read") /\ Read("nodeOut") /\ AppFree
        /\ CASE reply = Nothing -> Goto("reader", "inner") /\ UNCHANGED screenVars
             [] reply.kind \in Panels ->
                    /\ panels' = [panels EXCEPT ![reply.kind] = @ + 1]
                    /\ app' = IF reply.kind = "AddressBalance"
                              THEN [app EXCEPT !.balance = reply.n] ELSE app
                    /\ WhileNotQuit("reader", "inner") /\ UNCHANGED files
             [] reply.kind = "StateSerialization" ->
                    /\ files' = [files EXCEPT ![1] = @ + 1]
                    /\ Goto("reader", "saving") /\ UNCHANGED <<app, panels>>
             [] OTHER -> WhileNotQuit("reader", "inner") /\ UNCHANGED screenVars
        /\ UNCHANGED <<signed, nodeVars, countVars>>

ReaderSave ==
    /\ At("reader", "saving") /\ WhileNotQuit("reader", "inner")
    /\ files' = [files EXCEPT ![2] = @ + 1]
    /\ UNCHANGED <<pipe, signed, nodeVars, app, panels, countVars>>

\* The reader of stderr, for which a line is something for the log.
ErrRead ==
    /\ At("err", "read") /\ Read("nodeErr")
    /\ WhileNotQuit("err", "read")
    /\ UNCHANGED <<signed, nodeVars, screenVars, countVars>>

-----------------------------------------------------------------------------
(* The UI thread and the App                                               *)

\* validate_id_textarea, validate_message_textarea; an amount of 0 stands for a
\* message without one.
Valid(text, balance) == text.ids /\ text.amount > 0 /\ text.amount <= balance

\* The length of the sender is all that the client looks at.
Maker(text) == IF text.key THEN "user" ELSE "mistyped"

\* draw, at the beginning of the next turn of the loop
Drawn(text) == [app EXCEPT !.text = text, !.valid = Valid(text, app.balance)]

\* A turn of the loop: a key for the text areas, one that chooses among them,
\* none before the timeout, or Enter with inputs that are not valid.
Turn(text) ==
    /\ At("ui", "poll") /\ app' = Drawn(text)
    /\ UNCHANGED <<pipe, pc, signed, nodeVars, panels, files, countVars>>

\* on_enter and create_sign_req, when the inputs were valid at the last draw.
Enter ==
    /\ At("ui", "poll") /\ Goto("ui", "signing")
    /\ app.valid
    /\ Begin
    /\ made' = [made EXCEPT ![Maker(app.text)] = @ + 1]
    /\ UNCHANGED <<pipe, signed, nodeVars, screenVars, stage, next>>

CtrlS ==
    /\ At("ui", "poll") /\ Goto("ui", "saving")
    /\ Begin
    /\ UNCHANGED <<pipe, signed, nodeVars, screenVars, stage, next, made>>

\* The writes after Enter and after control and s.
UiWrite ==
    /\ \/ /\ At("ui", "signing")
          /\ LET m == Maker(app.text) IN Write("walletIn", TxLine("SignRequest", m, made[m]))
       \/ At("ui", "saving") /\ Write("nodeIn", Line("RequestStateSerialization"))
    /\ Goto("ui", "poll") /\ app' = Drawn(app.text)
    /\ UNCHANGED <<signed, nodeVars, panels, files, countVars>>

\* on_quit, after which the loop is left.
Esc ==
    /\ At("ui", "poll") /\ Goto("ui", "ended")
    /\ app' = [app EXCEPT !.shouldQuit = TRUE]
    /\ UNCHANGED <<pipe, signed, nodeVars, panels, files, countVars>>

-----------------------------------------------------------------------------
(* main: the end                                                           *)

JoinUi ==
    /\ At("main", "session") /\ pc["ui"] = "ended"
    /\ Goto("main", "quit node")
    /\ UNCHANGED <<pipe, signed, nodeVars, screenVars, countVars>>

\* Here the result of the write is unwrapped.
WriteQuit ==
    /\ \/ /\ At("main", "quit node") /\ Write("nodeIn", Line("Quit"))
          /\ Goto("main", IF child["node"] = "gone" THEN "panicked" ELSE "quit wallet")
       \/ /\ At("main", "quit wallet") /\ Write("walletIn", Line("Quit"))
          /\ Goto("main", IF child["wallet"] = "gone" THEN "panicked" ELSE "wait")
    /\ UNCHANGED <<signed, nodeVars, screenVars, countVars>>

Wait ==
    /\ At("main", "wait") /\ \A c \in Children : child[c] = "gone"
    /\ Goto("main", "join")
    /\ UNCHANGED <<pipe, signed, nodeVars, screenVars, countVars>>

FaultyJoinThreads ==            \* does not join the readers
    /\ At("main", "join")
    /\ pc["relay"] = "ended" /\ pc["status"] = "ended"
    /\ Goto("main", "ended")
    /\ UNCHANGED <<pipe, signed, nodeVars, screenVars, countVars>>

\* The bot is not joined.  The panic of a thread that is joined is main's.
JoinThreads ==
    /\ At("main", "join")
    /\ pc["relay"] = "ended" /\ pc["status"] = "ended"
    /\ \/ pc["reader"] = "panicked" /\ Goto("main", "panicked")
       \/ pc["reader"] = "ended" /\ pc["err"] = "ended" /\ Goto("main", "ended")
    /\ UNCHANGED <<pipe, signed, nodeVars, screenVars, countVars>>

-----------------------------------------------------------------------------
(* The children                                                            *)

\* What the node's loop unwraps for a request: the lock, and in verify_sig the key
\* that it makes of the sender.
Unwraps(request) ==
    \/ \E l \in poisoned : request.kind \in Needs[l]
    \/ request.kind = "PublishTx" /\ request.by = "mistyped"

LocksFree(request) == \A l \in Locks : request.kind \in Needs[l] => lock[l] = "free"

\* A turn of the loop of a child: it reads a request, handles it and prints the
\* response, and leaves the loop after Quitting.  On a request before Initialize
\* it panics.
Handle(c) ==
    LET request == FirstLine(In[c])
        tooEarly == child[c] = "new" /\ request.kind \notin {"Initialize", "Quit"}
        response(n) == TxLine(ReplyTo[request.kind], request.by, n)
    IN  /\ Alive /\ child[c] # "gone" /\ request # Nothing
        /\ c = "node" => LocksFree(request) /\ ~Unwraps(request)
        /\ tooEarly \/ Len(pipe[Out[c]]) < Capacity[Out[c]]
        /\ \E n \in IF request.kind = "GetAddressBalance" THEN Balances ELSE {request.n} :
              pipe' = [pipe EXCEPT ![In[c]] = Tail(@),
                                   ![Out[c]] = IF tooEarly THEN @ ELSE Append(@, response(n))]
        /\ child' = [child EXCEPT ![c] = IF request.kind = "Quit" \/ tooEarly THEN "gone" ELSE "ready"]
        /\ published' = IF request.kind = "PublishTx" /\ ~tooEarly
                        THEN [published EXCEPT ![request.by] = Append(@, request.n)]
                        ELSE published
        /\ UNCHANGED <<pc, signed, lock, poisoned, screenVars, countVars>>

\* When the client is gone, a child panics when it writes a response and, at the
\* end of its stdin, when it parses an empty line.
Orphaned(c) ==
    /\ ~Alive /\ child[c] # "gone"
    /\ child' = [child EXCEPT ![c] = "gone"]
    /\ UNCHANGED <<pipe, pc, signed, lock, poisoned, published, screenVars, countVars>>

NodeRuns == Alive /\ child["node"] = "ready"

\* A thread of the node, or main before the loop, writes to stdout, with no lock
\* that the loop needs.
Notify ==
    /\ Alive /\ child["node"] # "gone" /\ Begin
    /\ Write("nodeOut", Line("Notify"))
    /\ UNCHANGED <<pc, signed, nodeVars, screenVars, stage, next, made>>

\* A thread of the node takes a lock and will write with it taken: add_block to
\* stdout or stderr, add_tx, which has refused a transaction, to stderr, and the
\* one or the other that panics the message of the panic to stderr.
TakeLock(l, p) ==
    /\ NodeRuns /\ Begin
    /\ lock[l] = "free" /\ l \notin poisoned
    /\ l = "pool" => p = "nodeErr"
    /\ lock' = [lock EXCEPT ![l] = p]
    /\ UNCHANGED <<pipe, pc, signed, child, poisoned, published, screenVars, stage, next, made>>

\* It writes; what it has written to stderr may have been the message of a panic.
LogLocked(l) ==
    /\ NodeRuns /\ lock[l] # "free"
    /\ Write(lock[l], Line("Notify"))
    /\ lock' = [lock EXCEPT ![l] = "free"]
    /\ \/ UNCHANGED poisoned
       \/ lock[l] = "nodeErr" /\ poisoned' = poisoned \cup {l}
    /\ UNCHANGED <<pc, signed, child, published, screenVars, countVars>>

\* The loop panics, and with it the node, on a request for which it unwraps a
\* poisoned lock or a sender that is no key.  On PublishTx it also may when any
\* lock is poisoned: the thread of the miner has ended then, the one that sends
\* transactions ends with the next one, and publish_tx unwraps its channel.
NodePanics ==
    LET request == FirstLine("nodeIn")
    IN  /\ NodeRuns /\ LocksFree(request)
        /\ Unwraps(request) \/ (request.kind = "PublishTx" /\ poisoned # {})
        /\ child' = [child EXCEPT !["node"] = "gone"]
        /\ UNCHANGED <<pipe, pc, signed, lock, poisoned, published, screenVars, countVars>>

-----------------------------------------------------------------------------

Main == Ask \/ Await \/ JoinUi \/ WriteQuit \/ Wait \/ JoinThreads
Bot == BotCommand \/ BotSend
Relay == RelayCheck \/ RelayRead \/ RelayPublish
Status == StatusCheck \/ StatusAsk
Reader == ReaderOuter \/ ReaderInner \/ ReaderRead \/ ReaderSave
Keys == Enter \/ CtrlS \/ Esc \/ \E text \in Texts : Turn(text)
Loop(c) == Handle(c) \/ Orphaned(c)
LogsLocked == \E l \in Locks : LogLocked(l)
Node == NodePanics \/ Notify \/ \E l \in Locks, p \in {"nodeOut", "nodeErr"} : TakeLock(l, p)

\* The session is over and nothing is left to do.
Finished == ~Alive /\ (\A c \in Children : child[c] = "gone") /\ UNCHANGED vars

Next ==
    \/ Main \/ Bot \/ Relay \/ Status \/ Reader \/ ErrRead \/ UiWrite \/ Keys
    \/ \E c \in Children : Loop(c)
    \/ Node \/ LogsLocked
    \/ Finished

Spec == Init /\ [][Next]_vars

\* Every thread and every process is scheduled, the two that spin at the end of
\* what a child has written each for itself, of the others some one that can
\* take a step.  Keys are pressed, blocks and transactions arrive and locks are
\* poisoned as it happens.
Fairness ==
    /\ WF_vars(\/ Main \/ BotSend \/ Status \/ ErrRead \/ UiWrite \/ LogsLocked \/ NodePanics
                \/ \E c \in Children : Loop(c))
    /\ WF_vars(Relay) /\ WF_vars(Reader)

FairSpec == Spec /\ Fairness

-----------------------------------------------------------------------------
(* Properties                                                              *)

\* Until the user quits, no thread and no child panics on what it reads: not on
\* an empty line, not on a request before Initialize.  Only a lock with which one
\* of its threads has panicked, or a sender that is no key, ends the node.
AliveTillQuit ==
    ~app.shouldQuit =>
        /\ pc["reader"] # "panicked" /\ Alive
        /\ child["wallet"] # "gone"
        /\ child["node"] = "gone" => poisoned # {} \/ made["mistyped"] > 0

\* bin_client/src/main.rs:126, "executed by the client in the order they are
\* read": of the bot's transactions, and of the user's, the node publishes the
\* first ones, each once and in order, through the wallet and the relay, which
\* end at any time.
PublishedInOrder ==
    \A m \in Makers :
        /\ published[m] = [i \in DOMAIN published[m] |-> i]
        /\ Len(published[m]) <= made[m]

\* The panels of the screen show one round of answers, or the beginning of the
\* next: no answer is lost, taken for another one, or shown before an older one.
ScreenInOrder ==
    \A i, j \in DOMAIN StatusRound :
        i < j => panels[ReplyTo[StatusRound[i]]] - panels[ReplyTo[StatusRound[j]]] \in {0, 1}

\* When the client has ended as it should, no thread has been cut off: a saved
\* state has both its files, and the children have exited.
CleanEnd ==
    pc["main"] = "ended" =>
        /\ files[1] = files[2]
        /\ \A t \in {"relay", "status", "reader", "err", "ui"} : pc[t] = "ended"
        /\ \A c \in Children : child[c] = "gone"

\* bin_client/src/main.rs:903, bin_nakamoto/src/main.rs:120, bin_wallet/src/
\* main.rs:100: when the user has quit, the three processes come to an end.
SessionEnds ==
    app.shouldQuit ~> ~Alive /\ \A c \in Children : child[c] = "gone"

\* A transaction that the bot or the user makes is published, unless the session
\* or the node ends before.
TxsPublished ==
    LET Published == \A m \in Makers : Len(published[m]) = made[m]
    IN  ~Published ~> Published \/ app.shouldQuit \/ child["node"] = "gone"
=============================================================================
