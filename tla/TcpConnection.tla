----------------------------- MODULE TcpConnection -----------------------------
(***************************************************************************)
(* ham/net/TcpConnection.{h,cc} with the parts of Channel, Epoller and     *)
(* TcpServer it drives: one accepted connection from establishConnection   *)
(* to destoryConnection.                                                   *)
(*                                                                         *)
(* Actors: the connection's io loop (event handlers, then the functors     *)
(* swapped out by doPendingFunctors, as in EventLoop); user code that the  *)
(* loop calls back; other threads calling send, shutdown and forceClose;   *)
(* the server's base loop; the peer.  Handlers run on the loop's thread    *)
(* and are one step each: other threads only read state_ or store          *)
(* kDisconnecting in it, and every handler touches it at one point.  The   *)
(* calls of other threads are split at each access to state_.              *)
(*                                                                         *)
(* A message m is two bytes <<m, 1>>, <<m, 2>>.  A failed assertion or a   *)
(* CRITICAL log ends the process: `aborted' names it.  Some user keeps a   *)
(* TcpConnectionPtr, so the object outlives the functors bound to it.      *)
(***************************************************************************)
EXTENDS Integers, Sequences

CONSTANTS Threads,      \* threads other than the io loop's
          LoopCalls,    \* what user code on the loop's thread may call
          ThreadCalls,  \* what the other threads may call
          MaxCalls,     \* bound: calls made in a behaviour
          HighWaterMark,
          SameLoop,     \* the io loop is the server's base loop
          ServerDies    \* ~TcpServer may run while the connection exists

Calls == {"send", "shutdown", "forceClose"}

ASSUME ThreadsAssumption == {"loop", "nobody"} \cap Threads = {}
ASSUME CallsAssumption == LoopCalls \subseteq Calls /\ ThreadCalls \subseteq Calls
ASSUME BoundsAssumption == MaxCalls \in Nat /\ HighWaterMark \in Nat \ {0}
ASSUME ServerAssumption == SameLoop \in BOOLEAN /\ ServerDies \in BOOLEAN

VARIABLES state_, channel_, outputBuffer_,
          wire, finSent,         \* what the kernel was given: bytes, shutdownWrite
          peer,                  \* "open"; "fin": it closed; "err", "rst": it reset, with
                                 \* SO_ERROR still set or already read
          phase, todo,           \* where the io loop is; the channel's callbacks due
          pending, functors,     \* its queue and the batch it is running
          baseQueue, inMap,      \* the base loop's queue; the conn is in connections_
          caller,                \* what each other thread is doing
          calls,                 \* calls made so far; numbers them
          given,                 \* history: messages sendInLoop got and did not fail on
          ups, downs, closes,    \* history: callbacks made (connection up, down; close)
          aborted

loopVars == <<phase, todo, functors>>
serverVars == <<baseQueue, inMap>>
connVars == <<state_, channel_, outputBuffer_, wire, finSent>>
historyVars == <<given, ups, downs, closes>>
vars == <<connVars, peer, loopVars, pending, serverVars, caller, calls, historyVars, aborted>>

None == [from |-> "nobody", n |-> 0]
Idle == [at |-> "idle", call |-> "none", msg |-> None]
Functor(op, m) == [op |-> op, msg |-> m]
Message(m) == << <<m, 1>>, <<m, 2>> >>

NewChannel == [reading |-> FALSE, writing |-> FALSE, status |-> "kNew"]

\* The constructor, on a socket just accepted.
NewConnection ==
    /\ state_ = "kConnecting"
    /\ channel_ = NewChannel
    /\ outputBuffer_ = << >>
    /\ wire = << >> /\ finSent = FALSE

\* newConnectionCallback has made the connection; its runInLoop of establishConnection
\* is a call from the acceptor's handler on the base loop, and queued to another loop.
Init ==
    /\ NewConnection
    /\ peer = "open"
    /\ functors = << >>
    /\ IF SameLoop
       THEN phase = "channels" /\ todo = <<"accept">> /\ pending = << >>
       ELSE /\ phase = "poll" /\ todo = << >>
            /\ pending = <<Functor("establishConnection", None)>>
    /\ baseQueue = << >> /\ inMap = TRUE
    /\ caller = [t \in Threads |-> Idle]
    /\ calls = 0
    /\ given = {} /\ ups = 0 /\ downs = 0 /\ closes = 0
    /\ aborted = "no"

--------------------------------------------------------------------------------
(* Channel and Epoller.                                                    *)

isNoneEvent(c) == ~c.reading /\ ~c.writing

\* Epoller::updateChannel: a new or dismissed channel is added, whatever its
\* events; an added one with no event left is deleted from the epoll set.
updateChannel(c) ==
    [c EXCEPT !.status = IF c.status # "kAdded" THEN "kAdded"
                         ELSE IF isNoneEvent(c) THEN "kDismissed" ELSE "kAdded"]

enableReading(c) == updateChannel([c EXCEPT !.reading = TRUE])
enableWriting(c) == updateChannel([c EXCEPT !.writing = TRUE])

\* Seeded fault: the event mask keeps OUT.
disableWriting_Keeps(c) == updateChannel(c)

disableWriting(c) == updateChannel([c EXCEPT !.writing = FALSE])

\* Seeded fault: only reading is disabled.
disableAll_Reading(c) == updateChannel([c EXCEPT !.reading = FALSE])

disableAll(c) == updateChannel([c EXCEPT !.reading = FALSE, !.writing = FALSE])

\* Epoller::removeChannel on channel c, with its assertions.
removeChannel(c) ==
    /\ aborted' = IF ~isNoneEvent(c) THEN "isNoneEvent"
                  ELSE IF c.status = "kNew" THEN "channelMap" ELSE aborted
    /\ channel_' = [c EXCEPT !.status = "kNew"]

--------------------------------------------------------------------------------
(* The connection's handlers, as action fragments.                         *)

\* Seeded fault: the connection is erased and nothing else.
QueueDestory_Never(q) == q

\* removeConnectionInLoop's last statement, on the io loop's queue.
QueueDestory(q) == Append(q, Functor("destoryConnection", None))

\* closeCallback_ is TcpServer::removeConnection: runInLoop on the base loop,
\* which erases the connection and queues destoryConnection to the io loop.
removeConnection ==
    /\ closes' = closes + 1
    /\ IF SameLoop
       THEN /\ inMap' = FALSE
            /\ pending' = QueueDestory(pending)
            /\ UNCHANGED baseQueue
       ELSE /\ baseQueue' = Append(baseQueue, "removeConnectionInLoop")
            /\ UNCHANGED <<inMap, pending>>

\* Seeded fault: state_ is not stored.
handleClose_Keeps ==
    /\ channel_' = disableAll(channel_)
    /\ removeConnection
    /\ UNCHANGED <<state_, outputBuffer_, wire, finSent, given, ups, downs>>

handleClose ==
    /\ state_' = "kDisconnected"
    /\ channel_' = disableAll(channel_)
    /\ removeConnection
    /\ UNCHANGED <<outputBuffer_, wire, finSent, given, ups, downs>>

\* Seeded fault: bytes still waiting are not waited for.
shutdownInLoop_Now(c, s) == state_' = "kDisconnected" /\ finSent' = TRUE

\* shutdownInLoop, with channel c and state s: wait for what is being written, or
\* shut the socket down now.
shutdownInLoop(c, s) ==
    /\ state_' = IF c.writing THEN s ELSE "kDisconnected"
    /\ finSent' = (finSent \/ ~c.writing)

\* Seeded fault: a shutdown that was waiting is forgotten.
AfterDrain_Nothing(c) == UNCHANGED <<state_, finSent>>

\* The end of handleWrite, when all bytes are out.
AfterDrain(c) ==
    IF state_ = "kDisconnecting" THEN shutdownInLoop(c, state_) ELSE UNCHANGED <<state_, finSent>>

\* What write(2) does with len bytes: take some of them, none (EWOULDBLOCK), or fail
\* for good (EPIPE, ECONNRESET) once either side is gone.
Fault == -1
WriteResults(len) == IF finSent \/ peer \in {"err", "rst"} THEN {Fault} ELSE 0..len

Drop(s, n) == SubSeq(s, n + 1, Len(s))

\* Seeded fault: only the watch for OUT was looked at, and wrongly.
BytesWaiting_Never == FALSE

BytesWaiting == channel_.writing \/ outputBuffer_ # << >>

\* Both sendInLoops.  Bytes are written directly only when none are waiting; the
\* rest is buffered inside that same branch, so with bytes waiting nothing is done.
sendInLoop(m) ==
    /\ UNCHANGED <<state_, finSent, serverVars, ups, downs, closes>>
    /\ IF BytesWaiting
       THEN /\ given' = given \cup {m}
            /\ UNCHANGED <<channel_, outputBuffer_, wire, pending>>
       ELSE \E n \in WriteResults(2) :
            IF n = Fault
            THEN UNCHANGED <<channel_, outputBuffer_, wire, pending, given>>
            ELSE /\ given' = given \cup {m}
                 /\ wire' = wire \o SubSeq(Message(m), 1, n)
                 /\ outputBuffer_' = outputBuffer_ \o Drop(Message(m), n)
                 /\ channel_' = IF n < 2 THEN enableWriting(channel_) ELSE channel_
                 /\ pending' = IF n = 2
                                 THEN Append(pending, Functor("writeCompleteCallback", None))
                               ELSE IF 2 - n >= HighWaterMark
                                 THEN Append(pending, Functor("highWaterMarkCallback", None))
                               ELSE pending

--------------------------------------------------------------------------------
(* The io loop: poll, channel callbacks, functors.                         *)

Running == aborted = "no"
OnLoop(ph) == Running /\ phase = ph
Registered == channel_.status = "kAdded"

\* Epoller::wait and fillActiveChannels.  The kernel reports what is asked for
\* (IN is level triggered, so always at end of file), and unasked ERR and, once both
\* directions are closed, HUP.  handleEventWithGuard then calls closeCb_ on a HUP
\* without IN, errorCb_ on ERR, readCb_ on IN, writeCb_ on OUT, in that order.
\* "read" will find data, "eof" the end of file.
Poll(data, out) ==
    /\ OnLoop("poll")
    /\ data => Registered /\ channel_.reading /\ peer = "open"
    /\ out => Registered /\ channel_.writing
    /\ LET eof == Registered /\ channel_.reading /\ peer # "open"
           err == Registered /\ peer = "err"
           hup == Registered /\ (peer \in {"err", "rst"} \/ (peer = "fin" /\ finSent))
           If(cond, cb) == IF cond THEN <<cb>> ELSE << >>
       IN todo' = If(hup /\ ~eof, "close") \o If(err, "error")
                    \o If(data, "read") \o If(eof, "eof") \o If(out, "write")
    /\ phase' = "channels"
    /\ UNCHANGED <<connVars, peer, functors, pending, serverVars, caller, calls, historyVars,
                   aborted>>

NextCallback(cb) ==
    /\ OnLoop("channels")
    /\ todo # << >> /\ Head(todo) = cb
    /\ todo' = Tail(todo)
    /\ UNCHANGED <<phase, functors, caller, calls, aborted>>

CloseEvent == NextCallback("close") /\ handleClose /\ UNCHANGED peer

\* handleError reads SO_ERROR and logs it.
ErrorEvent ==
    /\ NextCallback("error")
    /\ peer' = "rst"
    /\ UNCHANGED <<connVars, pending, serverVars, historyVars>>

\* handleRead: an error goes to handleError, end of file to handleClose, data to
\* messageCallback_, user code: the User* actions are enabled in this phase.
ReadEvent ==
    \E cb \in {"read", "eof"} :
        /\ NextCallback(cb)
        /\ IF cb = "eof" /\ peer # "err"
           THEN handleClose /\ UNCHANGED peer
           ELSE /\ peer' = IF peer = "err" THEN "rst" ELSE peer
                /\ UNCHANGED <<connVars, pending, serverVars, historyVars>>

\* handleWrite: write what is waiting; when all is out, stop watching for OUT,
\* queue writeCompleteCallback_ and finish a shutdown that was waiting for it.
WriteEvent ==
    /\ NextCallback("write")
    /\ UNCHANGED <<peer, serverVars, historyVars>>
    /\ \/ /\ ~channel_.writing \/ \E n \in WriteResults(Len(outputBuffer_)) : n <= 0
          /\ UNCHANGED <<connVars, pending>>
       \/ /\ channel_.writing
          /\ \E n \in WriteResults(Len(outputBuffer_)) \ {Fault, 0} :
               /\ wire' = wire \o SubSeq(outputBuffer_, 1, n)
               /\ outputBuffer_' = Drop(outputBuffer_, n)
          /\ IF outputBuffer_' # << >>
             THEN UNCHANGED <<state_, channel_, finSent, pending>>
             ELSE /\ channel_' = disableWriting(channel_)
                  /\ pending' = Append(pending, Functor("writeCompleteCallback", None))
                  /\ AfterDrain(channel_')

SwapFunctors ==
    /\ OnLoop("channels") /\ todo = << >>
    /\ phase' = "functors"
    /\ functors' = pending
    /\ pending' = << >>
    /\ UNCHANGED <<connVars, peer, todo, serverVars, caller, calls, historyVars, aborted>>

NextFunctor(op) ==
    /\ OnLoop("functors")
    /\ functors # << >> /\ Head(functors).op = op
    /\ functors' = Tail(functors)
    /\ UNCHANGED <<peer, todo, caller, calls>>

\* Also calls connectionCallback_: user code follows.
establishConnection ==
    /\ state_' = "kConnected"
    /\ channel_' = enableReading(channel_)
    /\ ups' = ups + 1
    /\ UNCHANGED <<outputBuffer_, wire, finSent, pending, serverVars, given, downs, closes>>

EstablishConnection ==
    /\ \/ NextCallback("accept") /\ UNCHANGED peer
       \/ NextFunctor("establishConnection") /\ phase' = "callback" /\ UNCHANGED aborted
    /\ establishConnection

\* connectionCallback_ is called while state_ is kDisconnected, so every call it
\* makes on the connection returns at once.
destoryConnection ==
    /\ state_' = IF state_ = "kConnected" THEN "kDisconnected" ELSE state_
    /\ downs' = IF state_ = "kConnected" THEN downs + 1 ELSE downs
    /\ removeChannel(IF state_ = "kConnected" THEN disableAll(channel_) ELSE channel_)
    /\ UNCHANGED <<outputBuffer_, wire, finSent, given, ups, closes>>

DestoryConnection ==
    /\ NextFunctor("destoryConnection")
    /\ destoryConnection
    /\ UNCHANGED <<phase, pending, serverVars>>

SendInLoop ==
    /\ NextFunctor("sendInLoop")
    /\ sendInLoop(Head(functors).msg)
    /\ UNCHANGED <<phase, aborted>>

ShutdownInLoop ==
    /\ NextFunctor("shutdownInLoop")
    /\ shutdownInLoop(channel_, state_)
    /\ UNCHANGED <<channel_, outputBuffer_, wire, phase, pending, serverVars, historyVars,
                   aborted>>

ForceCloseInLoop ==
    /\ NextFunctor("forceCloseInLoop")
    /\ IF state_ \in {"kConnected", "kDisconnecting"} THEN handleClose
       ELSE UNCHANGED <<connVars, pending, serverVars, historyVars>>
    /\ UNCHANGED <<phase, aborted>>

\* writeCompleteCallback_ and highWaterMarkCallback_ are user code.
UserFunctor ==
    /\ \E op \in {"writeCompleteCallback", "highWaterMarkCallback"} : NextFunctor(op)
    /\ phase' = "callback"
    /\ UNCHANGED <<connVars, pending, serverVars, historyVars, aborted>>

EndFunctors ==
    /\ OnLoop("functors") /\ functors = << >>
    /\ phase' = "poll"
    /\ UNCHANGED <<connVars, peer, todo, functors, pending, serverVars, caller, calls,
                   historyVars, aborted>>

--------------------------------------------------------------------------------
(* User code on the loop's thread: messageCallback_, the handlers of other *)
(* channels, and functors.  Its calls are made in place.                   *)

UserCalls(call) ==
    /\ (OnLoop("channels") /\ ups > 0) \/ OnLoop("callback")
    /\ call \in LoopCalls /\ calls < MaxCalls
    /\ calls' = calls + 1
    /\ UNCHANGED <<peer, loopVars, caller, aborted>>

UserSend ==
    /\ UserCalls("send")
    /\ state_ = "kConnected"
    /\ sendInLoop([from |-> "loop", n |-> calls'])

UserShutdown ==
    /\ UserCalls("shutdown")
    /\ state_ = "kConnected"
    /\ shutdownInLoop(channel_, "kDisconnecting")
    /\ UNCHANGED <<channel_, outputBuffer_, wire, pending, serverVars, historyVars>>

UserForceClose ==
    /\ UserCalls("forceClose")
    /\ state_ \in {"kConnected", "kDisconnecting"}
    /\ state_' = "kDisconnecting"
    /\ pending' = Append(pending, Functor("forceCloseInLoop", None))
    /\ UNCHANGED <<channel_, outputBuffer_, wire, finSent, serverVars, historyVars>>

UserReturns ==
    /\ OnLoop("callback")
    /\ phase' = "functors"
    /\ UNCHANGED <<connVars, peer, todo, functors, pending, serverVars, caller, calls,
                   historyVars, aborted>>

--------------------------------------------------------------------------------
(* Other threads: check state_; store kDisconnecting (not for send); queue.  *)

Step(t, from, to) ==
    /\ Running
    /\ caller[t].at = from
    /\ caller' = [caller EXCEPT ![t] = to]
    /\ UNCHANGED <<channel_, outputBuffer_, wire, finSent, peer, loopVars, serverVars,
                   historyVars, aborted>>

CheckState(t, call) ==
    /\ calls < MaxCalls /\ ups > 0
    /\ state_ = "kConnected" \/ (call = "forceClose" /\ state_ = "kDisconnecting")
    /\ calls' = calls + 1
    /\ Step(t, "idle", [at |-> IF call = "send" THEN "queue" ELSE "store",
                        call |-> call, msg |-> [from |-> t, n |-> calls']])
    /\ UNCHANGED <<state_, pending>>

StoreState(t) ==
    /\ Step(t, "store", [caller[t] EXCEPT !.at = "queue"])
    /\ state_' = "kDisconnecting"
    /\ UNCHANGED <<pending, calls>>

InLoop(call) == CASE call = "send" -> "sendInLoop"
                  [] call = "shutdown" -> "shutdownInLoop"
                  [] call = "forceClose" -> "forceCloseInLoop"

QueueInLoop(t) ==
    /\ Step(t, "queue", Idle)
    /\ pending' = Append(pending, Functor(InLoop(caller[t].call), caller[t].msg))
    /\ UNCHANGED <<state_, calls>>

--------------------------------------------------------------------------------
(* The base loop, the server and the peer.                                 *)

RemoveConnectionInLoop ==
    /\ Running /\ baseQueue # << >>
    /\ baseQueue' = Tail(baseQueue)
    /\ inMap' = FALSE
    /\ pending' = QueueDestory(pending)
    /\ UNCHANGED <<connVars, peer, loopVars, caller, calls, historyVars, aborted>>

\* assertInLoopThread on a thread that is not the loop's.
abortNotInLoopThread == aborted' = "notInLoopThread"

\* The base loop has left loop(); ~TcpServer runs on its thread and calls
\* destoryConnection on each connection still in connections_.
ServerDestructs ==
    /\ Running /\ ServerDies /\ ups > 0
    /\ SameLoop => OnLoop("poll")
    /\ inMap /\ inMap' = FALSE
    /\ IF SameLoop
       THEN phase' = "stopped" /\ destoryConnection
       ELSE abortNotInLoopThread /\ UNCHANGED <<phase, connVars, historyVars>>
    /\ UNCHANGED <<peer, todo, functors, pending, baseQueue, caller, calls>>

PeerCloses(how) ==
    /\ Running
    /\ peer = "open" \/ (peer = "fin" /\ how = "err")
    /\ peer' = how
    /\ UNCHANGED <<connVars, loopVars, pending, serverVars, caller, calls, historyVars, aborted>>

--------------------------------------------------------------------------------
LoopStep ==
    \/ \E data, out \in BOOLEAN : Poll(data, out)
    \/ CloseEvent \/ ErrorEvent \/ ReadEvent \/ WriteEvent
    \/ SwapFunctors \/ EstablishConnection \/ DestoryConnection \/ SendInLoop
    \/ ShutdownInLoop \/ ForceCloseInLoop \/ UserFunctor \/ EndFunctors
    \/ UserReturns

Next ==
    \/ LoopStep
    \/ UserSend \/ UserShutdown \/ UserForceClose
    \/ \E t \in Threads : \/ \E call \in ThreadCalls : CheckState(t, call)
                          \/ StoreState(t) \/ QueueInLoop(t)
    \/ RemoveConnectionInLoop \/ ServerDestructs
    \/ \E how \in {"fin", "err"} : PeerCloses(how)

\* Threads finish the calls they begin; the loops keep running; a peer that stays
\* makes room, so a watched socket becomes writable and takes bytes again and again.
Fairness ==
    /\ WF_vars(LoopStep)
    /\ \A t \in Threads : WF_vars(StoreState(t) \/ QueueInLoop(t))
    /\ WF_vars(RemoveConnectionInLoop)
    /\ SF_vars(\E data \in BOOLEAN : Poll(data, TRUE))
    /\ SF_vars(WriteEvent /\ wire' # wire)

Spec == Init /\ [][Next]_vars /\ Fairness

--------------------------------------------------------------------------------
(* Properties.                                                             *)

\* The functors a connection's loop is given.
Ops == {"establishConnection", "destoryConnection", "sendInLoop", "shutdownInLoop",
        "forceCloseInLoop", "writeCompleteCallback", "highWaterMarkCallback"}

\* What the peer has been or will be sent.
Stream == wire \o outputBuffer_

\* The byte stream is a sequence of whole messages, and those of one sender appear
\* in the order it sent them, however direct writes (TcpConnection.cc:208), partial
\* writes, buffered rests and functors queued by other threads interleave.
MessagesIntact ==
    /\ \A i \in 1..Len(Stream) :
         /\ Stream[i][2] = (IF i % 2 = 1 THEN 1 ELSE 2)
         /\ i % 2 = 0 => Stream[i - 1][1] = Stream[i][1]
    /\ \A i, j \in 1..Len(Stream) :
         i < j /\ Stream[i][1].from = Stream[j][1].from => Stream[i][1].n <= Stream[j][1].n

\* The channel watches for writability exactly while bytes wait: never without
\* (the busy loop of the comment at TcpConnection.cc:155, and the claim at 205),
\* and always with, or the bytes would stay, until the connection is closed.
WatchesWrites ==
    /\ outputBuffer_ = << >> /\ closes = 0 => ~channel_.writing
    /\ outputBuffer_ # << >> /\ closes = 0 /\ downs = 0 => channel_.writing

\* shutdown() lets what was accepted out first: FIN is sent with bytes still
\* waiting only on a connection already closed (TcpConnection.cc:162, 261).
FlushedBeforeFin == [][finSent' /\ ~finSent /\ closes = 0 => outputBuffer_' = << >>]_vars

\* No handler runs off its thread and no assertion of Epoller::removeChannel fails, but
\* for four reasons: ~TcpServer destroys a connection of another loop (TcpServer.cc:33);
\* it destroys one that was shut down and is still read from, whose channel
\* destoryConnection leaves as it is (TcpConnection.cc:52); another thread's forceClose
\* or shutdown stored kDisconnecting over the kDisconnected of a close, which then happens
\* twice (TcpConnection.cc:66, 114, 271, Epoller.cc:99); another thread's send was queued before the
\* close and run after it, and watches for OUT again (TcpConnection.cc:82, 252).
AbortsExplained ==
    \/ aborted = "no"
    \/ aborted = "notInLoopThread" /\ ~SameLoop
    \/ aborted = "isNoneEvent" /\ phase = "stopped" /\ downs = 0
    \/ aborted = "channelMap" /\ Threads # {} /\ closes > 1
    \/ /\ aborted = "isNoneEvent" /\ closes > 0 /\ ~channel_.reading
       /\ outputBuffer_ # << >> /\ outputBuffer_[1][1].from \in Threads

\* The user is told that the connection is down exactly when ~TcpServer takes it down, and
\* then once: after any close, state_ is no longer kConnected when destoryConnection runs,
\* whatever other threads store (TcpConnection.cc:52, 181).  What ~TcpServer takes down, on
\* its own loop, has never been closed, and its channel is left quiet and out of the
\* epoller; or it had been shut down, and the assertion ends the process with the channel
\* still reading and the user not told (TcpServer.cc:29-35, Epoller.cc:98).
ServerDestroysOpen ==
    /\ downs = IF phase = "stopped" /\ aborted = "no" THEN 1 ELSE 0
    /\ phase = "stopped" =>
         /\ closes = 0
         /\ IF aborted = "no" THEN isNoneEvent(channel_) /\ channel_.status = "kNew"
            ELSE aborted = "isNoneEvent" /\ channel_.reading /\ state_ # "kConnected"

\* A connection whose peer is gone is closed, erased from connections_ and its
\* channel removed from the epoller.
GoneIsDestroyed == (peer # "open" /\ ups > 0) ~> (channel_.status = "kNew" /\ ~inMap)

\* A shutdown waiting for bytes to drain ends in FIN, in the close of the connection or
\* with the server.  No more is promised to a forceClose: bytes that drain before its functor
\* runs make it a shutdown (TcpConnection.cc:162, 271).
ShutdownCompletes == (state_ = "kDisconnecting") ~> (finSent \/ closes > 0 \/ phase = "stopped")

--------------------------------------------------------------------------------
(* What the code's comments and assertions say and the code does not do.   *)

\* A message sendInLoop was given and did not fail on is sent or waits to be sent
\* (the comment at TcpConnection.cc:235).
NothingDropped == \A m \in given : \E i \in 1..Len(Stream) : Stream[i][1] = m
================================================================================
