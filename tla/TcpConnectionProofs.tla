-------------------------- MODULE TcpConnectionProofs --------------------------
(***************************************************************************)
(* When a connection watches for writability and when it sends FIN, and    *)
(* that its byte stream is the messages sent, for any threads, any calls   *)
(* and any high-water mark.                                                *)
(***************************************************************************)
EXTENDS TcpConnection, SequenceTheorems, TLAPS

USE CallsAssumption, BoundsAssumption, ServerAssumption

AnyMessage == [from : Threads \cup {"loop", "nobody"}, n : Nat]
AnyFunctor == [op : Ops, msg : AnyMessage]
Channels == [reading : BOOLEAN, writing : BOOLEAN, status : {"kNew", "kAdded", "kDismissed"}]

\* No destoryConnection waits in q.
NoDestroy(q) == \A i \in 1..Len(q) : q[i].op # "destoryConnection"

\* A connection is not destroyed before it is closed, but by ~TcpServer.
ClosedFirst ==
    /\ closes \in Nat /\ downs \in Nat /\ calls \in Nat
    /\ pending \in Seq(AnyFunctor) /\ functors \in Seq(AnyFunctor)
    /\ caller \in [Threads -> [at : {"idle", "store", "queue"}, call : Calls \cup {"none"},
                               msg : AnyMessage]]
    /\ \A t \in Threads : caller[t].at # "idle" => caller[t].call \in Calls
    /\ closes = 0 => NoDestroy(pending) /\ NoDestroy(functors) /\ baseQueue = << >>
    /\ downs # 0 => closes # 0 \/ phase = "stopped"

--------------------------------------------------------------------------------
(* Queues.                                                                 *)

\* A functor appended.
LEMMA AppendKeeps ==
  ASSUME NEW q \in Seq(AnyFunctor), NEW f \in AnyFunctor
  PROVE  /\ Append(q, f) \in Seq(AnyFunctor)
         /\ NoDestroy(q) /\ f.op # "destoryConnection" => NoDestroy(Append(q, f))
<1>1. /\ Append(q, f) \in Seq(AnyFunctor) /\ Len(q) \in Nat /\ Len(Append(q, f)) = Len(q) + 1
      /\ Append(q, f)[Len(q) + 1] = f /\ \A i \in 1..Len(q) : Append(q, f)[i] = q[i]
  BY AppendProperties, LenProperties
<1>2. QED
  BY <1>1 DEF NoDestroy

\* The first functor taken.
LEMMA TailKeeps ==
  ASSUME NEW q \in Seq(AnyFunctor), q # << >>
  PROVE  /\ Tail(q) \in Seq(AnyFunctor) /\ Head(q) \in AnyFunctor
         /\ NoDestroy(q) => NoDestroy(Tail(q)) /\ Head(q).op # "destoryConnection"
<1>1. /\ Tail(q) \in Seq(AnyFunctor) /\ Len(Tail(q)) = Len(q) - 1 /\ Len(q) \in Nat \ {0}
      /\ \A i \in 1..(Len(q) - 1) : Tail(q)[i] = q[i + 1]
      /\ Head(q) = q[1] /\ Head(q) \in AnyFunctor
  BY HeadTailProperties, LenProperties, EmptySeq
<1>2. QED
  BY <1>1 DEF NoDestroy

\* The functors the loop and the callers make.
LEMMA FunctorsMade ==
  ASSUME NEW op \in Ops, NEW m \in AnyMessage
  PROVE  Functor(op, m) \in AnyFunctor /\ Functor(op, m).op = op /\ None \in AnyMessage
  BY DEF Functor, AnyFunctor, AnyMessage, None

--------------------------------------------------------------------------------
(* ClosedFirst.                                                            *)

\* What a step may do to the loop's queue: nothing, or append; a destoryConnection only
\* when the connection has been closed.
Appends ==
    \/ pending' = pending
    \/ \E f \in AnyFunctor : /\ pending' = Append(pending, f)
                             /\ f.op = "destoryConnection" => closes' # 0

\* What it may do to the batch: nothing, or take the first.
Takes == functors' = functors \/ (functors # << >> /\ functors' = Tail(functors))

\* A step that moves no caller, and appends and takes.
LEMMA QueueKeeps ==
  ASSUME ClosedFirst, Appends, Takes, closes' \in {closes, closes + 1}, UNCHANGED caller,
         calls' \in {calls, calls + 1}, downs' \in {downs, downs + 1},
         closes' = 0 => baseQueue' = baseQueue,
         downs' # 0 => closes' # 0 \/ phase' = "stopped"
  PROVE  ClosedFirst'
<1>1. closes' \in Nat /\ calls' \in Nat /\ downs' \in Nat /\ (closes' = 0 => closes = 0)
  BY DEF ClosedFirst
<1>2. pending' \in Seq(AnyFunctor) /\ (closes' = 0 => NoDestroy(pending'))
  <2>1. CASE pending' = pending
    BY <1>1, <2>1 DEF ClosedFirst
  <2>2. ASSUME NEW f \in AnyFunctor, pending' = Append(pending, f),
               f.op = "destoryConnection" => closes' # 0
        PROVE  pending' \in Seq(AnyFunctor) /\ (closes' = 0 => NoDestroy(pending'))
    <3>1. pending \in Seq(AnyFunctor)
      BY DEF ClosedFirst
    <3>2. QED
      BY <1>1, <2>2, <3>1, AppendKeeps DEF ClosedFirst
  <2>3. QED
    BY <2>1, <2>2 DEF Appends
<1>3. functors' \in Seq(AnyFunctor) /\ (closes' = 0 => NoDestroy(functors'))
  <2>1. functors \in Seq(AnyFunctor)
    BY DEF ClosedFirst
  <2>2. QED
    BY <1>1, <2>1, TailKeeps, Zenon DEF ClosedFirst, Takes
<1>4. QED
  BY <1>1, <1>2, <1>3 DEF ClosedFirst

\* handleClose counts the close before anything is queued.
LEMMA CloseAppends ==
  ASSUME ClosedFirst, handleClose
  PROVE  Appends /\ closes' = closes + 1 /\ closes' # 0 /\ downs' = downs
<1>1. closes' = closes + 1 /\ closes' # 0 /\ downs' = downs
  BY DEF handleClose, removeConnection, ClosedFirst
<1>2. CASE SameLoop
  <2>1. pending' = Append(pending, Functor("destoryConnection", None))
    BY <1>2 DEF handleClose, removeConnection, QueueDestory
  <2>2. Functor("destoryConnection", None) \in AnyFunctor
    BY DEF Functor, AnyFunctor, AnyMessage, None, Ops
  <2>3. QED
    BY <1>1, <2>1, <2>2 DEF Appends
<1>3. CASE ~SameLoop
  BY <1>1, <1>3 DEF handleClose, removeConnection, Appends
<1>4. QED
  BY <1>2, <1>3

\* sendInLoop queues user callbacks only.
LEMMA SendAppends ==
  ASSUME NEW m, sendInLoop(m)
  PROVE  Appends
<1>1. \A op \in {"writeCompleteCallback", "highWaterMarkCallback"} :
        Functor(op, None) \in AnyFunctor /\ Functor(op, None).op # "destoryConnection"
  BY DEF Functor, AnyFunctor, AnyMessage, None, Ops
<1>2. \/ pending' = pending
      \/ pending' = Append(pending, Functor("writeCompleteCallback", None))
      \/ pending' = Append(pending, Functor("highWaterMarkCallback", None))
  BY DEF sendInLoop
<1>3. QED
  BY <1>1, <1>2 DEF Appends

\* Every step keeps ClosedFirst.
LEMMA ClosedFirstInductive == ClosedFirst /\ [Next]_vars => ClosedFirst'
<1> SUFFICES ASSUME ClosedFirst, [Next]_vars PROVE ClosedFirst'
  OBVIOUS
<1> USE DEF loopVars, serverVars, connVars, historyVars
<1>1. ASSUME UNCHANGED <<pending, functors, baseQueue, caller, closes, downs>>,
             calls' \in {calls, calls + 1}, phase # "stopped" \/ phase' = phase
      PROVE  ClosedFirst'
  BY <1>1, QueueKeeps DEF Appends, Takes, ClosedFirst
<1>2. ASSUME NEW data, NEW out, Poll(data, out) PROVE ClosedFirst'
  BY <1>1, <1>2 DEF Poll, OnLoop
<1>3. CASE CloseEvent
  BY <1>3, CloseAppends, QueueKeeps DEF CloseEvent, NextCallback, Takes
<1>4. CASE ErrorEvent
  BY <1>1, <1>4 DEF ErrorEvent, NextCallback
<1>5. CASE ReadEvent
  <2>1. PICK cb \in {"read", "eof"} : NextCallback(cb) /\ (handleClose \/ UNCHANGED <<connVars, pending, serverVars, historyVars>>)
    BY <1>5 DEF ReadEvent
  <2>2. UNCHANGED <<phase, functors, caller, calls, aborted>>
    BY <2>1 DEF NextCallback
  <2>3. CASE handleClose
    BY <2>2, <2>3, CloseAppends, QueueKeeps DEF Takes
  <2>4. CASE UNCHANGED <<connVars, pending, serverVars, historyVars>>
    BY <1>1, <2>2, <2>4
  <2>5. QED
    BY <2>1, <2>3, <2>4
<1>6. CASE WriteEvent
  <2>1. /\ UNCHANGED <<phase, functors, caller, calls, baseQueue, closes, downs>>
        /\ pending' \in {pending, Append(pending, Functor("writeCompleteCallback", None))}
    BY <1>6 DEF WriteEvent, NextCallback
  <2>2. Functor("writeCompleteCallback", None) \in AnyFunctor
        /\ Functor("writeCompleteCallback", None).op # "destoryConnection"
    BY DEF Functor, AnyFunctor, AnyMessage, None, Ops
  <2>3. Appends
    BY <2>1, <2>2 DEF Appends
  <2>4. QED
    BY <2>1, <2>3, QueueKeeps DEF Takes, ClosedFirst
<1>7. CASE SwapFunctors
  <2>1. /\ functors' = pending /\ pending' = << >> /\ phase # "stopped"
        /\ UNCHANGED <<baseQueue, caller, calls, closes, downs>>
    BY <1>7 DEF SwapFunctors, OnLoop
  <2>2. << >> \in Seq(AnyFunctor) /\ NoDestroy(<< >>)
    BY DEF NoDestroy
  <2>3. QED
    BY <2>1, <2>2 DEF ClosedFirst
<1>8. CASE EstablishConnection
  <2>1. /\ UNCHANGED <<pending, baseQueue, caller, calls, closes, downs>> /\ phase # "stopped"
        /\ Takes
    BY <1>8 DEF EstablishConnection, establishConnection, NextCallback, NextFunctor, OnLoop, Takes
  <2>2. QED
    BY <2>1, QueueKeeps DEF Appends, ClosedFirst
<1>9. CASE DestoryConnection
  <2>1. /\ functors # << >> /\ Head(functors).op = "destoryConnection" /\ functors' = Tail(functors)
        /\ UNCHANGED <<phase, pending, baseQueue, caller, calls, closes>>
        /\ downs' \in {downs, downs + 1}
    BY <1>9 DEF DestoryConnection, NextFunctor, destoryConnection
  <2>2. closes # 0
    BY <2>1, TailKeeps DEF ClosedFirst
  <2>3. QED
    BY <2>1, <2>2, QueueKeeps DEF Appends, Takes
<1>10. CASE SendInLoop
  <2>1. Appends
    BY <1>10, SendAppends DEF SendInLoop
  <2>2. Takes /\ UNCHANGED <<phase, baseQueue, caller, calls, closes, downs>>
    BY <1>10 DEF SendInLoop, sendInLoop, NextFunctor, Takes
  <2>3. QED
    BY <2>1, <2>2, QueueKeeps DEF ClosedFirst
<1>11. CASE ShutdownInLoop
  <2>1. Takes /\ UNCHANGED <<phase, pending, baseQueue, caller, calls, closes, downs>>
    BY <1>11 DEF ShutdownInLoop, NextFunctor, Takes
  <2>2. QED
    BY <2>1, QueueKeeps DEF Appends, ClosedFirst
<1>12. CASE ForceCloseInLoop
  <2>1. Takes /\ UNCHANGED <<phase, caller, calls>>
        /\ (handleClose \/ UNCHANGED <<pending, baseQueue, closes, downs>>)
    BY <1>12 DEF ForceCloseInLoop, NextFunctor, Takes
  <2>2. CASE handleClose
    BY <2>1, <2>2, CloseAppends, QueueKeeps
  <2>3. CASE UNCHANGED <<pending, baseQueue, closes, downs>>
    BY <2>1, <2>3, QueueKeeps DEF Appends, ClosedFirst
  <2>4. QED
    BY <2>1, <2>2, <2>3
<1>13. CASE UserFunctor
  <2>1. /\ Takes /\ phase # "stopped"
        /\ UNCHANGED <<pending, baseQueue, caller, calls, closes, downs>>
    BY <1>13 DEF UserFunctor, NextFunctor, OnLoop, Takes
  <2>2. QED
    BY <2>1, QueueKeeps DEF Appends, ClosedFirst
<1>14. CASE EndFunctors \/ UserReturns
  BY <1>1, <1>14 DEF EndFunctors, UserReturns, OnLoop
<1>15. CASE UserSend
  <2>1. Appends
    BY <1>15, SendAppends DEF UserSend
  <2>2. /\ UNCHANGED <<phase, functors, baseQueue, caller, closes, downs>> /\ calls' = calls + 1
    BY <1>15 DEF UserSend, UserCalls, sendInLoop
  <2>3. QED
    BY <2>1, <2>2, QueueKeeps DEF ClosedFirst, Takes
<1>16. CASE UserShutdown
  BY <1>1, <1>16 DEF UserShutdown, UserCalls
<1>17. CASE UserForceClose
  <2>1. /\ UNCHANGED <<phase, functors, baseQueue, caller, closes, downs>> /\ calls' = calls + 1
        /\ pending' = Append(pending, Functor("forceCloseInLoop", None))
    BY <1>17 DEF UserForceClose, UserCalls
  <2>2. Functor("forceCloseInLoop", None) \in AnyFunctor
        /\ Functor("forceCloseInLoop", None).op # "destoryConnection"
    BY DEF Functor, AnyFunctor, AnyMessage, None, Ops
  <2>3. Appends
    BY <2>1, <2>2 DEF Appends
  <2>4. QED
    BY <2>1, <2>3, QueueKeeps DEF ClosedFirst, Takes
<1>18. ASSUME NEW t \in Threads, NEW call \in ThreadCalls, CheckState(t, call) PROVE ClosedFirst'
  <2>1. /\ UNCHANGED <<phase, functors, pending, baseQueue, closes, downs>> /\ calls' = calls + 1
        /\ caller' = [caller EXCEPT ![t] = [at |-> IF call = "send" THEN "queue" ELSE "store",
                                            call |-> call, msg |-> [from |-> t, n |-> calls']]]
    BY <1>18 DEF CheckState, Step
  <2>2. call \in Calls /\ [from |-> t, n |-> calls'] \in AnyMessage /\ calls' \in Nat
    BY <2>1 DEF ClosedFirst, AnyMessage
  <2>3. QED
    BY <2>1, <2>2 DEF ClosedFirst
<1>19. ASSUME NEW t \in Threads, StoreState(t) PROVE ClosedFirst'
  <2>1. /\ UNCHANGED <<phase, functors, pending, baseQueue, closes, downs, calls>>
        /\ caller[t].at = "store" /\ caller' = [caller EXCEPT ![t] = [caller[t] EXCEPT !.at = "queue"]]
    BY <1>19 DEF StoreState, Step
  <2>2. QED
    BY <2>1, Zenon DEF ClosedFirst
<1>20. ASSUME NEW t \in Threads, QueueInLoop(t) PROVE ClosedFirst'
  <2> DEFINE f == Functor(InLoop(caller[t].call), caller[t].msg)
  <2>1. /\ UNCHANGED <<phase, functors, baseQueue, closes, downs, calls>>
        /\ caller[t].at = "queue" /\ caller' = [caller EXCEPT ![t] = Idle]
        /\ pending' = Append(pending, f)
    BY <1>20 DEF QueueInLoop, Step
  <2>2. caller[t].call \in Calls /\ caller[t].msg \in AnyMessage
    BY <2>1 DEF ClosedFirst
  <2>3. InLoop(caller[t].call) \in Ops /\ InLoop(caller[t].call) # "destoryConnection"
    BY <2>2 DEF InLoop, Calls, Ops
  <2>4. f \in AnyFunctor /\ f.op # "destoryConnection"
    BY <2>2, <2>3, FunctorsMade
  <2>5. pending \in Seq(AnyFunctor)
    BY DEF ClosedFirst
  <2> HIDE DEF f
  <2>6. pending' \in Seq(AnyFunctor) /\ (NoDestroy(pending) => NoDestroy(pending'))
    BY <2>1, <2>4, <2>5, AppendKeeps
  <2>7. Idle \in [at : {"idle", "store", "queue"}, call : Calls \cup {"none"}, msg : AnyMessage]
        /\ Idle.at = "idle"
    BY DEF Idle, None, AnyMessage
  <2>8. /\ caller' \in [Threads -> [at : {"idle", "store", "queue"}, call : Calls \cup {"none"},
                                    msg : AnyMessage]]
        /\ \A s \in Threads : caller'[s].at # "idle" => caller'[s].call \in Calls
    BY <2>1, <2>7 DEF ClosedFirst
  <2>9. QED
    BY <2>1, <2>6, <2>8 DEF ClosedFirst
<1>21. CASE RemoveConnectionInLoop
  <2>1. /\ baseQueue # << >> /\ pending' = Append(pending, Functor("destoryConnection", None))
        /\ UNCHANGED <<phase, functors, caller, calls, closes, downs>>
    BY <1>21 DEF RemoveConnectionInLoop, QueueDestory
  <2>2. closes # 0
    BY <2>1 DEF ClosedFirst
  <2>3. Functor("destoryConnection", None) \in AnyFunctor
    BY DEF Functor, AnyFunctor, AnyMessage, None, Ops
  <2>4. Appends
    BY <2>1, <2>2, <2>3 DEF Appends
  <2>5. QED
    BY <2>1, <2>2, <2>4, QueueKeeps DEF Takes
<1>22. CASE ServerDestructs
  <2>1. UNCHANGED <<functors, pending, baseQueue, caller, calls>>
    BY <1>22 DEF ServerDestructs
  <2>2. CASE SameLoop
    <3>1. phase' = "stopped" /\ closes' = closes /\ downs' \in {downs, downs + 1}
      BY <1>22, <2>2 DEF ServerDestructs, destoryConnection
    <3>2. QED
      BY <2>1, <3>1, QueueKeeps DEF Appends, Takes
  <2>3. CASE ~SameLoop
    BY <1>1, <1>22, <2>1, <2>3 DEF ServerDestructs
  <2>4. QED
    BY <2>2, <2>3
<1>23. ASSUME NEW how, PeerCloses(how) PROVE ClosedFirst'
  BY <1>1, <1>23 DEF PeerCloses
<1>24. CASE UNCHANGED vars
  BY <1>1, <1>24 DEF vars
<1>25. QED
  BY <1>2, <1>3, <1>4, <1>5, <1>6, <1>7, <1>8, <1>9, <1>10, <1>11, <1>12, <1>13, <1>14, <1>15,
     <1>16, <1>17, <1>18, <1>19, <1>20, <1>21, <1>22, <1>23, <1>24 DEF Next, LoopStep

--------------------------------------------------------------------------------
(* WatchesWrites.                                                          *)

\* What the channel's operations do to its events.
LEMMA ChannelOps ==
  ASSUME NEW c \in Channels
  PROVE  /\ enableReading(c) \in Channels /\ enableReading(c).writing = c.writing
         /\ enableWriting(c) \in Channels /\ enableWriting(c).writing = TRUE
         /\ disableWriting(c) \in Channels /\ disableWriting(c).writing = FALSE
         /\ disableAll(c) \in Channels /\ disableAll(c).writing = FALSE
<1>1. ASSUME NEW d \in Channels PROVE updateChannel(d) \in Channels /\ updateChannel(d).writing = d.writing
  BY DEF updateChannel, Channels
<1>2. /\ [c EXCEPT !.reading = TRUE] \in Channels /\ [c EXCEPT !.reading = TRUE].writing = c.writing
      /\ [c EXCEPT !.writing = TRUE] \in Channels /\ [c EXCEPT !.writing = TRUE].writing = TRUE
      /\ [c EXCEPT !.writing = FALSE] \in Channels /\ [c EXCEPT !.writing = FALSE].writing = FALSE
      /\ [c EXCEPT !.reading = FALSE, !.writing = FALSE] \in Channels
      /\ [c EXCEPT !.reading = FALSE, !.writing = FALSE].writing = FALSE
  BY Zenon DEF Channels
<1>3. QED
  BY <1>1, <1>2, Zenon DEF enableReading, enableWriting, disableWriting, disableAll

\* What is left of a message when n bytes of it have been written.
LEMMA RestOfMessage ==
  ASSUME NEW m, NEW n \in 0..2
  PROVE  /\ n = 2 => << >> \o Drop(Message(m), n) = << >>
         /\ n < 2 => << >> \o Drop(Message(m), n) # << >>
<1> DEFINE S == {<<m, 1>>, <<m, 2>>}
<1>1. Message(m) \in Seq(S) /\ Len(Message(m)) = 2
  BY DEF Message
<1>2. /\ Drop(Message(m), n) \in Seq(S)
      /\ Len(Drop(Message(m), n)) = IF n + 1 <= 2 THEN 2 - (n + 1) + 1 ELSE 0
  <2>1. \A i \in n + 1 .. 2 : Message(m)[i] \in S
    BY <1>1
  <2>2. Drop(Message(m), n) = SubSeq(Message(m), n + 1, 2)
    BY <1>1 DEF Drop
  <2>3. n + 1 \in Int /\ 2 \in Int
    OBVIOUS
  <2> HIDE DEF S
  <2>4. QED
    BY <2>1, <2>2, <2>3, SubSeqProperties
<1>3. << >> \o Drop(Message(m), n) = Drop(Message(m), n)
  BY <1>2, ConcatEmptySeq
<1>4. QED
  BY <1>2, <1>3, EmptySeq

Watched == channel_ \in Channels /\ WatchesWrites

\* A step that leaves the channel's events and the buffer alone.
LEMMA SameEvents ==
  ASSUME ClosedFirst, Watched, channel_' \in Channels, channel_'.writing = channel_.writing,
         outputBuffer_' = outputBuffer_, closes' = closes, downs' = downs
  PROVE  Watched'
  BY DEF Watched, WatchesWrites

\* A closed connection need not watch.
LEMMA ClosedWatch ==
  ASSUME ClosedFirst, Watched, handleClose
  PROVE  Watched'
<1>1. channel_' = disableAll(channel_) /\ closes' = closes + 1 /\ closes \in Nat
  BY DEF handleClose, removeConnection, ClosedFirst
<1>2. closes' # 0
  BY <1>1
<1>3. channel_' \in Channels
  BY <1>1, ChannelOps, Zenon DEF Watched
<1>4. QED
  BY <1>2, <1>3 DEF Watched, WatchesWrites

\* sendInLoop watches for OUT when it leaves bytes in the buffer.
LEMMA SendWatch ==
  ASSUME ClosedFirst, Watched, NEW m, sendInLoop(m)
  PROVE  Watched'
<1>1. closes' = closes /\ downs' = downs
  BY DEF sendInLoop
<1>2. CASE UNCHANGED <<channel_, outputBuffer_>>
  BY <1>1, <1>2, SameEvents DEF Watched
<1>3. ASSUME ~BytesWaiting, NEW n \in WriteResults(2), n # Fault,
             outputBuffer_' = outputBuffer_ \o Drop(Message(m), n),
             channel_' = IF n < 2 THEN enableWriting(channel_) ELSE channel_
      PROVE  Watched'
  <2>1. n \in 0..2 /\ outputBuffer_ = << >> /\ channel_.writing = FALSE /\ channel_ \in Channels
    BY <1>3 DEF WriteResults, BytesWaiting, Watched, Channels
  <2>2. CASE n = 2
    <3>1. outputBuffer_' = << >> /\ channel_' = channel_
      BY <1>3, <2>1, <2>2, RestOfMessage
    <3>2. QED
      BY <2>1, <3>1 DEF Watched, WatchesWrites
  <2>3. CASE n # 2
    <3>1. n < 2
      BY <2>1, <2>3
    <3>2. outputBuffer_' # << >>
      BY <1>3, <2>1, <3>1, RestOfMessage
    <3>3. channel_' \in Channels /\ channel_'.writing = TRUE
      BY <1>3, <2>1, <3>1, ChannelOps, Zenon
    <3>4. QED
      BY <3>2, <3>3 DEF Watched, WatchesWrites
  <2>4. QED
    BY <2>2, <2>3
<1>4. QED
  BY <1>2, <1>3, Zenon DEF sendInLoop

\* destoryConnection: a connection that was up is told down and watches nothing.
LEMMA DestroyWatch ==
  ASSUME ClosedFirst, Watched, destoryConnection
  PROVE  Watched'
<1>1. closes' = closes /\ outputBuffer_' = outputBuffer_ /\ downs \in Nat /\ channel_ \in Channels
  BY DEF destoryConnection, ClosedFirst, Watched
<1>2. CASE state_ = "kConnected"
  <2>1. downs' = downs + 1 /\ channel_' = [disableAll(channel_) EXCEPT !.status = "kNew"]
    BY <1>2 DEF destoryConnection, removeChannel
  <2>2. disableAll(channel_) \in Channels /\ disableAll(channel_).writing = FALSE
    BY <1>1, ChannelOps, Zenon
  <2>3. channel_' \in Channels /\ channel_'.writing = FALSE /\ downs' # 0
    BY <1>1, <2>1, <2>2 DEF Channels
  <2>4. QED
    BY <2>3 DEF Watched, WatchesWrites
<1>3. CASE state_ # "kConnected"
  <2>1. downs' = downs /\ channel_' = [channel_ EXCEPT !.status = "kNew"]
    BY <1>3 DEF destoryConnection, removeChannel
  <2>2. channel_' \in Channels /\ channel_'.writing = channel_.writing
    BY <1>1, <2>1 DEF Channels
  <2>3. QED
    BY <1>1, <2>1, <2>2, SameEvents
<1>4. QED
  BY <1>2, <1>3

\* Every step keeps the watch.
LEMMA WatchedInductive == ClosedFirst /\ Watched /\ [Next]_vars => Watched'
<1> SUFFICES ASSUME ClosedFirst, Watched, [Next]_vars PROVE Watched'
  OBVIOUS
<1> USE DEF loopVars, serverVars, connVars, historyVars
<1>1. CASE UNCHANGED <<channel_, outputBuffer_, closes, downs>>
  BY <1>1, SameEvents DEF Watched
<1>2. ASSUME NEW data, NEW out, Poll(data, out) PROVE Watched'
  BY <1>1, <1>2 DEF Poll
<1>3. CASE CloseEvent
  BY <1>3, ClosedWatch DEF CloseEvent
<1>4. CASE ErrorEvent
  BY <1>1, <1>4 DEF ErrorEvent
<1>5. CASE ReadEvent
  BY <1>1, <1>5, ClosedWatch DEF ReadEvent
<1>6. CASE WriteEvent
  <2>1. closes' = closes /\ downs' = downs /\ channel_ \in Channels
    BY <1>6 DEF WriteEvent, Watched
  <2>2. CASE UNCHANGED <<connVars, pending>>
    BY <1>1, <2>1, <2>2
  <2>3. CASE channel_.writing /\ outputBuffer_' # << >> /\ channel_' = channel_
    BY <2>1, <2>3 DEF Watched, WatchesWrites
  <2>4. CASE outputBuffer_' = << >> /\ channel_' = disableWriting(channel_)
    <3>1. channel_' \in Channels /\ channel_'.writing = FALSE
      BY <2>1, <2>4, ChannelOps, Zenon
    <3>2. QED
      BY <2>4, <3>1 DEF Watched, WatchesWrites
  <2>5. QED
    BY <1>6, <2>2, <2>3, <2>4 DEF WriteEvent
<1>7. CASE SwapFunctors
  BY <1>1, <1>7 DEF SwapFunctors
<1>8. CASE EstablishConnection
  <2>1. channel_' = enableReading(channel_) /\ UNCHANGED <<outputBuffer_, closes, downs>>
    BY <1>8 DEF EstablishConnection, establishConnection
  <2>2. channel_' \in Channels /\ channel_'.writing = channel_.writing
    BY <2>1, ChannelOps, Zenon DEF Watched
  <2>3. QED
    BY <2>1, <2>2, SameEvents
<1>9. CASE DestoryConnection
  BY <1>9, DestroyWatch DEF DestoryConnection
<1>10. CASE SendInLoop
  BY <1>10, SendWatch DEF SendInLoop
<1>11. CASE ShutdownInLoop
  BY <1>1, <1>11 DEF ShutdownInLoop
<1>12. CASE ForceCloseInLoop
  BY <1>1, <1>12, ClosedWatch DEF ForceCloseInLoop
<1>13. CASE UserFunctor \/ EndFunctors \/ UserReturns
  BY <1>1, <1>13 DEF UserFunctor, EndFunctors, UserReturns
<1>14. CASE UserSend
  BY <1>14, SendWatch DEF UserSend
<1>15. CASE UserShutdown \/ UserForceClose
  BY <1>1, <1>15 DEF UserShutdown, UserForceClose
<1>16. ASSUME NEW t, NEW call, CheckState(t, call) \/ StoreState(t) \/ QueueInLoop(t) PROVE Watched'
  BY <1>1, <1>16 DEF CheckState, StoreState, QueueInLoop, Step
<1>17. CASE RemoveConnectionInLoop
  BY <1>1, <1>17 DEF RemoveConnectionInLoop
<1>18. CASE ServerDestructs
  BY <1>1, <1>18, DestroyWatch DEF ServerDestructs
<1>19. ASSUME NEW how, PeerCloses(how) PROVE Watched'
  BY <1>1, <1>19 DEF PeerCloses
<1>20. CASE UNCHANGED vars
  BY <1>1, <1>20 DEF vars
<1>21. QED
  BY <1>2, <1>3, <1>4, <1>5, <1>6, <1>7, <1>8, <1>9, <1>10, <1>11, <1>12, <1>13, <1>14, <1>15,
     <1>16, <1>17, <1>18, <1>19, <1>20 DEF Next, LoopStep

\* The inductive invariant holds throughout.
LEMMA Invariant == Spec => [](ClosedFirst /\ Watched)
<1>1. Init => ClosedFirst /\ Watched
  <2> SUFFICES ASSUME Init PROVE ClosedFirst /\ Watched
    OBVIOUS
  <2>1. channel_ \in Channels /\ channel_.writing = FALSE
    BY DEF Init, NewConnection, NewChannel, Channels
  <2>2. Watched
    BY <2>1 DEF Init, NewConnection, Watched, WatchesWrites
  <2>3. Functor("establishConnection", None) \in AnyFunctor
        /\ Functor("establishConnection", None).op # "destoryConnection"
    BY DEF Functor, AnyFunctor, AnyMessage, None, Ops
  <2>4. << >> \in Seq(AnyFunctor) /\ NoDestroy(<< >>)
    BY DEF NoDestroy
  <2>5. pending \in Seq(AnyFunctor) /\ NoDestroy(pending)
    <3>1. CASE SameLoop
      BY <2>4, <3>1 DEF Init
    <3>2. CASE ~SameLoop
      <4>1. pending = Append(<< >>, Functor("establishConnection", None))
        BY <3>2 DEF Init
      <4>2. QED
        BY <2>3, <2>4, <4>1, AppendKeeps, Zenon
    <3>3. QED
      BY <3>1, <3>2
  <2>6. /\ caller \in [Threads -> [at : {"idle", "store", "queue"}, call : Calls \cup {"none"},
                                   msg : AnyMessage]]
        /\ \A t \in Threads : caller[t].at = "idle"
    BY DEF Init, Idle, None, AnyMessage
  <2>7. ClosedFirst
    BY <2>4, <2>5, <2>6 DEF Init, ClosedFirst
  <2>8. QED
    BY <2>2, <2>7
<1>2. QED
  BY <1>1, ClosedFirstInductive, WatchedInductive, PTL DEF Spec

\* The channel watches for OUT exactly while bytes wait, for any threads and calls
\* (TcpConnection.cc:137-167, 208-248).
THEOREM WatchesExactly == Spec => []WatchesWrites
<1>1. Watched => WatchesWrites
  BY DEF Watched
<1>2. QED
  BY <1>1, Invariant, PTL

\* FIN is sent when nothing waits, unless the connection is closed already
\* (TcpConnection.cc:162, 261).
THEOREM FinAfterBytes == Spec => FlushedBeforeFin
<1> USE DEF loopVars, serverVars, connVars, historyVars
<1>1. ASSUME ClosedFirst, Watched, [Next]_vars
      PROVE  [finSent' /\ ~finSent /\ closes = 0 => outputBuffer_' = << >>]_vars
  <2> SUFFICES ASSUME finSent', ~finSent, closes = 0, ClosedFirst, Watched, Next
               PROVE  outputBuffer_' = << >>
    BY <1>1 DEF vars
  <2>1. ASSUME phase # "stopped", shutdownInLoop(channel_, state_) \/ shutdownInLoop(channel_, "kDisconnecting"),
               UNCHANGED outputBuffer_
        PROVE  outputBuffer_' = << >>
    <3>1. ~channel_.writing
      BY <2>1, Zenon DEF shutdownInLoop
    <3>2. downs = 0
      BY <2>1 DEF ClosedFirst
    <3>3. QED
      BY <2>1, <3>1, <3>2 DEF Watched, WatchesWrites
  <2>2. CASE ShutdownInLoop
    BY <2>1, <2>2 DEF ShutdownInLoop, NextFunctor, OnLoop
  <2>3. CASE UserShutdown
    BY <2>1, <2>3 DEF UserShutdown, UserCalls, OnLoop
  <2>4. CASE WriteEvent
    BY <2>4, Zenon DEF WriteEvent
  <2>5. CASE finSent' = finSent
    BY <2>5
  <2>6. ASSUME NEW data, NEW out, Poll(data, out) PROVE finSent' = finSent
    BY <2>6 DEF Poll
  <2>7. CASE CloseEvent \/ ErrorEvent \/ ReadEvent \/ SwapFunctors \/ EstablishConnection
    BY <2>5, <2>7, Zenon DEF CloseEvent, ErrorEvent, ReadEvent, SwapFunctors, EstablishConnection,
                      establishConnection, handleClose
  <2>8. CASE DestoryConnection \/ SendInLoop \/ ForceCloseInLoop \/ UserFunctor \/ EndFunctors
             \/ UserReturns \/ UserSend \/ UserForceClose
    BY <2>5, <2>8, Zenon
      DEF DestoryConnection, destoryConnection, SendInLoop, sendInLoop, ForceCloseInLoop,
                      handleClose, UserFunctor, EndFunctors, UserReturns, UserSend, UserForceClose
  <2>9. ASSUME NEW t, NEW call, CheckState(t, call) \/ StoreState(t) \/ QueueInLoop(t)
        PROVE  finSent' = finSent
    BY <2>9, Zenon DEF CheckState, StoreState, QueueInLoop, Step
  <2>10. CASE RemoveConnectionInLoop \/ ServerDestructs
    BY <2>5, <2>10, Zenon DEF RemoveConnectionInLoop, ServerDestructs, destoryConnection
  <2>11. ASSUME NEW how, PeerCloses(how) PROVE finSent' = finSent
    BY <2>11 DEF PeerCloses
  <2>12. QED
    BY <2>2, <2>3, <2>4, <2>5, <2>6, <2>7, <2>8, <2>9, <2>10, <2>11, Zenon DEF Next, LoopStep
<1>2. QED
  BY <1>1, Invariant, PTL DEF Spec, FlushedBeforeFin

--------------------------------------------------------------------------------
(* MessagesIntact.                                                         *)

USE ThreadsAssumption

Bytes == AnyMessage \X {1, 2}

\* MessagesIntact of the bytes s, which are whole messages.
Intact(s) ==
    /\ Len(s) % 2 = 0
    /\ \A i \in 1..Len(s) :
         /\ s[i][2] = (IF i % 2 = 1 THEN 1 ELSE 2)
         /\ i % 2 = 0 => s[i - 1][1] = s[i][1]
    /\ \A i, j \in 1..Len(s) : i < j /\ s[i][1].from = s[j][1].from => s[i][1].n <= s[j][1].n

\* What has been sent of s, from sender to number, is not after m.
NotAfter(s, m) == \A i \in 1..Len(s) : s[i][1].from = m.from => s[i][1].n <= m.n

\* A message is two bytes.
LEMMA MessageBytes ==
  ASSUME NEW m \in AnyMessage
  PROVE  /\ Message(m) \in Seq(Bytes) /\ Len(Message(m)) = 2
         /\ Message(m)[1] = <<m, 1>> /\ Message(m)[2] = <<m, 2>>
  BY DEF Message, Bytes

\* Whole messages take an even number of bytes.
LEMMA Parity ==
  ASSUME NEW k \in Nat, k % 2 = 0
  PROVE  (k + 1) % 2 = 1 /\ (k + 2) % 2 = 0
  OBVIOUS

\* The bytes of a message that is not before what was sent keep the stream intact.
LEMMA IntactAppend ==
  ASSUME NEW s \in Seq(Bytes), NEW m \in AnyMessage, Intact(s), NotAfter(s, m)
  PROVE  Intact(s \o Message(m))
<1> DEFINE M == Message(m)
           u == s \o M
<1>1. /\ M \in Seq(Bytes) /\ Len(M) = 2 /\ M[1] = <<m, 1>> /\ M[2] = <<m, 2>>
  BY MessageBytes
<1> HIDE DEF M
<1>2. /\ Len(s) \in Nat /\ Len(u) = Len(s) + 2
      /\ \A i \in 1..Len(s) : u[i] = s[i]
      /\ u[Len(s) + 1] = <<m, 1>> /\ u[Len(s) + 2] = <<m, 2>>
  <2>1. /\ Len(s) \in Nat /\ Len(u) = Len(s) + Len(M)
        /\ \A i \in 1..Len(s) + Len(M) : u[i] = IF i <= Len(s) THEN s[i] ELSE M[i - Len(s)]
    BY ONLY <1>1, s \in Seq(Bytes), ConcatProperties, LenProperties, Zenon
  <2>2. /\ Len(s) + 1 \in 1..Len(s) + Len(M) /\ ~(Len(s) + 1 <= Len(s)) /\ Len(s) + 1 - Len(s) = 1
        /\ Len(s) + 2 \in 1..Len(s) + Len(M) /\ ~(Len(s) + 2 <= Len(s)) /\ Len(s) + 2 - Len(s) = 2
        /\ \A i \in 1..Len(s) : i \in 1..Len(s) + Len(M) /\ i <= Len(s)
    BY <1>1, <2>1
  <2> HIDE DEF u
  <2>3. QED
    BY <1>1, <2>1, <2>2
<1> HIDE DEF u
<1>3. Len(u) % 2 = 0 /\ Len(s) % 2 = 0 /\ (Len(s) + 1) % 2 = 1
  BY <1>2, Parity DEF Intact
<1>4. ASSUME NEW i \in 1..Len(u)
      PROVE  /\ u[i][2] = (IF i % 2 = 1 THEN 1 ELSE 2)
             /\ i % 2 = 0 => u[i - 1][1] = u[i][1]
  <2>1. CASE i \in 1..Len(s)
    <3>1. u[i] = s[i] /\ (i % 2 = 0 => i - 1 \in 1..Len(s) /\ u[i - 1] = s[i - 1])
      BY <1>2, <2>1
    <3>2. QED
      BY <2>1, <3>1 DEF Intact
  <2>2. CASE i = Len(s) + 1
    <3>1. i % 2 = 1 /\ ~(i % 2 = 0) /\ u[i] = <<m, 1>>
      BY <1>2, <1>3, <2>2
    <3>2. QED
      BY <3>1
  <2>3. CASE i = Len(s) + 2
    <3>1. i % 2 = 0 /\ ~(i % 2 = 1) /\ u[i] = <<m, 2>> /\ u[i - 1] = <<m, 1>>
      BY <1>2, <1>3, <2>3
    <3>2. QED
      BY <3>1
  <2>4. QED
    BY <1>2, <2>1, <2>2, <2>3
<1>5. ASSUME NEW i \in 1..Len(u), NEW j \in 1..Len(u), i < j, u[i][1].from = u[j][1].from
      PROVE  u[i][1].n <= u[j][1].n
  <2>1. m.n \in Nat
    BY DEF AnyMessage
  <2>2. CASE j \in 1..Len(s)
    <3>1. i \in 1..Len(s) /\ u[i] = s[i] /\ u[j] = s[j]
      BY <1>2, <1>5, <2>2
    <3>2. QED
      BY <1>5, <2>2, <3>1, Zenon DEF Intact
  <2>3. CASE j \notin 1..Len(s)
    <3>1. u[j][1] = m
      BY <1>2, <2>3
    <3>2. CASE i \in 1..Len(s)
      BY <1>2, <1>5, <3>1, <3>2 DEF NotAfter
    <3>3. CASE i \notin 1..Len(s)
      <4>1. u[i][1] = m
        BY <1>2, <3>3
      <4>2. QED
        BY <2>1, <3>1, <4>1
    <3>4. QED
      BY <3>2, <3>3
  <2>4. QED
    BY <2>2, <2>3
<1>6. QED
  BY <1>3, <1>4, <1>5, Zenon DEF Intact, u, M

\* Bytes cut anywhere and put together again are the same bytes.
LEMMA CutAnywhere ==
  ASSUME NEW S, NEW s \in Seq(S), NEW n \in 0..Len(s)
  PROVE  /\ SubSeq(s, 1, n) \in Seq(S) /\ Drop(s, n) \in Seq(S)
         /\ SubSeq(s, 1, n) \o Drop(s, n) = s
         /\ n < Len(s) => Drop(s, n) # << >>
         /\ \A i \in 1..Len(Drop(s, n)) : Drop(s, n)[i] = s[i + n] /\ i + n \in 1..Len(s)
<1> DEFINE a == SubSeq(s, 1, n)
           b == Drop(s, n)
<1>1. Len(s) \in Nat
  BY LenProperties
<1>2. a \in Seq(S) /\ Len(a) = n /\ \A i \in 1..n : a[i] = s[i]
  <2>1. \A i \in 1..n : s[i] \in S
    BY <1>1, ElementOfSeq
  <2>2. QED
    BY <1>1, <2>1, SubSeqProperties
<1>3. b \in Seq(S) /\ Len(b) = Len(s) - n /\ \A i \in 1..(Len(s) - n) : b[i] = s[i + n]
  <2>1. \A i \in n + 1 .. Len(s) : s[i] \in S
    BY <1>1, ElementOfSeq
  <2>2. /\ b \in Seq(S)
        /\ Len(b) = IF n + 1 <= Len(s) THEN Len(s) - (n + 1) + 1 ELSE 0
        /\ \A i \in 1 .. Len(s) - (n + 1) + 1 : b[i] = s[n + 1 + i - 1]
    BY <1>1, <2>1, SubSeqProperties DEF Drop
  <2>3. QED
    BY <1>1, <2>2
<1> HIDE DEF a, b
<1>4. /\ a \o b \in Seq(S) /\ Len(a \o b) = Len(s)
      /\ \A i \in 1..Len(s) : (a \o b)[i] = s[i]
  BY <1>1, <1>2, <1>3, ConcatProperties
<1>5. a \o b = s
  BY <1>4, SeqEqual, Zenon
<1>6. n < Len(s) => b # << >>
  BY <1>1, <1>3
<1>7. QED
  BY <1>1, <1>2, <1>3, <1>5, <1>6 DEF a, b

\* Messages of one thread keep their order.  The loop's own are sent at once.
Before(a, b) == a.from \in Threads /\ a.from = b.from => a.n <= b.n
AllBefore(A, B) == \A a \in A, b \in B : Before(a, b)

\* The messages of a stream, of a queue, and of the calls other threads are in.
Sent(s) == {s[i][1] : i \in 1..Len(s)}
Msgs(q) == {q[i].msg : i \in 1..Len(q)}
Calling == {caller[t].msg : t \in {s \in Threads : caller[s].at # "idle"}}

Sorted(q) == \A i, j \in 1..Len(q) : i < j => Before(q[i].msg, q[j].msg)
FromThreads(q) == \A i \in 1..Len(q) : q[i].op = "sendInLoop" => q[i].msg.from \in Threads

\* On its way a message is in a call C, then queued in P, then in the batch F, then in
\* the stream S; k calls have been made.
Line(S, F, P, C, k) ==
    /\ S \cup F \cup P \cup C \subseteq AnyMessage
    /\ \A m \in S \cup F \cup P \cup C : m.n <= k
    /\ AllBefore(S, F \cup P \cup C) /\ AllBefore(F, P \cup C) /\ AllBefore(P, C)

InOrder ==
    /\ wire \in Seq(Bytes) /\ outputBuffer_ \in Seq(Bytes) /\ Intact(Stream)
    /\ \A t \in Threads : caller[t].at # "idle" => caller[t].msg.from = t
    /\ FromThreads(pending) /\ FromThreads(functors) /\ Sorted(pending) /\ Sorted(functors)
    /\ Line(Sent(Stream), Msgs(functors), Msgs(pending), Calling, calls)

\* A functor appended to a queue of functors before it.
LEMMA AppendSorted ==
  ASSUME NEW q \in Seq(AnyFunctor), NEW f \in AnyFunctor, Sorted(q), FromThreads(q),
         AllBefore(Msgs(q), {f.msg}), f.op = "sendInLoop" => f.msg.from \in Threads
  PROVE  /\ Sorted(Append(q, f)) /\ FromThreads(Append(q, f))
         /\ Msgs(Append(q, f)) = Msgs(q) \cup {f.msg}
<1> DEFINE r == Append(q, f)
<1>1. /\ Len(q) \in Nat /\ Len(r) = Len(q) + 1 /\ r[Len(q) + 1] = f
      /\ \A i \in 1..Len(q) : r[i] = q[i]
  BY AppendProperties, LenProperties
<1> HIDE DEF r
<1>2. Msgs(r) = Msgs(q) \cup {f.msg}
  <2>1. ASSUME NEW i \in 1..Len(r) PROVE r[i].msg \in Msgs(q) \cup {f.msg}
    BY <1>1 DEF Msgs
  <2>2. ASSUME NEW i \in 1..Len(q) PROVE q[i].msg \in Msgs(r)
    <3>1. i \in 1..Len(r) /\ r[i] = q[i]
      BY <1>1
    <3>2. QED
      BY <3>1 DEF Msgs
  <2>3. f.msg \in Msgs(r)
    <3>1. Len(q) + 1 \in 1..Len(r)
      BY <1>1
    <3>2. QED
      BY <1>1, <3>1 DEF Msgs
  <2>4. Msgs(r) \subseteq Msgs(q) \cup {f.msg}
    BY <2>1, Zenon DEF Msgs
  <2>5. Msgs(q) \subseteq Msgs(r)
    BY <2>2, Zenon DEF Msgs
  <2>6. QED
    BY <2>3, <2>4, <2>5, Zenon
<1>3. Sorted(r)
  <2> SUFFICES ASSUME NEW i \in 1..Len(r), NEW j \in 1..Len(r), i < j
               PROVE  Before(r[i].msg, r[j].msg)
    BY DEF Sorted
  <2>1. i \in 1..Len(q) /\ r[i] = q[i]
    BY <1>1
  <2>2. CASE j \in 1..Len(q)
    BY <1>1, <2>1, <2>2 DEF Sorted
  <2>3. CASE j = Len(q) + 1
    <3>1. q[i].msg \in Msgs(q)
      BY <2>1, Zenon DEF Msgs
    <3>2. r[j] = f
      BY <1>1, <2>3, Zenon
    <3>3. QED
      BY <2>1, <3>1, <3>2, Zenon DEF AllBefore
  <2>4. QED
    BY <1>1, <2>2, <2>3
<1>4. FromThreads(r)
  BY <1>1 DEF FromThreads
<1>5. QED
  BY <1>2, <1>3, <1>4 DEF r

\* The first functor taken from a queue.
LEMMA TailSorted ==
  ASSUME NEW q \in Seq(AnyFunctor), q # << >>, Sorted(q), FromThreads(q)
  PROVE  /\ Sorted(Tail(q)) /\ FromThreads(Tail(q)) /\ Msgs(Tail(q)) \subseteq Msgs(q)
         /\ Head(q).msg \in Msgs(q) /\ AllBefore({Head(q).msg}, Msgs(Tail(q)))
         /\ Head(q).op = "sendInLoop" => Head(q).msg.from \in Threads
<1> DEFINE r == Tail(q)
<1>1. /\ Len(q) \in Nat \ {0} /\ Len(r) = Len(q) - 1 /\ Head(q) = q[1]
      /\ \A i \in 1..Len(r) : r[i] = q[i + 1]
  BY HeadTailProperties, LenProperties, EmptySeq
<1> HIDE DEF r
<1>2. \A i \in 1..Len(r) : i + 1 \in 1..Len(q) /\ 1 < i + 1 /\ r[i] = q[i + 1]
  BY <1>1
<1>3. 1 \in 1..Len(q)
  BY <1>1
<1>4. Sorted(r)
  <2> SUFFICES ASSUME NEW i \in 1..Len(r), NEW j \in 1..Len(r), i < j
               PROVE  Before(r[i].msg, r[j].msg)
    BY DEF Sorted
  <2>1. i + 1 < j + 1
    OBVIOUS
  <2>2. QED
    BY <1>2, <2>1 DEF Sorted
<1>5. FromThreads(r) /\ (Head(q).op = "sendInLoop" => Head(q).msg.from \in Threads)
  BY <1>1, <1>2, <1>3 DEF FromThreads
<1>6. Msgs(r) \subseteq Msgs(q) /\ Head(q).msg \in Msgs(q)
  BY <1>1, <1>2, <1>3 DEF Msgs
<1>7. AllBefore({Head(q).msg}, Msgs(r))
  <2>1. \A i \in 1..Len(r) : Before(Head(q).msg, r[i].msg)
    BY <1>1, <1>2, <1>3 DEF Sorted
  <2>2. QED
    BY <2>1 DEF AllBefore, Msgs
<1>8. QED
  BY <1>4, <1>5, <1>6, <1>7 DEF r

\* A message joins the stream.
LEMMA SentAppend ==
  ASSUME NEW s \in Seq(Bytes), NEW m \in AnyMessage
  PROVE  Sent(s \o Message(m)) \subseteq Sent(s) \cup {m}
<1> DEFINE M == Message(m)
           u == s \o M
<1>1. M \in Seq(Bytes) /\ Len(M) = 2 /\ M[1] = <<m, 1>> /\ M[2] = <<m, 2>>
  BY MessageBytes
<1> HIDE DEF M
<1>2. /\ Len(s) \in Nat /\ Len(u) = Len(s) + Len(M)
      /\ \A i \in 1..Len(s) + Len(M) : u[i] = IF i <= Len(s) THEN s[i] ELSE M[i - Len(s)]
  BY ONLY <1>1, s \in Seq(Bytes), ConcatProperties, LenProperties, Zenon
<1> HIDE DEF u
<1>3. ASSUME NEW i \in 1..Len(u) PROVE u[i][1] \in Sent(s) \cup {m}
  <2>1. CASE i <= Len(s)
    BY <1>2, <2>1 DEF Sent
  <2>2. CASE ~(i <= Len(s))
    <3>1. i - Len(s) \in {1, 2}
      BY <1>1, <1>2, <2>2
    <3>2. QED
      BY <1>1, <1>2, <2>2, <3>1
  <2>3. QED
    BY <2>1, <2>2
<1>4. QED
  BY <1>3 DEF Sent, u, M

\* What was sent is not after a message that comes next in line.
LEMMA NextInLine ==
  ASSUME NEW s, NEW m,
         \A a \in Sent(s) : a.n <= m.n \/ (Before(a, m) /\ m.from \in Threads)
  PROVE  NotAfter(s, m)
  BY DEF Sent, NotAfter, Before

Regrouped(s, t, u) == (s \o t) \o u = s \o (t \o u)

\* Concatenation is associative.
LEMMA Regroup ==
  ASSUME NEW s \in Seq(Bytes), NEW t \in Seq(Bytes), NEW u \in Seq(Bytes)
  PROVE  Regrouped(s, t, u)
<1> HIDE DEF Bytes
<1>1. QED
  BY DEF Regrouped

\* sendInLoop writes and buffers a whole message, or none of it.
LEMMA SendStream ==
  ASSUME InOrder, NEW m \in AnyMessage, sendInLoop(m)
  PROVE  /\ wire' \in Seq(Bytes) /\ outputBuffer_' \in Seq(Bytes)
         /\ Stream' = Stream \/ Stream' = Stream \o Message(m)
<1>1. wire \in Seq(Bytes) /\ outputBuffer_ \in Seq(Bytes)
  BY DEF InOrder
<1>2. CASE UNCHANGED <<wire, outputBuffer_>>
  BY <1>1, <1>2 DEF Stream
<1>3. ASSUME ~BytesWaiting, NEW n \in WriteResults(2), n # Fault,
             wire' = wire \o SubSeq(Message(m), 1, n),
             outputBuffer_' = outputBuffer_ \o Drop(Message(m), n)
      PROVE  /\ wire' \in Seq(Bytes) /\ outputBuffer_' \in Seq(Bytes)
             /\ Stream' = Stream \o Message(m)
  <2> DEFINE a == SubSeq(Message(m), 1, n)
             b == Drop(Message(m), n)
  <2>1. n \in 0..2 /\ outputBuffer_ = << >>
    BY <1>3 DEF WriteResults, BytesWaiting
  <2>2. Message(m) \in Seq(Bytes) /\ Len(Message(m)) = 2
    BY MessageBytes
  <2>3. a \in Seq(Bytes) /\ b \in Seq(Bytes) /\ a \o b = Message(m)
    BY <2>1, <2>2, CutAnywhere, Zenon
  <2> HIDE DEF a, b
  <2>4. wire' = wire \o a /\ outputBuffer_' = b
    BY <1>3, <2>1, <2>3, ConcatEmptySeq DEF a, b
  <2>5. Regrouped(wire, a, b)
    BY <1>1, <2>3, Regroup, Zenon
  <2>6. wire \o a \in Seq(Bytes)
    BY <1>1, <2>3, ConcatProperties
  <2>7. Stream = wire
    BY <1>1, <2>1, ConcatEmptySeq DEF Stream
  <2>8. QED
    BY <2>3, <2>4, <2>5, <2>6, <2>7 DEF Stream, Regrouped
<1>4. QED
  BY <1>2, <1>3, Zenon DEF sendInLoop

\* handleWrite moves bytes from the buffer to the socket.
LEMMA WriteStream ==
  ASSUME InOrder, WriteEvent
  PROVE  wire' \in Seq(Bytes) /\ outputBuffer_' \in Seq(Bytes) /\ Stream' = Stream
<1>1. wire \in Seq(Bytes) /\ outputBuffer_ \in Seq(Bytes)
  BY DEF InOrder
<1>2. CASE UNCHANGED <<connVars, pending>>
  BY <1>1, <1>2 DEF Stream, connVars
<1>3. ASSUME NEW n \in WriteResults(Len(outputBuffer_)) \ {Fault, 0},
             wire' = wire \o SubSeq(outputBuffer_, 1, n),
             outputBuffer_' = Drop(outputBuffer_, n)
      PROVE  wire' \in Seq(Bytes) /\ outputBuffer_' \in Seq(Bytes) /\ Stream' = Stream
  <2> DEFINE a == SubSeq(outputBuffer_, 1, n)
             b == Drop(outputBuffer_, n)
  <2>1. n \in 0..Len(outputBuffer_)
    BY <1>3 DEF WriteResults
  <2>2. a \in Seq(Bytes) /\ b \in Seq(Bytes) /\ a \o b = outputBuffer_
    BY <1>1, <2>1, CutAnywhere
  <2>3. wire' = wire \o a /\ outputBuffer_' = b
    BY <1>3
  <2> HIDE DEF a, b
  <2>4. Regrouped(wire, a, b)
    BY <1>1, <2>2, Regroup, Zenon
  <2>5. wire \o a \in Seq(Bytes)
    BY <1>1, <2>2, ConcatProperties
  <2>6. QED
    BY <2>2, <2>3, <2>4, <2>5 DEF Stream, Regrouped
<1>4. QED
  BY <1>2, <1>3, Zenon DEF WriteEvent

\* A line loses members, gets callbacks of the loop's own in its queue, and m goes to
\* the stream in its turn.
Moves(S, F, P, C, k, S2, F2, P2, l, m) ==
    /\ k \in Nat /\ l \in Nat /\ k <= l /\ m \in AnyMessage /\ m.n <= l
    /\ S2 \subseteq S \cup {m} /\ F2 \subseteq F /\ P2 \subseteq P \cup {None}
    /\ m.from \in Threads => AllBefore({m}, F2 \cup P \cup C)

\* It is a line still.
LEMMA LineKept ==
  ASSUME NEW S, NEW F, NEW P, NEW C, NEW k, Line(S, F, P, C, k),
         NEW S2, NEW F2, NEW P2, NEW l, NEW m, Moves(S, F, P, C, k, S2, F2, P2, l, m)
  PROVE  Line(S2, F2, P2, C, l)
<1> USE DEF Moves
<1>1. None \in AnyMessage /\ None.n = 0 /\ None.from \notin Threads
  BY ThreadsAssumption DEF None, AnyMessage
<1>2. \A a \in AnyMessage : a.n \in Nat
  BY DEF AnyMessage
<1>3. S2 \cup F2 \cup P2 \cup C \subseteq AnyMessage
  BY <1>1 DEF Line
<1>4. \A a \in S2 \cup F2 \cup P2 \cup C : a.n <= l
  <2> SUFFICES ASSUME NEW a \in S2 \cup F2 \cup P2 \cup C PROVE a.n <= l
    OBVIOUS
  <2>1. a.n \in Nat /\ (a = m \/ a = None \/ a \in S \cup F \cup P \cup C)
    BY <1>2, <1>3
  <2>2. a = m \/ a.n <= k
    BY <1>1, <2>1 DEF Line
  <2>3. QED
    BY <2>1, <2>2
<1>5. \A a : Before(a, None) /\ Before(None, a)
  BY <1>1 DEF Before
<1>6. AllBefore(F2, P2 \cup C) /\ AllBefore(P2, C)
  BY <1>5 DEF Line, AllBefore
<1>7. AllBefore(S2, F2 \cup P2 \cup C)
  <2> SUFFICES ASSUME NEW a \in S2, NEW b \in F2 \cup P2 \cup C PROVE Before(a, b)
    BY DEF AllBefore
  <2>1. CASE a \in S
    BY <1>5, <2>1 DEF Line, AllBefore
  <2>2. CASE a = m /\ m.from \in Threads
    BY <1>5, <2>2 DEF AllBefore
  <2>3. CASE a = m /\ m.from \notin Threads
    BY <2>3 DEF Before
  <2>4. QED
    BY <2>1, <2>2, <2>3
<1>8. QED
  BY <1>3, <1>4, <1>6, <1>7 DEF Line

\* What most steps do to the loop's queue: nothing, or queue a functor without a message.
PlainAppends ==
    \/ pending' = pending
    \/ \E op \in Ops \ {"sendInLoop"} : pending' = Append(pending, Functor(op, None))

\* The message whose turn it is: one the loop sends itself, or that of the next functor.
InTurn(m) ==
    \/ m.from = "loop" /\ calls' = calls + 1 /\ m.n = calls'
    \/ /\ functors # << >> /\ functors' = Tail(functors)
       /\ m = Head(functors).msg /\ m.from \in Threads

\* What the invariants say of the queues and of the calls.
LEMMA QueuesTyped ==
  ASSUME ClosedFirst, InOrder
  PROVE  /\ pending \in Seq(AnyFunctor) /\ functors \in Seq(AnyFunctor)
         /\ FromThreads(pending) /\ FromThreads(functors) /\ Sorted(pending) /\ Sorted(functors)
  BY Zenon DEF ClosedFirst, InOrder

\* The callers' calls and messages.
LEMMA CallersTyped ==
  ASSUME ClosedFirst, InOrder
  PROVE  /\ caller \in [Threads -> [at : {"idle", "store", "queue"}, call : Calls \cup {"none"},
                                    msg : AnyMessage]]
         /\ \A s \in Threads : caller[s].at # "idle" => caller[s].call \in Calls /\ caller[s].msg.from = s
  BY Zenon DEF ClosedFirst, InOrder

\* The line of messages.
LEMMA Lined ==
  ASSUME ClosedFirst, InOrder
  PROVE  calls \in Nat /\ Line(Sent(Stream), Msgs(functors), Msgs(pending), Calling, calls)
  BY Zenon DEF ClosedFirst, InOrder

\* A step of the loop sends nothing, or a message whose turn it is.
LEMMA OrderKept ==
  ASSUME ClosedFirst, InOrder, UNCHANGED caller, calls' \in {calls, calls + 1},
         PlainAppends, Takes, wire' \in Seq(Bytes), outputBuffer_' \in Seq(Bytes),
         NEW m \in AnyMessage, Stream' = Stream \/ (Stream' = Stream \o Message(m) /\ InTurn(m))
  PROVE  InOrder'
<1> DEFINE S == Sent(Stream)
           F == Msgs(functors)
           P == Msgs(pending)
<1>1. calls \in Nat /\ calls' \in Nat /\ calls <= calls'
  BY Lined
<1>1a. /\ pending \in Seq(AnyFunctor) /\ functors \in Seq(AnyFunctor)
       /\ FromThreads(pending) /\ FromThreads(functors) /\ Sorted(pending) /\ Sorted(functors)
  BY QueuesTyped
<1>1b. Line(S, F, P, Calling, calls) /\ Calling' = Calling
  BY Lined, Zenon DEF Calling
<1>2. None \in AnyMessage /\ None.n = 0 /\ None.from \notin Threads
  BY ThreadsAssumption DEF None, AnyMessage
<1>3. FromThreads(pending') /\ Sorted(pending') /\ Msgs(pending') \subseteq P \cup {None}
  <2>1. CASE pending' = pending
    BY <1>1a, <2>1
  <2>2. ASSUME NEW op \in Ops \ {"sendInLoop"}, pending' = Append(pending, Functor(op, None))
        PROVE  FromThreads(pending') /\ Sorted(pending') /\ Msgs(pending') \subseteq P \cup {None}
    <3>1. /\ Functor(op, None) \in AnyFunctor /\ Functor(op, None).op # "sendInLoop"
          /\ Functor(op, None).msg = None
      BY <1>2 DEF Functor, AnyFunctor
    <3>2. AllBefore(P, {None})
      BY <1>2 DEF AllBefore, Before
    <3>3. QED
      BY <1>1a, <2>2, <3>1, <3>2, AppendSorted, Zenon
  <2>3. QED
    BY <2>1, <2>2 DEF PlainAppends
<1>4. FromThreads(functors') /\ Sorted(functors') /\ Msgs(functors') \subseteq F
  BY <1>1a, TailSorted, Zenon DEF Takes
<1>4a. \A t \in Threads : caller'[t].at # "idle" => caller'[t].msg.from = t
  BY DEF InOrder
<1>5. CASE Stream' = Stream
  <2>0. Intact(Stream') /\ Sent(Stream') = S
    BY <1>5, Zenon DEF InOrder
  <2>1. Line(S, Msgs(functors'), Msgs(pending'), Calling, calls')
    <3>1. Moves(S, F, P, Calling, calls, S, Msgs(functors'), Msgs(pending'), calls', None)
      BY <1>1, <1>2, <1>3, <1>4 DEF Moves
    <3>2. QED
      BY <1>1b, <3>1, LineKept
  <2>2. QED
    BY <1>1b, <1>3, <1>4, <1>4a, <2>0, <2>1, Zenon DEF InOrder
<1>6. CASE Stream' = Stream \o Message(m) /\ InTurn(m)
  <2>1. Stream \in Seq(Bytes) /\ Intact(Stream)
    BY ConcatProperties, Zenon DEF InOrder, Stream
  <2>2. Sent(Stream') \subseteq S \cup {m}
    BY <1>6, <2>1, SentAppend
  <2>3. /\ m.n <= calls' /\ (m.from \in Threads => AllBefore({m}, Msgs(functors') \cup P \cup Calling))
        /\ \A a \in S : a.n <= m.n \/ (Before(a, m) /\ m.from \in Threads)
    <3>1. CASE m.from = "loop" /\ calls' = calls + 1 /\ m.n = calls'
      <4>1. m.from \notin Threads /\ m.n <= calls'
        BY <1>1, <3>1, ThreadsAssumption
      <4>2. \A a \in S : a.n <= m.n
        BY <1>1, <1>1b, <3>1 DEF Line, AnyMessage
      <4>3. QED
        BY <4>1, <4>2
    <3>2. CASE /\ functors # << >> /\ functors' = Tail(functors)
               /\ m = Head(functors).msg /\ m.from \in Threads
      <4>1. m \in F /\ AllBefore({m}, Msgs(functors'))
        BY <1>1a, <3>2, TailSorted, Zenon
      <4>2. m.n <= calls /\ m.n \in Nat
        BY <1>1b, <4>1 DEF Line, AnyMessage
      <4>3. AllBefore({m}, P \cup Calling) /\ AllBefore(S, {m})
        BY <1>1b, <4>1 DEF Line, AllBefore
      <4>4. m.n <= calls'
        BY <1>1, <4>2
      <4>5. AllBefore({m}, Msgs(functors') \cup P \cup Calling)
        BY <4>1, <4>3, Zenon DEF AllBefore
      <4>6. \A a \in S : Before(a, m)
        BY <4>3, Zenon DEF AllBefore
      <4>7. QED
        BY <3>2, <4>4, <4>5, <4>6, Zenon
    <3>3. QED
      BY <1>6, <3>1, <3>2, Zenon DEF InTurn
  <2>4. NotAfter(Stream, m)
    BY <2>3, NextInLine
  <2>5. Intact(Stream')
    BY <1>6, <2>1, <2>4, IntactAppend
  <2>6. Line(Sent(Stream'), Msgs(functors'), Msgs(pending'), Calling, calls')
    <3>1. Moves(S, F, P, Calling, calls, Sent(Stream'), Msgs(functors'), Msgs(pending'), calls', m)
      BY <1>1, <1>3, <1>4, <2>2, <2>3 DEF Moves
    <3>2. QED
      BY <1>1b, <3>1, LineKept
  <2>7. QED
    BY <1>1b, <1>3, <1>4, <1>4a, <2>5, <2>6, Zenon DEF InOrder
<1>7. QED
  BY <1>5, <1>6

\* A step that sends nothing.
LEMMA NothingSent ==
  ASSUME ClosedFirst, InOrder, UNCHANGED <<caller, wire, outputBuffer_>>,
         calls' \in {calls, calls + 1}, PlainAppends, Takes
  PROVE  InOrder'
<1>1. None \in AnyMessage /\ Stream' = Stream
  BY DEF None, AnyMessage, Stream
<1>2. wire' \in Seq(Bytes) /\ outputBuffer_' \in Seq(Bytes)
  BY DEF InOrder
<1>3. QED
  BY <1>1, <1>2, OrderKept

\* What handleClose and sendInLoop queue.
LEMMA PlainOps ==
  /\ handleClose => PlainAppends /\ UNCHANGED <<wire, outputBuffer_>>
  /\ \A m : sendInLoop(m) => PlainAppends
<1>1. handleClose => PlainAppends /\ UNCHANGED <<wire, outputBuffer_>>
  BY DEF handleClose, removeConnection, QueueDestory, PlainAppends, Ops
<1>2. ASSUME NEW m, sendInLoop(m) PROVE PlainAppends
  <2>1. \/ pending' = pending
        \/ pending' = Append(pending, Functor("writeCompleteCallback", None))
        \/ pending' = Append(pending, Functor("highWaterMarkCallback", None))
    BY <1>2 DEF sendInLoop
  <2>2. QED
    BY <2>1 DEF PlainAppends, Ops
<1>3. QED
  BY <1>1, <1>2

\* Another thread's call begins, stores its state and is queued: its message is the
\* last of its thread's all along.
LEMMA CallersInOrder ==
  ASSUME ClosedFirst, InOrder, NEW t \in Threads,
         (\E call \in ThreadCalls : CheckState(t, call)) \/ StoreState(t) \/ QueueInLoop(t)
  PROVE  InOrder'
<1> USE DEF loopVars, serverVars, connVars, historyVars
<1> DEFINE S == Sent(Stream)
           F == Msgs(functors)
           P == Msgs(pending)
           C == Calling
<1>1. calls \in Nat /\ Line(S, F, P, C, calls)
  BY Lined
<1>1a. /\ pending \in Seq(AnyFunctor) /\ functors \in Seq(AnyFunctor)
       /\ FromThreads(pending) /\ FromThreads(functors) /\ Sorted(pending) /\ Sorted(functors)
  BY QueuesTyped
<1>1b. caller = [s \in Threads |-> caller[s]]
  BY CallersTyped
<1>1c. \A s \in Threads : caller[s].at # "idle" => caller[s].msg.from = s
  BY CallersTyped, Zenon
<1>2. Stream' = Stream /\ functors' = functors /\ wire' = wire /\ outputBuffer_' = outputBuffer_
  BY Zenon DEF CheckState, StoreState, QueueInLoop, Step, Stream
<1>3. InOrder => wire' \in Seq(Bytes) /\ outputBuffer_' \in Seq(Bytes) /\ Intact(Stream')
  BY <1>2, Zenon DEF InOrder
<1>4. ASSUME NEW call \in ThreadCalls, CheckState(t, call) PROVE InOrder'
  <2> DEFINE m == [from |-> t, n |-> calls']
  <2>1. /\ calls' = calls + 1 /\ pending' = pending
        /\ caller' = [caller EXCEPT ![t] = [at |-> IF call = "send" THEN "queue" ELSE "store",
                                            call |-> call, msg |-> m]]
    BY <1>4, Zenon DEF CheckState, Step
  <2>2. m \in AnyMessage /\ m.n = calls + 1 /\ m.from = t
    BY <1>1, <2>1 DEF AnyMessage
  <2>3. caller'[t].msg = m /\ \A s \in Threads \ {t} : caller'[s] = caller[s]
    BY <1>1b, <2>1
  <2> HIDE DEF m
  <2>4. Calling' \subseteq C \cup {m}
    BY <2>3 DEF Calling
  <2>5. \A s \in Threads : caller'[s].at # "idle" => caller'[s].msg.from = s
    BY <1>1c, <2>2, <2>3
  <2>6. Line(S, F, P, Calling', calls')
    <3>1. \A a \in S \cup F \cup P \cup C : a.n \in Nat /\ a.n <= calls
      BY <1>1 DEF Line, AnyMessage
    <3>2. \A a \in S \cup F \cup P : Before(a, m)
      BY <1>1, <2>2, <3>1 DEF Before
    <3>3. S \cup F \cup P \cup Calling' \subseteq AnyMessage
      BY <1>1, <2>2, <2>4 DEF Line
    <3>4. \A a \in S \cup F \cup P \cup Calling' : a.n <= calls'
      <4> SUFFICES ASSUME NEW a \in S \cup F \cup P \cup Calling' PROVE a.n <= calls + 1
        BY <2>1
      <4>1. a = m \/ (a.n \in Nat /\ a.n <= calls)
        BY <2>4, <3>1
      <4>2. QED
        BY <1>1, <2>2, <4>1
    <3>5. AllBefore(S, F \cup P \cup Calling') /\ AllBefore(F, P \cup Calling') /\ AllBefore(P, Calling')
      <4>1. AllBefore(S, F \cup P \cup C) /\ AllBefore(F, P \cup C) /\ AllBefore(P, C)
        BY <1>1 DEF Line
      <4> HIDE DEF S, F, P, C
      <4>2. QED
        BY ONLY <2>4, <3>2, <4>1 DEF AllBefore
    <3>6. QED
      BY <3>3, <3>4, <3>5 DEF Line
  <2>7. QED
    BY <1>1a, <1>2, <1>3, <2>1, <2>5, <2>6, Zenon DEF InOrder
<1>5. CASE StoreState(t)
  <2>1. /\ calls' = calls /\ pending' = pending /\ caller[t].at = "store"
        /\ caller' = [caller EXCEPT ![t] = [caller[t] EXCEPT !.at = "queue"]]
    BY <1>5 DEF StoreState, Step
  <2>2. /\ \A s \in Threads : caller'[s].msg = caller[s].msg
        /\ \A s \in Threads : caller'[s].at # "idle" <=> caller[s].at # "idle"
    BY <2>1, CallersTyped
  <2>3. Calling' = C
    BY <2>2 DEF Calling
  <2>4. \A s \in Threads : caller'[s].at # "idle" => caller'[s].msg.from = s
    BY <1>1c, <2>2
  <2>5. QED
    BY <1>1, <1>1a, <1>2, <1>3, <2>1, <2>3, <2>4 DEF InOrder
<1>6. CASE QueueInLoop(t)
  <2> DEFINE f == Functor(InLoop(caller[t].call), caller[t].msg)
  <2>1. /\ calls' = calls /\ caller[t].at = "queue" /\ caller' = [caller EXCEPT ![t] = Idle]
        /\ pending' = Append(pending, f)
    BY <1>6 DEF QueueInLoop, Step
  <2>2. /\ caller[t].call \in Calls /\ caller[t].msg \in AnyMessage /\ caller[t].msg.from = t
        /\ caller[t].msg \in C
    BY <2>1, CallersTyped DEF Calling
  <2>3. \A call \in Calls : InLoop(call) \in Ops
    BY ONLY DEF InLoop, Calls, Ops
  <2>4. f \in AnyFunctor /\ f.msg = caller[t].msg
    BY <2>2, <2>3, Zenon DEF Functor, AnyFunctor
  <2> HIDE DEF f
  <2>5. AllBefore(P, {f.msg}) /\ AllBefore(F, {f.msg}) /\ AllBefore(S, {f.msg})
    BY <1>1, <2>2, <2>4, Zenon DEF Line, AllBefore
  <2>6. Sorted(pending') /\ FromThreads(pending') /\ Msgs(pending') = P \cup {f.msg}
    <3>1. f.msg.from \in Threads
      BY <2>2, <2>4, Zenon
    <3>2. /\ Sorted(Append(pending, f)) /\ FromThreads(Append(pending, f))
          /\ Msgs(Append(pending, f)) = P \cup {f.msg}
      BY ONLY <1>1a, <2>4, <2>5, <3>1, AppendSorted, Zenon
    <3>3. QED
      BY <2>1, <3>2, Zenon
  <2>7. Idle.at = "idle" /\ caller'[t] = Idle /\ \A s \in Threads \ {t} : caller'[s] = caller[s]
    BY <1>1b, <2>1 DEF Idle
  <2>8. Calling' \subseteq {a \in C : a.from # t}
    <3>1. ASSUME NEW s \in Threads, caller'[s].at # "idle"
          PROVE  caller'[s].msg \in C /\ caller'[s].msg.from # t
      <4>1. s # t
        BY <2>7, <3>1, Zenon
      <4>2. caller'[s] = caller[s] /\ caller[s].msg.from = s
        BY <1>1c, <2>7, <3>1, <4>1, Zenon
      <4>3. QED
        BY <3>1, <4>1, <4>2, Zenon DEF Calling
    <3>2. QED
      BY <3>1, Zenon DEF Calling
  <2>9. \A s \in Threads : caller'[s].at # "idle" => caller'[s].msg.from = s
    BY <1>1c, <2>7
  <2>10. AllBefore({f.msg}, Calling')
    BY <2>2, <2>4, <2>8 DEF AllBefore, Before
  <2>11. Line(S, F, P \cup {f.msg}, Calling', calls)
    <3>1. S \cup F \cup (P \cup {f.msg}) \cup Calling' \subseteq S \cup F \cup P \cup C
      BY <2>2, <2>4, <2>8, Zenon
    <3>2. AllBefore(S, F \cup (P \cup {f.msg}) \cup Calling')
      BY <1>1, <2>5, <2>8, Zenon DEF Line, AllBefore
    <3>3. AllBefore(F, (P \cup {f.msg}) \cup Calling')
      BY <1>1, <2>5, <2>8, Zenon DEF Line, AllBefore
    <3>4. AllBefore(P \cup {f.msg}, Calling')
      BY <1>1, <2>10, <2>8, Zenon DEF Line, AllBefore
    <3>5. QED
      BY <1>1, <3>1, <3>2, <3>3, <3>4, Zenon DEF Line
  <2>12. QED
    BY <1>1a, <1>2, <1>3, <2>1, <2>6, <2>9, <2>11, Zenon DEF InOrder
<1>7. QED
  BY <1>4, <1>5, <1>6

\* Every step keeps the order.
LEMMA InOrderInductive == ClosedFirst /\ InOrder /\ [Next]_vars => InOrder'
<1> SUFFICES ASSUME ClosedFirst, InOrder, [Next]_vars PROVE InOrder'
  OBVIOUS
<1> USE DEF loopVars, serverVars, connVars, historyVars
<1>1. CASE UNCHANGED <<caller, wire, outputBuffer_, pending, functors>> /\ calls' \in {calls, calls + 1}
  BY <1>1, NothingSent DEF PlainAppends, Takes
<1>2. ASSUME NEW data, NEW out, Poll(data, out) PROVE InOrder'
  BY <1>1, <1>2 DEF Poll
<1>3. CASE CloseEvent
  BY <1>3, PlainOps, NothingSent DEF CloseEvent, NextCallback, Takes
<1>4. CASE ErrorEvent
  BY <1>1, <1>4 DEF ErrorEvent, NextCallback
<1>5. CASE ReadEvent
  BY <1>1, <1>5, PlainOps, NothingSent DEF ReadEvent, NextCallback, Takes
<1>6. CASE WriteEvent
  <2>1. wire' \in Seq(Bytes) /\ outputBuffer_' \in Seq(Bytes) /\ Stream' = Stream
    BY <1>6, WriteStream
  <2>2. UNCHANGED <<functors, caller, calls>>
        /\ pending' \in {pending, Append(pending, Functor("writeCompleteCallback", None))}
    BY <1>6 DEF WriteEvent, NextCallback
  <2>3. PlainAppends /\ Takes /\ None \in AnyMessage
    BY <2>2 DEF PlainAppends, Takes, Ops, None, AnyMessage
  <2>4. QED
    BY <2>1, <2>2, <2>3, OrderKept
<1>7. CASE SwapFunctors
  <2>1. functors' = pending /\ pending' = << >> /\ UNCHANGED <<caller, calls, wire, outputBuffer_>>
    BY <1>7 DEF SwapFunctors
  <2>2. FromThreads(<< >>) /\ Sorted(<< >>) /\ Msgs(<< >>) = {}
    BY DEF FromThreads, Sorted, Msgs
  <2>3. Calling' = Calling /\ Stream' = Stream
    BY <2>1 DEF Calling, Stream
  <2>4. Line(Sent(Stream), Msgs(pending), {}, Calling, calls)
    BY Zenon DEF InOrder, Line, AllBefore
  <2>5. QED
    BY <2>1, <2>2, <2>3, <2>4, Zenon DEF InOrder
<1>8. CASE EstablishConnection
  BY <1>8, NothingSent DEF EstablishConnection, establishConnection, NextCallback, NextFunctor,
                           Takes, PlainAppends
<1>9. CASE DestoryConnection
  BY <1>9, NothingSent DEF DestoryConnection, destoryConnection, NextFunctor, Takes, PlainAppends
<1>10. CASE SendInLoop
  <2> DEFINE m == Head(functors).msg
  <2>1. /\ functors # << >> /\ functors' = Tail(functors) /\ Head(functors).op = "sendInLoop"
        /\ UNCHANGED <<caller, calls>> /\ sendInLoop(m)
    BY <1>10 DEF SendInLoop, NextFunctor
  <2>2. functors \in Seq(AnyFunctor) /\ FromThreads(functors) /\ Sorted(functors)
    BY DEF ClosedFirst, InOrder
  <2>3. m \in AnyMessage /\ m.from \in Threads
    BY <2>1, <2>2, TailSorted, TailKeeps, Zenon DEF AnyFunctor
  <2>4. /\ wire' \in Seq(Bytes) /\ outputBuffer_' \in Seq(Bytes) /\ PlainAppends /\ Takes
        /\ Stream' = Stream \/ Stream' = Stream \o Message(m)
    BY <2>1, <2>3, SendStream, PlainOps DEF Takes
  <2>5. InTurn(m)
    BY <2>1, <2>3 DEF InTurn
  <2> HIDE DEF m
  <2>6. QED
    BY <2>1, <2>3, <2>4, <2>5, OrderKept, Zenon
<1>11. CASE ShutdownInLoop
  BY <1>11, NothingSent DEF ShutdownInLoop, NextFunctor, Takes, PlainAppends
<1>12. CASE ForceCloseInLoop
  BY <1>12, PlainOps, NothingSent DEF ForceCloseInLoop, NextFunctor, Takes, PlainAppends
<1>13. CASE UserFunctor
  BY <1>13, NothingSent DEF UserFunctor, NextFunctor, Takes, PlainAppends
<1>14. CASE EndFunctors \/ UserReturns
  BY <1>1, <1>14 DEF EndFunctors, UserReturns
<1>15. CASE UserSend
  <2> DEFINE m == [from |-> "loop", n |-> calls']
  <2>1. UNCHANGED <<caller, functors>> /\ calls' = calls + 1 /\ sendInLoop(m)
    BY <1>15 DEF UserSend, UserCalls
  <2>2. m \in AnyMessage /\ InTurn(m)
    BY <2>1 DEF ClosedFirst, AnyMessage, InTurn
  <2> HIDE DEF m
  <2>3. /\ wire' \in Seq(Bytes) /\ outputBuffer_' \in Seq(Bytes) /\ PlainAppends /\ Takes
        /\ Stream' = Stream \/ Stream' = Stream \o Message(m)
    BY <2>1, <2>2, SendStream, PlainOps DEF Takes
  <2>4. QED
    BY <2>1, <2>2, <2>3, OrderKept
<1>16. CASE UserShutdown
  BY <1>1, <1>16 DEF UserShutdown, UserCalls
<1>17. CASE UserForceClose
  BY <1>17, NothingSent DEF UserForceClose, UserCalls, Takes, PlainAppends, Ops
<1>18. ASSUME NEW t \in Threads,
              (\E call \in ThreadCalls : CheckState(t, call)) \/ StoreState(t) \/ QueueInLoop(t)
       PROVE  InOrder'
  BY <1>18, CallersInOrder
<1>19. CASE RemoveConnectionInLoop
  BY <1>19, NothingSent DEF RemoveConnectionInLoop, QueueDestory, Takes, PlainAppends, Ops
<1>20. CASE ServerDestructs
  BY <1>1, <1>20 DEF ServerDestructs, destoryConnection
<1>21. ASSUME NEW how, PeerCloses(how) PROVE InOrder'
  BY <1>1, <1>21 DEF PeerCloses
<1>22. CASE UNCHANGED vars
  BY <1>1, <1>22, Zenon DEF vars
<1>23. QED
  BY <1>2, <1>3, <1>4, <1>5, <1>6, <1>7, <1>8, <1>9, <1>10, <1>11, <1>12, <1>13, <1>14, <1>15,
     <1>16, <1>17, <1>18, <1>19, <1>20, <1>21, <1>22, Zenon DEF Next, LoopStep

\* A new connection has nothing to send.
LEMMA InOrderInit == Init => InOrder
<1> SUFFICES ASSUME Init PROVE InOrder
  OBVIOUS
<1>1. wire = << >> /\ outputBuffer_ = << >> /\ functors = << >> /\ calls = 0
  BY DEF Init, NewConnection
<1>2. Stream = << >>
  BY <1>1 DEF Stream
<1>3. Intact(Stream) /\ Sent(Stream) = {}
  BY <1>2 DEF Intact, Sent
<1>4. Calling = {} /\ \A t \in Threads : caller[t].at = "idle"
  BY DEF Init, Calling, Idle
<1>5. FromThreads(functors) /\ Sorted(functors) /\ Msgs(functors) = {}
  BY <1>1 DEF FromThreads, Sorted, Msgs
<1>6. FromThreads(pending) /\ Sorted(pending) /\ Msgs(pending) \subseteq {None}
  <2>1. CASE SameLoop
    <3>1. pending = << >>
      BY <2>1 DEF Init
    <3>2. QED
      BY <3>1 DEF FromThreads, Sorted, Msgs
  <2>2. CASE ~SameLoop
    <3>1. Len(pending) = 1 /\ pending[1] = Functor("establishConnection", None)
      BY <2>2 DEF Init
    <3>2. pending[1].op # "sendInLoop" /\ pending[1].msg = None
      BY ONLY <3>1 DEF Functor
    <3>3. QED
      BY <3>1, <3>2 DEF FromThreads, Sorted, Msgs
  <2>3. QED
    BY <2>1, <2>2
<1>7. None \in AnyMessage /\ None.n = 0
  BY DEF None, AnyMessage
<1>8. Line(Sent(Stream), Msgs(functors), Msgs(pending), Calling, calls)
  <2>1. Sent(Stream) \cup Msgs(functors) \cup Msgs(pending) \cup Calling \subseteq {None}
    BY <1>3, <1>4, <1>5, <1>6, Zenon
  <2>2. /\ AllBefore(Sent(Stream), Msgs(functors) \cup Msgs(pending) \cup Calling)
        /\ AllBefore(Msgs(functors), Msgs(pending) \cup Calling) /\ AllBefore(Msgs(pending), Calling)
    BY <1>3, <1>4, <1>5, Zenon DEF AllBefore
  <2>3. QED
    BY <1>1, <1>7, <2>1, <2>2 DEF Line
<1>9. wire \in Seq(Bytes) /\ outputBuffer_ \in Seq(Bytes)
  BY <1>1, EmptySeq
<1>10. QED
  BY <1>3, <1>4, <1>5, <1>6, <1>8, <1>9, Zenon DEF InOrder

\* The byte stream is whole messages, each sender's in order, for any threads and calls
\* (TcpConnection.cc:137-167, 208-248).
THEOREM StreamIntact == Spec => []MessagesIntact
<1>1. InOrder => MessagesIntact
  BY Zenon DEF InOrder, Intact, MessagesIntact
<1>2. QED
  BY <1>1, InOrderInit, InOrderInductive, Invariant, PTL DEF Spec
================================================================================
