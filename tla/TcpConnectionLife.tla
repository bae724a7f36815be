--------------------------- MODULE TcpConnectionLife ---------------------------
(***************************************************************************)
(* Which assertions a connection can fail and what the server's destructor *)
(* leaves of it, for any threads, any calls and any high-water mark.       *)
(***************************************************************************)
EXTENDS TcpConnectionProofs

USE ThreadsAssumption, CallsAssumption, BoundsAssumption, ServerAssumption

--------------------------------------------------------------------------------
(* AbortsExplained and ServerDestroysOpen.                                 *)

Lacks(q, op) == \A i \in 1..Len(q) : q[i].op # op
Establish == Functor("establishConnection", None)

\* Before establishConnection nothing has happened to the connection.
NotUp ==
    /\ state_ = "kConnecting" /\ channel_ = NewChannel /\ closes = 0 /\ downs = 0
    /\ baseQueue = << >> /\ \A t \in Threads : caller[t].at = "idle"
    /\ IF SameLoop
       THEN phase = "channels" /\ todo = <<"accept">> /\ pending = << >> /\ functors = << >>
       ELSE /\ todo = << >>
            /\ \/ phase \in {"poll", "channels"} /\ pending = <<Establish>> /\ functors = << >>
               \/ phase = "functors" /\ pending = << >> /\ functors = <<Establish>>

Events == {"accept", "close", "error", "read", "eof", "write"}
Ends == {"close", "eof"}
NoEnd(q) == \A i \in 1..Len(q) : q[i] \notin Ends
Once(q) == \A i, j \in 1..Len(q) : q[i] \in Ends /\ q[j] \in Ends => i = j
NoAccept(q) == \A i \in 1..Len(q) : q[i] # "accept"

\* It is established once, and one poll closes it at most once.
UpOnce ==
    /\ todo \in Seq(Events) /\ Once(todo) /\ (phase # "channels" => todo = << >>)
    /\ ups = 0 => NotUp
    /\ ups # 0 => /\ ups = 1 /\ NoAccept(todo)
                  /\ Lacks(pending, "establishConnection") /\ Lacks(functors, "establishConnection")

\* One close makes one destoryConnection: it is asked for on the base loop, queued, or in
\* the batch, and until it is run the channel is the epoller's.
AtMostOne(q) == \A i, j \in 1..Len(q) :
                   q[i].op = "destoryConnection" /\ q[j].op = "destoryConnection" => i = j
OneDestroy ==
    /\ AtMostOne(pending) /\ AtMostOne(functors) /\ Len(baseQueue) <= 1
    /\ NoDestroy(pending) \/ (NoDestroy(functors) /\ baseQueue = << >>)
    /\ NoDestroy(functors) \/ baseQueue = << >>
    /\ (NoDestroy(pending) /\ NoDestroy(functors) /\ baseQueue = << >>) \/ channel_.status # "kNew"

\* What the channel is, up and not closed, and closed.
ChannelFollows ==
    /\ ups # 0 /\ closes = 0 /\ phase # "stopped" => channel_.reading /\ channel_.status = "kAdded"
    /\ closes # 0 =>
         /\ ups # 0 /\ ~channel_.reading /\ state_ # "kConnected"
         /\ channel_.writing =>
              /\ outputBuffer_ # << >>
              /\ \A i \in 1..Len(outputBuffer_) : outputBuffer_[i][1].from \in Threads

\* Without other threads it is closed at most once.
ClosedOnce ==
    Threads = {} =>
        /\ closes <= 1
        /\ closes = 1 => state_ = "kDisconnected" /\ channel_.status # "kAdded" /\ NoEnd(todo)

\* The connection is in connections_ until its close, when the server is on its loop.
InMapOpen ==
    /\ baseQueue \in Seq({"removeConnectionInLoop"})
    /\ SameLoop => baseQueue = << >> /\ (inMap => closes = 0 /\ phase # "stopped")
    /\ phase = "stopped" => SameLoop

Life ==
    /\ UpOnce /\ ChannelFollows /\ ClosedOnce
    /\ closes = 1 => OneDestroy
    /\ InMapOpen /\ AbortsExplained /\ ServerDestroysOpen

\* Before establishConnection, a step leaves the connection as it is or is
\* establishConnection.
LEMMA BeforeUp ==
  ASSUME NotUp, ups = 0, [Next]_vars
  PROVE  /\ UNCHANGED <<closes, downs, baseQueue, inMap>>
         /\ \/ NotUp' /\ ups' = 0 /\ aborted' = aborted
            \/ /\ ups' = 1 /\ channel_' = enableReading(NewChannel) /\ phase' # "stopped"
               /\ todo' = << >> /\ pending' = << >> /\ functors' = << >> /\ aborted' = aborted
<1> USE DEF loopVars, serverVars, connVars, historyVars
<1> DEFINE Goal == /\ UNCHANGED <<closes, downs, baseQueue, inMap>>
                   /\ \/ NotUp' /\ ups' = 0 /\ aborted' = aborted
                      \/ /\ ups' = 1 /\ channel_' = enableReading(NewChannel) /\ phase' # "stopped"
                         /\ todo' = << >> /\ pending' = << >> /\ functors' = << >> /\ aborted' = aborted
<1> SUFFICES Goal
  OBVIOUS
<1>0. /\ channel_.status = "kNew" /\ phase # "callback" /\ phase # "stopped"
      /\ \A op : functors # << >> /\ Head(functors).op = op => op = "establishConnection" /\ Tail(functors) = << >>
      /\ \A cb : todo # << >> /\ Head(todo) = cb => cb = "accept" /\ Tail(todo) = << >>
  <2>1. channel_.status = "kNew" /\ phase # "callback" /\ phase # "stopped"
    BY DEF NotUp, NewChannel
  <2>2. /\ functors = << >> \/ functors = <<Establish>>
        /\ todo = << >> \/ todo = <<"accept">>
    BY DEF NotUp
  <2>3. Establish.op = "establishConnection"
    BY DEF Establish, Functor
  <2>4. \A x : Head(<<x>>) = x /\ Tail(<<x>>) = << >>
    OBVIOUS
  <2>5. QED
    BY <2>1, <2>2, <2>3, <2>4, Zenon
<1>1. ASSUME UNCHANGED <<connVars, loopVars, pending, serverVars, caller, historyVars, aborted>> PROVE Goal
  BY <1>1 DEF NotUp
<1>2. ASSUME NEW data \in BOOLEAN, NEW out \in BOOLEAN, Poll(data, out) PROVE Goal
  <2>1. ~data /\ ~out /\ ~Registered
    BY <1>0, <1>2 DEF Poll, Registered
  <2>2. todo' = << >>
    BY <1>2, <2>1 DEF Poll
  <2>3. phase = "poll" /\ phase' = "channels" /\ UNCHANGED <<connVars, functors, pending, serverVars, caller, historyVars, aborted>>
    BY <1>2 DEF Poll, OnLoop
  <2>4. QED
    BY <2>2, <2>3 DEF NotUp
<1>3. CASE CloseEvent \/ ErrorEvent \/ ReadEvent \/ WriteEvent
  BY <1>0, <1>3 DEF CloseEvent, ErrorEvent, ReadEvent, WriteEvent, NextCallback
<1>4. CASE SwapFunctors
  <2>1. /\ phase = "channels" /\ todo = << >> /\ phase' = "functors" /\ functors' = pending /\ pending' = << >>
        /\ UNCHANGED <<connVars, todo, serverVars, caller, historyVars, aborted>>
    BY <1>4 DEF SwapFunctors, OnLoop
  <2>2. ~SameLoop /\ pending = <<Establish>>
    BY <2>1 DEF NotUp
  <2>3. QED
    BY <2>1, <2>2 DEF NotUp
<1>5. CASE EstablishConnection
  <2>1. ups' = 1 /\ channel_' = enableReading(NewChannel) /\ UNCHANGED <<pending, serverVars, downs, closes, aborted>>
    BY <1>5 DEF EstablishConnection, establishConnection, NotUp, NextCallback
  <2>2. CASE NextCallback("accept")
    <3>1. phase = "channels" /\ todo # << >> /\ Head(todo) = "accept" /\ todo' = Tail(todo) /\ UNCHANGED <<phase, functors>>
      BY <2>2 DEF NextCallback, OnLoop
    <3>2. SameLoop
      BY <3>1 DEF NotUp
    <3>3. pending = << >> /\ functors = << >> /\ todo' = << >>
      BY <1>0, <3>1, <3>2 DEF NotUp
    <3>4. QED
      BY <2>1, <3>1, <3>3
  <2>3. CASE NextFunctor("establishConnection") /\ phase' = "callback"
    <3>1. phase = "functors" /\ functors # << >> /\ functors' = Tail(functors) /\ UNCHANGED todo
          /\ Head(functors).op = "establishConnection"
      BY <2>3 DEF NextFunctor, OnLoop
    <3>2. ~SameLoop
      BY <3>1 DEF NotUp
    <3>3. pending = << >> /\ functors' = << >> /\ todo = << >>
      BY <1>0, <3>1, <3>2 DEF NotUp
    <3>4. QED
      BY <2>1, <2>3, <3>1, <3>3
  <2>4. QED
    BY <1>5, <2>2, <2>3 DEF EstablishConnection
<1>6. CASE DestoryConnection \/ SendInLoop \/ ShutdownInLoop \/ ForceCloseInLoop \/ UserFunctor
  BY <1>0, <1>6
    DEF DestoryConnection, SendInLoop, ShutdownInLoop, ForceCloseInLoop, UserFunctor, NextFunctor
<1>7. CASE EndFunctors
  BY <1>7 DEF EndFunctors, OnLoop, NotUp
<1>8. CASE UserReturns \/ UserSend \/ UserShutdown \/ UserForceClose
  <2>1. phase = "callback" \/ ups > 0
    BY <1>8 DEF UserReturns, UserSend, UserShutdown, UserForceClose, UserCalls, OnLoop
  <2>2. QED
    BY <1>0, <2>1
<1>9. ASSUME NEW t \in Threads, NEW call \in ThreadCalls, CheckState(t, call) PROVE Goal
  BY <1>9 DEF CheckState
<1>10. ASSUME NEW t \in Threads, StoreState(t) \/ QueueInLoop(t) PROVE Goal
  BY <1>10 DEF StoreState, QueueInLoop, Step, NotUp
<1>11. CASE RemoveConnectionInLoop \/ ServerDestructs
  BY <1>11 DEF RemoveConnectionInLoop, ServerDestructs, NotUp
<1>12. ASSUME NEW how, PeerCloses(how) PROVE Goal
  BY <1>1, <1>12 DEF PeerCloses
<1>13. CASE UNCHANGED vars
  BY <1>1, <1>13 DEF vars
<1> HIDE DEF Goal
<1>14. QED
  BY <1>2, <1>3, <1>4, <1>5, <1>6, <1>7, <1>8, <1>9, <1>10, <1>11, <1>12, <1>13 DEF Next, LoopStep

--------------------------------------------------------------------------------
(* UpOnce.                                                                 *)

\* The first callback taken.
LEMMA TodoTail ==
  ASSUME NEW q \in Seq(Events), q # << >>
  PROVE  /\ Tail(q) \in Seq(Events)
         /\ NoAccept(q) => NoAccept(Tail(q)) /\ Head(q) # "accept"
         /\ NoEnd(q) => NoEnd(Tail(q)) /\ Head(q) \notin Ends
         /\ Once(q) => Once(Tail(q)) /\ (Head(q) \in Ends => NoEnd(Tail(q)))
<1>1. /\ Tail(q) \in Seq(Events) /\ Len(Tail(q)) = Len(q) - 1 /\ Len(q) \in Nat \ {0}
      /\ \A i \in 1..Len(Tail(q)) : Tail(q)[i] = q[i + 1]
      /\ Head(q) = q[1]
  BY HeadTailProperties, LenProperties, EmptySeq
<1>2. \A i \in 1..Len(Tail(q)) : i + 1 \in 1..Len(q) /\ i + 1 # 1
  BY <1>1
<1>3. 1 \in 1..Len(q)
  BY <1>1
<1>4. NoAccept(q) => NoAccept(Tail(q)) /\ Head(q) # "accept"
  BY <1>1, <1>2, <1>3 DEF NoAccept
<1>5. NoEnd(q) => NoEnd(Tail(q)) /\ Head(q) \notin Ends
  BY <1>1, <1>2, <1>3 DEF NoEnd
<1>6. ASSUME Once(q) PROVE Once(Tail(q)) /\ (Head(q) \in Ends => NoEnd(Tail(q)))
  <2>1. ASSUME NEW i \in 1..Len(Tail(q)), NEW j \in 1..Len(Tail(q)), Tail(q)[i] \in Ends, Tail(q)[j] \in Ends
        PROVE  i = j
    <3>1. i + 1 = j + 1
      BY <1>1, <1>2, <1>6, <2>1 DEF Once
    <3>2. QED
      BY <3>1
  <2>2. ASSUME Head(q) \in Ends, NEW i \in 1..Len(Tail(q)) PROVE Tail(q)[i] \notin Ends
    BY <1>1, <1>2, <1>3, <1>6, <2>2 DEF Once
  <2>3. QED
    BY <2>1, <2>2 DEF Once, NoEnd
<1>7. QED
  BY <1>1, <1>4, <1>5, <1>6

\* Lists of callbacks put together.
LEMMA TodoConcat ==
  ASSUME NEW p \in Seq(Events), NEW q \in Seq(Events), NoAccept(p), NoAccept(q),
         NoEnd(p) \/ NoEnd(q), Once(p), Once(q)
  PROVE  /\ p \o q \in Seq(Events) /\ NoAccept(p \o q) /\ Once(p \o q)
         /\ NoEnd(p) /\ NoEnd(q) => NoEnd(p \o q)
<1> DEFINE r == p \o q
<1>1. /\ r \in Seq(Events) /\ Len(r) = Len(p) + Len(q) /\ Len(p) \in Nat /\ Len(q) \in Nat
      /\ \A i \in 1..Len(p) + Len(q) : r[i] = IF i <= Len(p) THEN p[i] ELSE q[i - Len(p)]
  BY ONLY p \in Seq(Events), q \in Seq(Events), ConcatProperties, LenProperties
<1> HIDE DEF r
<1>2. \A i \in 1..Len(r) : \/ i \in 1..Len(p) /\ r[i] = p[i]
                           \/ i - Len(p) \in 1..Len(q) /\ r[i] = q[i - Len(p)]
  BY <1>1
<1>3. NoAccept(r) /\ (NoEnd(p) /\ NoEnd(q) => NoEnd(r))
  BY <1>2, Zenon DEF NoAccept, NoEnd
<1>4. Once(r)
  <2> SUFFICES ASSUME NEW i \in 1..Len(r), NEW j \in 1..Len(r), r[i] \in Ends, r[j] \in Ends
               PROVE  i = j
    BY DEF Once
  <2>1. CASE NoEnd(p)
    <3>1. /\ i - Len(p) \in 1..Len(q) /\ q[i - Len(p)] \in Ends
          /\ j - Len(p) \in 1..Len(q) /\ q[j - Len(p)] \in Ends
      BY <1>2, <2>1, Zenon DEF NoEnd
    <3>2. i - Len(p) = j - Len(p)
      BY <3>1, Zenon DEF Once
    <3>3. QED
      BY <1>1, <3>2
  <2>2. CASE NoEnd(q)
    BY <1>2, <2>2, Zenon DEF NoEnd, Once
  <2>3. QED
    BY <2>1, <2>2
<1>5. QED
  BY <1>1, <1>3, <1>4 DEF r

\* One poll reports the end of a connection once, and only of a registered channel.
LEMMA PollTodo ==
  ASSUME NEW data \in BOOLEAN, NEW out \in BOOLEAN, Poll(data, out)
  PROVE  /\ todo' \in Seq(Events) /\ NoAccept(todo') /\ Once(todo')
         /\ ~Registered => NoEnd(todo')
<1> DEFINE eof == Registered /\ channel_.reading /\ peer # "open"
           err == Registered /\ peer = "err"
           hup == Registered /\ (peer \in {"err", "rst"} \/ (peer = "fin" /\ finSent))
           If(cond, cb) == IF cond THEN <<cb>> ELSE << >>
           a == If(hup /\ ~eof, "close")
           b == If(err, "error")
           c == If(data, "read")
           d == If(eof, "eof")
           e == If(out, "write")
<1>1. todo' = a \o b \o c \o d \o e
  BY DEF Poll
<1>2. ASSUME NEW cb \in Events \ {"accept"}
      PROVE  /\ <<cb>> \in Seq(Events) /\ NoAccept(<<cb>>) /\ Once(<<cb>>)
             /\ cb \notin Ends => NoEnd(<<cb>>)
             /\ << >> \in Seq(Events) /\ NoAccept(<< >>) /\ Once(<< >>) /\ NoEnd(<< >>)
  BY DEF NoAccept, Once, NoEnd
<1>3. /\ "close" \in Events \ {"accept"} /\ "eof" \in Events \ {"accept"}
      /\ "error" \in Events \ {"accept"} /\ "error" \notin Ends
      /\ "read" \in Events \ {"accept"} /\ "read" \notin Ends
      /\ "write" \in Events \ {"accept"} /\ "write" \notin Ends
  BY DEF Events, Ends
<1>4. /\ a \in Seq(Events) /\ NoAccept(a) /\ Once(a) /\ (eof \/ ~Registered => NoEnd(a))
      /\ b \in Seq(Events) /\ NoAccept(b) /\ Once(b) /\ NoEnd(b)
      /\ c \in Seq(Events) /\ NoAccept(c) /\ Once(c) /\ NoEnd(c)
      /\ d \in Seq(Events) /\ NoAccept(d) /\ Once(d) /\ (~eof => NoEnd(d))
      /\ e \in Seq(Events) /\ NoAccept(e) /\ Once(e) /\ NoEnd(e)
  BY <1>2, <1>3
<1>5. ~Registered => ~eof
  OBVIOUS
<1> HIDE DEF a, b, c, d, e, eof
<1>6. a \o b \in Seq(Events) /\ NoAccept(a \o b) /\ Once(a \o b) /\ (eof \/ ~Registered => NoEnd(a \o b))
  BY <1>4, TodoConcat
<1>7. /\ a \o b \o c \in Seq(Events) /\ NoAccept(a \o b \o c) /\ Once(a \o b \o c)
      /\ (eof \/ ~Registered => NoEnd(a \o b \o c))
  BY <1>4, <1>6, TodoConcat, Zenon
<1>8. /\ a \o b \o c \o d \in Seq(Events) /\ NoAccept(a \o b \o c \o d) /\ Once(a \o b \o c \o d)
      /\ (~Registered => NoEnd(a \o b \o c \o d))
  BY <1>4, <1>5, <1>7, TodoConcat, Zenon
<1>9. QED
  BY <1>1, <1>4, <1>8, TodoConcat, Zenon

\* A functor appended and taken.
LEMMA LacksKeeps ==
  ASSUME NEW q \in Seq(AnyFunctor), NEW op, Lacks(q, op)
  PROVE  /\ \A f \in AnyFunctor : f.op # op => Lacks(Append(q, f), op)
         /\ q # << >> => Lacks(Tail(q), op) /\ Head(q).op # op
<1>1. ASSUME NEW f \in AnyFunctor, f.op # op PROVE Lacks(Append(q, f), op)
  <2>1. /\ Len(q) \in Nat /\ Len(Append(q, f)) = Len(q) + 1
        /\ Append(q, f)[Len(q) + 1] = f /\ \A i \in 1..Len(q) : Append(q, f)[i] = q[i]
    BY AppendProperties, LenProperties
  <2>2. QED
    BY <1>1, <2>1 DEF Lacks
<1>2. ASSUME q # << >> PROVE Lacks(Tail(q), op) /\ Head(q).op # op
  <2>1. /\ Len(Tail(q)) = Len(q) - 1 /\ Len(q) \in Nat \ {0} /\ Head(q) = q[1]
        /\ \A i \in 1..(Len(q) - 1) : Tail(q)[i] = q[i + 1]
    BY <1>2, HeadTailProperties, LenProperties, EmptySeq
  <2>2. QED
    BY <2>1 DEF Lacks
<1>3. QED
  BY <1>1, <1>2

\* A connection that is up is not established again.
LEMMA NoSecondUp ==
  ASSUME ClosedFirst, UpOnce, ups # 0
  PROVE  ~EstablishConnection
<1>1. /\ functors \in Seq(AnyFunctor) /\ Lacks(functors, "establishConnection")
      /\ todo \in Seq(Events) /\ NoAccept(todo)
  BY DEF ClosedFirst, UpOnce
<1>2. /\ functors # << >> => Head(functors).op # "establishConnection"
      /\ todo # << >> => Head(todo) # "accept"
  BY <1>1, LacksKeeps, TodoTail
<1>3. QED
  BY <1>2 DEF EstablishConnection, NextCallback, NextFunctor

\* What a step does to a connection's queues once it is up.
UpAppends ==
    \/ pending' = pending
    \/ \E f \in AnyFunctor : f.op # "establishConnection" /\ pending' = Append(pending, f)
UpTodo ==
    \/ todo' = todo /\ (phase' = "channels" \/ phase # "channels" \/ todo = << >>)
    \/ todo # << >> /\ todo' = Tail(todo) /\ phase' = phase
    \/ todo' \in Seq(Events) /\ NoAccept(todo') /\ Once(todo') /\ phase' = "channels"

\* A step that does not call establishConnection queues no second call of it.
LEMMA UpOnceKept ==
  ASSUME ClosedFirst, UpOnce, ups # 0, ups' = ups, UpAppends, UpTodo,
         Takes \/ functors' = pending
  PROVE  UpOnce'
<1>1. /\ pending \in Seq(AnyFunctor) /\ functors \in Seq(AnyFunctor) /\ ups' = 1 /\ ups' # 0
      /\ Lacks(pending, "establishConnection") /\ Lacks(functors, "establishConnection")
      /\ todo \in Seq(Events) /\ NoAccept(todo) /\ Once(todo) /\ (phase # "channels" => todo = << >>)
  BY DEF ClosedFirst, UpOnce
<1>2. Lacks(pending', "establishConnection")
  BY <1>1, LacksKeeps, Zenon DEF UpAppends
<1>3. Lacks(functors', "establishConnection")
  BY <1>1, LacksKeeps, Zenon DEF Takes
<1>4. todo' \in Seq(Events) /\ NoAccept(todo') /\ Once(todo') /\ (phase' # "channels" => todo' = << >>)
  BY <1>1, TodoTail, Zenon DEF UpTodo
<1>5. QED
  BY <1>1, <1>2, <1>3, <1>4 DEF UpOnce

\* What is queued with no message is no establishConnection.
LEMMA PlainIsUp ==
  /\ \A op \in Ops \ {"establishConnection"} : pending' = Append(pending, Functor(op, None)) => UpAppends
  /\ handleClose => UpAppends /\ ups' = ups
  /\ \A m : sendInLoop(m) => UpAppends /\ ups' = ups
<1>1. ASSUME NEW op \in Ops \ {"establishConnection"}, pending' = Append(pending, Functor(op, None))
      PROVE  UpAppends
  <2>1. Functor(op, None) \in AnyFunctor /\ Functor(op, None).op # "establishConnection"
    BY DEF Functor, AnyFunctor, AnyMessage, None
  <2>2. QED
    BY <1>1, <2>1 DEF UpAppends
<1>2. /\ "destoryConnection" \in Ops \ {"establishConnection"}
      /\ "writeCompleteCallback" \in Ops \ {"establishConnection"}
      /\ "highWaterMarkCallback" \in Ops \ {"establishConnection"}
  BY DEF Ops
<1>3. ASSUME handleClose PROVE UpAppends /\ ups' = ups
  <2>1. ups' = ups /\ (pending' = pending \/ pending' = Append(pending, Functor("destoryConnection", None)))
    BY <1>3 DEF handleClose, removeConnection, QueueDestory
  <2>2. QED
    BY <1>1, <1>2, <2>1 DEF UpAppends
<1>4. ASSUME NEW m, sendInLoop(m) PROVE UpAppends /\ ups' = ups
  <2>1. /\ ups' = ups
        /\ \/ pending' = pending
           \/ pending' = Append(pending, Functor("writeCompleteCallback", None))
           \/ pending' = Append(pending, Functor("highWaterMarkCallback", None))
    BY <1>4 DEF sendInLoop
  <2>2. QED
    BY <1>1, <1>2, <2>1 DEF UpAppends
<1>5. QED
  BY <1>1, <1>3, <1>4

\* Every step keeps UpOnce.
LEMMA UpOnceInductive == ClosedFirst /\ UpOnce /\ ups # 0 /\ [Next]_vars => UpOnce' /\ ups' = ups
<1> SUFFICES ASSUME ClosedFirst, UpOnce, ups # 0, [Next]_vars PROVE UpOnce' /\ ups' = ups
  OBVIOUS
<1> USE DEF loopVars, serverVars, connVars, historyVars
<1>1. ASSUME ups' = ups, UpAppends, UpTodo, Takes \/ functors' = pending
      PROVE  UpOnce' /\ ups' = ups
  BY <1>1, UpOnceKept
<1>2. CASE UNCHANGED <<ups, todo, pending, functors>> /\ (phase' = phase \/ phase # "channels")
  BY <1>1, <1>2 DEF UpAppends, UpTodo, Takes, UpOnce
<1>3. ASSUME NEW data \in BOOLEAN, NEW out \in BOOLEAN, Poll(data, out) PROVE UpOnce' /\ ups' = ups
  <2>1. UpTodo
    BY <1>3, PollTodo, Zenon DEF UpTodo, Poll
  <2>2. QED
    BY <1>1, <1>3, <2>1 DEF Poll, UpAppends, Takes
<1>4. CASE CloseEvent
  BY <1>1, <1>4, PlainIsUp DEF CloseEvent, NextCallback, UpTodo, Takes
<1>5. CASE ErrorEvent
  BY <1>1, <1>5 DEF ErrorEvent, NextCallback, UpTodo, UpAppends, Takes
<1>6. CASE ReadEvent
  BY <1>1, <1>6, PlainIsUp DEF ReadEvent, NextCallback, UpTodo, UpAppends, Takes
<1>7. CASE WriteEvent
  <2>1. /\ UNCHANGED <<functors, ups, phase>> /\ todo # << >> /\ todo' = Tail(todo)
        /\ pending' = pending \/ pending' = Append(pending, Functor("writeCompleteCallback", None))
    BY <1>7 DEF WriteEvent, NextCallback
  <2>2. UpAppends
    BY <2>1, PlainIsUp DEF UpAppends, Ops
  <2>3. QED
    BY <1>1, <2>1, <2>2 DEF UpTodo, Takes
<1>8. CASE SwapFunctors
  <2>1. functors' = pending /\ pending' = << >> /\ UNCHANGED <<ups, todo>> /\ todo = << >>
    BY <1>8 DEF SwapFunctors
  <2>2. Lacks(pending', "establishConnection")
    BY <2>1 DEF Lacks
  <2>3. QED
    BY <2>1, <2>2 DEF UpOnce
<1>9. CASE EstablishConnection
  BY <1>9, NoSecondUp
<1>10. CASE DestoryConnection
  BY <1>1, <1>10
    DEF DestoryConnection, destoryConnection, NextFunctor, OnLoop, UpAppends, UpTodo, Takes
<1>11. CASE SendInLoop
  BY <1>1, <1>11, PlainIsUp DEF SendInLoop, NextFunctor, OnLoop, UpTodo, Takes
<1>12. CASE ShutdownInLoop
  BY <1>1, <1>12 DEF ShutdownInLoop, NextFunctor, OnLoop, UpAppends, UpTodo, Takes
<1>13. CASE ForceCloseInLoop
  BY <1>1, <1>13, PlainIsUp DEF ForceCloseInLoop, NextFunctor, OnLoop, UpAppends, UpTodo, Takes
<1>14. CASE UserFunctor
  BY <1>1, <1>14 DEF UserFunctor, NextFunctor, OnLoop, UpAppends, UpTodo, Takes
<1>15. CASE EndFunctors \/ UserReturns
  BY <1>2, <1>15 DEF EndFunctors, UserReturns, OnLoop
<1>16. CASE UserSend
  BY <1>1, <1>16, PlainIsUp DEF UserSend, UserCalls, UpTodo, Takes, UpOnce
<1>17. CASE UserShutdown
  BY <1>2, <1>17 DEF UserShutdown, UserCalls
<1>18. CASE UserForceClose
  BY <1>1, <1>18, PlainIsUp DEF UserForceClose, UserCalls, UpTodo, Takes, Ops, UpOnce
<1>19. ASSUME NEW t \in Threads, NEW call \in ThreadCalls, CheckState(t, call) PROVE UpOnce' /\ ups' = ups
  BY <1>2, <1>19 DEF CheckState, Step
<1>20. ASSUME NEW t \in Threads, StoreState(t) PROVE UpOnce' /\ ups' = ups
  BY <1>2, <1>20 DEF StoreState, Step
<1>21. ASSUME NEW t \in Threads, QueueInLoop(t) PROVE UpOnce' /\ ups' = ups
  <2> DEFINE f == Functor(InLoop(caller[t].call), caller[t].msg)
  <2>1. caller[t].at = "queue" /\ pending' = Append(pending, f) /\ UNCHANGED <<ups, todo, functors, phase>>
    BY <1>21 DEF QueueInLoop, Step
  <2>2. caller[t].call \in Calls /\ caller[t].msg \in AnyMessage
    BY <2>1 DEF ClosedFirst
  <2>3. InLoop(caller[t].call) \in Ops /\ InLoop(caller[t].call) # "establishConnection"
    BY <2>2 DEF InLoop, Calls, Ops
  <2>4. f \in AnyFunctor /\ f.op # "establishConnection"
    BY <2>2, <2>3, FunctorsMade
  <2> HIDE DEF f
  <2>5. QED
    BY <1>1, <2>1, <2>4 DEF UpAppends, UpTodo, Takes, UpOnce
<1>22. CASE RemoveConnectionInLoop
  BY <1>1, <1>22, PlainIsUp DEF RemoveConnectionInLoop, QueueDestory, UpTodo, Takes, Ops, UpOnce
<1>23. CASE ServerDestructs
  BY <1>2, <1>23 DEF ServerDestructs, destoryConnection, OnLoop
<1>24. ASSUME NEW how, PeerCloses(how) PROVE UpOnce' /\ ups' = ups
  BY <1>2, <1>24 DEF PeerCloses
<1>25. CASE UNCHANGED vars
  BY <1>2, <1>25 DEF vars
<1>26. QED
  BY <1>3, <1>4, <1>5, <1>6, <1>7, <1>8, <1>9, <1>10, <1>11, <1>12, <1>13, <1>14, <1>15, <1>16,
     <1>17, <1>18, <1>19, <1>20, <1>21, <1>22, <1>23, <1>24, <1>25 DEF Next, LoopStep

--------------------------------------------------------------------------------
(* ChannelFollows.                                                         *)

\* What the channel's operations do to reading and to its place in the epoller.
LEMMA ChannelPlaces ==
  ASSUME NEW c \in Channels
  PROVE  /\ enableReading(c).reading /\ (c.status # "kAdded" => enableReading(c).status = "kAdded")
         /\ enableWriting(c).reading = c.reading /\ enableWriting(c).status # "kNew"
         /\ disableWriting(c).reading = c.reading /\ disableWriting(c).status # "kNew"
         /\ c.reading /\ c.status = "kAdded" =>
              enableWriting(c).status = "kAdded" /\ disableWriting(c).status = "kAdded"
         /\ ~disableAll(c).reading /\ ~disableAll(c).writing /\ disableAll(c).status # "kNew"
         /\ c.status = "kAdded" => disableAll(c).status = "kDismissed"
<1>1. ASSUME NEW d \in Channels
      PROVE  /\ updateChannel(d).reading = d.reading /\ updateChannel(d).writing = d.writing
             /\ updateChannel(d).status =
                  IF d.status # "kAdded" THEN "kAdded"
                  ELSE IF ~d.reading /\ ~d.writing THEN "kDismissed" ELSE "kAdded"
  BY DEF updateChannel, isNoneEvent, Channels
<1> DEFINE a == [c EXCEPT !.reading = TRUE]
           b == [c EXCEPT !.writing = TRUE]
           d == [c EXCEPT !.writing = FALSE]
           e == [c EXCEPT !.reading = FALSE, !.writing = FALSE]
<1>2. /\ a \in Channels /\ a.reading = TRUE /\ a.status = c.status
      /\ b \in Channels /\ b.writing = TRUE /\ b.reading = c.reading /\ b.status = c.status
      /\ d \in Channels /\ d.writing = FALSE /\ d.reading = c.reading /\ d.status = c.status
      /\ e \in Channels /\ e.writing = FALSE /\ e.reading = FALSE /\ e.status = c.status
  BY Zenon DEF Channels
<1>3. /\ enableReading(c) = updateChannel(a) /\ enableWriting(c) = updateChannel(b)
      /\ disableWriting(c) = updateChannel(d) /\ disableAll(c) = updateChannel(e)
  BY DEF enableReading, enableWriting, disableWriting, disableAll
<1> HIDE DEF a, b, d, e
<1>4. QED
  BY <1>1, <1>2, <1>3

\* A step that leaves the channel and the buffer alone.
LEMMA SameChannel ==
  ASSUME ChannelFollows, ups # 0, UNCHANGED <<channel_, outputBuffer_, ups, closes>>,
         state_' = state_ \/ state_' # "kConnected", phase' = "stopped" \/ phase # "stopped" \/ phase' = phase
  PROVE  ChannelFollows'
  BY DEF ChannelFollows

\* A close.
LEMMA CloseFollows ==
  ASSUME ClosedFirst, Watched, ups # 0, handleClose
  PROVE  /\ ChannelFollows' /\ channel_'.status # "kNew" /\ state_' = "kDisconnected"
         /\ channel_.status = "kAdded" => channel_'.status = "kDismissed"
         /\ closes' = closes + 1 /\ closes' # 0
<1>1. /\ state_' = "kDisconnected" /\ channel_' = disableAll(channel_) /\ closes' = closes + 1
      /\ ups' = ups /\ closes \in Nat /\ channel_ \in Channels
  BY DEF handleClose, removeConnection, ClosedFirst, Watched
<1>2. ~channel_'.reading /\ ~channel_'.writing /\ channel_'.status # "kNew"
      /\ (channel_.status = "kAdded" => channel_'.status = "kDismissed")
  BY <1>1, ChannelPlaces
<1>3. QED
  BY <1>1, <1>2 DEF ChannelFollows

\* A message sent: after the close it is one of another thread.
LEMMA SendFollows ==
  ASSUME ClosedFirst, Watched, ChannelFollows, ups # 0, phase # "stopped", phase' # "stopped",
         NEW m \in AnyMessage, sendInLoop(m), closes = 0 \/ m.from \in Threads
  PROVE  ChannelFollows' /\ (channel_.status # "kNew" => channel_'.status # "kNew")
<1>1. UNCHANGED <<state_, ups, closes>> /\ channel_ \in Channels
  BY DEF sendInLoop, Watched
<1>2. CASE UNCHANGED <<channel_, outputBuffer_>>
  BY <1>1, <1>2, SameChannel
<1>3. ASSUME ~BytesWaiting, NEW n \in WriteResults(2), n # Fault,
             outputBuffer_' = outputBuffer_ \o Drop(Message(m), n),
             channel_' = IF n < 2 THEN enableWriting(channel_) ELSE channel_
      PROVE  ChannelFollows' /\ (channel_.status # "kNew" => channel_'.status # "kNew")
  <2> DEFINE b == Drop(Message(m), n)
  <2>1. n \in 0..2 /\ outputBuffer_ = << >> /\ ~channel_.writing
    BY <1>3 DEF WriteResults, BytesWaiting
  <2>2. /\ Message(m) \in Seq(Bytes) /\ Len(Message(m)) = 2
        /\ Message(m)[1] = <<m, 1>> /\ Message(m)[2] = <<m, 2>>
    BY MessageBytes
  <2>3. \A i \in 1..2 : Message(m)[i][1] = m
    BY <2>2
  <2>4. /\ b \in Seq(Bytes) /\ (n < 2 => b # << >>)
        /\ \A i \in 1..Len(b) : b[i] = Message(m)[i + n] /\ i + n \in 1..2
    <3> DEFINE M == Message(m)
    <3>1. M \in Seq(Bytes) /\ n \in 0..Len(M) /\ Len(M) = 2
      BY <2>1, <2>2
    <3> HIDE DEF M
    <3>2. /\ Drop(M, n) \in Seq(Bytes) /\ (n < 2 => Drop(M, n) # << >>)
          /\ \A i \in 1..Len(Drop(M, n)) : Drop(M, n)[i] = M[i + n] /\ i + n \in 1..2
      BY ONLY <3>1, CutAnywhere, Zenon
    <3>3. QED
      BY <3>2 DEF M
  <2> HIDE DEF b
  <2>5. outputBuffer_' = b
    BY <1>3, <2>1, <2>4, ConcatEmptySeq DEF b
  <2>6. \A i \in 1..Len(b) : b[i][1] = m
    BY <2>3, <2>4
  <2>7. CASE n < 2
    <3>1. channel_' = enableWriting(channel_) /\ outputBuffer_' # << >>
      BY <1>3, <2>4, <2>5, <2>7
    <3>2. /\ channel_'.reading = channel_.reading /\ channel_'.status # "kNew"
          /\ channel_.reading /\ channel_.status = "kAdded" => channel_'.status = "kAdded"
      BY <1>1, <3>1, ChannelPlaces
    <3>3. QED
      BY <1>1, <2>5, <2>6, <3>1, <3>2 DEF ChannelFollows
  <2>8. CASE ~(n < 2)
    <3>1. channel_' = channel_
      BY <1>3, <2>8
    <3>2. QED
      BY <1>1, <2>1, <3>1 DEF ChannelFollows
  <2>9. QED
    BY <2>7, <2>8
<1>4. QED
  BY <1>2, <1>3, Zenon DEF sendInLoop

\* handleWrite: what it leaves after the close is of another thread still.
LEMMA WriteFollows ==
  ASSUME Watched, InOrder, ChannelFollows, ups # 0, WriteEvent
  PROVE  /\ ChannelFollows' /\ (channel_.status # "kNew" => channel_'.status # "kNew")
         /\ state_' \in {state_, "kDisconnected"} /\ (~channel_.writing => channel_' = channel_)
<1> USE DEF connVars, historyVars, serverVars
<1>1. UNCHANGED <<ups, closes, phase>> /\ channel_ \in Channels /\ outputBuffer_ \in Seq(Bytes)
  BY DEF WriteEvent, NextCallback, Watched, InOrder
<1>2. CASE UNCHANGED <<connVars, pending>>
  BY <1>1, <1>2, SameChannel
<1>3. ASSUME channel_.writing, NEW n \in WriteResults(Len(outputBuffer_)) \ {Fault, 0},
             outputBuffer_' = Drop(outputBuffer_, n),
             IF outputBuffer_' # << >>
             THEN UNCHANGED <<state_, channel_, finSent, pending>>
             ELSE /\ channel_' = disableWriting(channel_)
                  /\ AfterDrain(channel_')
      PROVE  /\ ChannelFollows' /\ (channel_.status # "kNew" => channel_'.status # "kNew")
             /\ state_' \in {state_, "kDisconnected"} /\ (~channel_.writing => channel_' = channel_)
  <2>1. n \in 0..Len(outputBuffer_)
    BY <1>3 DEF WriteResults
  <2>2. \A i \in 1..Len(outputBuffer_') : outputBuffer_'[i] = outputBuffer_[i + n] /\ i + n \in 1..Len(outputBuffer_)
    BY ONLY <1>1, <1>3, <2>1, CutAnywhere
  <2>3. CASE outputBuffer_' # << >>
    BY <1>1, <1>3, <2>2, <2>3 DEF ChannelFollows
  <2>4. CASE outputBuffer_' = << >>
    <3>1. channel_' = disableWriting(channel_) /\ state_' \in {state_, "kDisconnected"}
      BY <1>3, <2>4 DEF AfterDrain, shutdownInLoop
    <3>2. /\ channel_'.reading = channel_.reading /\ channel_'.status # "kNew" /\ channel_'.writing = FALSE
          /\ channel_.reading /\ channel_.status = "kAdded" => channel_'.status = "kAdded"
      BY <1>1, <3>1, ChannelPlaces, ChannelOps, Zenon
    <3>3. QED
      BY <1>1, <1>3, <3>1, <3>2 DEF ChannelFollows
  <2>5. QED
    BY <2>3, <2>4
<1>4. QED
  BY <1>2, <1>3, Zenon DEF WriteEvent

\* destoryConnection as a functor, after the close.
LEMMA DestroyFollows ==
  ASSUME ClosedFirst, Watched, ChannelFollows, ups # 0, DestoryConnection
  PROVE  /\ ChannelFollows' /\ closes # 0 /\ closes' = closes
         /\ channel_' = [channel_ EXCEPT !.status = "kNew"] /\ channel_ \in Channels
         /\ UNCHANGED <<state_, outputBuffer_, downs, phase>>
         /\ aborted' = IF ~isNoneEvent(channel_) THEN "isNoneEvent"
                       ELSE IF channel_.status = "kNew" THEN "channelMap" ELSE aborted
<1>1. /\ functors # << >> /\ Head(functors).op = "destoryConnection"
      /\ destoryConnection /\ phase' = phase
  BY DEF DestoryConnection, NextFunctor
<1>2. closes # 0
  BY <1>1, TailKeeps DEF ClosedFirst
<1>3. state_ # "kConnected"
  BY <1>2 DEF ChannelFollows
<1>4. /\ UNCHANGED <<state_, downs, outputBuffer_, ups, closes>> /\ channel_ \in Channels
      /\ channel_' = [channel_ EXCEPT !.status = "kNew"]
      /\ aborted' = IF ~isNoneEvent(channel_) THEN "isNoneEvent"
                    ELSE IF channel_.status = "kNew" THEN "channelMap" ELSE aborted
  BY <1>1, <1>3 DEF destoryConnection, removeChannel, Watched
<1>5. channel_'.reading = channel_.reading /\ channel_'.writing = channel_.writing
  BY <1>4 DEF Channels
<1>6. ChannelFollows'
  BY <1>2, <1>4, <1>5 DEF ChannelFollows
<1>7. QED
  BY <1>1, <1>2, <1>4, <1>6

\* The message of the next functor, when it is a sendInLoop.
LEMMA NextMessage ==
  ASSUME ClosedFirst, InOrder, SendInLoop
  PROVE  Head(functors).msg \in AnyMessage /\ Head(functors).msg.from \in Threads
         /\ sendInLoop(Head(functors).msg)
<1>1. functors # << >> /\ Head(functors).op = "sendInLoop" /\ sendInLoop(Head(functors).msg)
  BY DEF SendInLoop, NextFunctor
<1>2. functors \in Seq(AnyFunctor) /\ FromThreads(functors) /\ Sorted(functors)
  BY DEF ClosedFirst, InOrder
<1>3. QED
  BY <1>1, <1>2, TailSorted, TailKeeps, Zenon DEF AnyFunctor

\* Every step keeps ChannelFollows.
LEMMA ChannelInductive ==
  ASSUME ClosedFirst, Watched, InOrder, UpOnce, ChannelFollows, ups # 0,
         SameLoop => (inMap => closes = 0), [Next]_vars
  PROVE  ChannelFollows'
<1> USE DEF loopVars, serverVars, connVars, historyVars
<1>1. CASE /\ UNCHANGED <<channel_, outputBuffer_, ups, closes>>
           /\ state_' = state_ \/ state_' # "kConnected"
           /\ phase' = phase \/ phase # "stopped"
  BY <1>1, SameChannel
<1>2. ASSUME NEW data, NEW out, Poll(data, out) PROVE ChannelFollows'
  BY <1>1, <1>2 DEF Poll, OnLoop
<1>3. CASE CloseEvent
  BY <1>3, CloseFollows DEF CloseEvent
<1>4. CASE ErrorEvent
  BY <1>1, <1>4 DEF ErrorEvent, NextCallback
<1>5. CASE ReadEvent
  BY <1>1, <1>5, CloseFollows DEF ReadEvent, NextCallback
<1>6. CASE WriteEvent
  BY <1>6, WriteFollows
<1>7. CASE SwapFunctors
  BY <1>1, <1>7 DEF SwapFunctors, OnLoop
<1>8. CASE EstablishConnection
  BY <1>8, NoSecondUp
<1>9. CASE DestoryConnection
  BY <1>9, DestroyFollows
<1>10. CASE SendInLoop
  <2>1. phase # "stopped" /\ phase' # "stopped"
    BY <1>10 DEF SendInLoop, NextFunctor, OnLoop
  <2>2. QED
    BY <1>10, <2>1, NextMessage, SendFollows
<1>11. CASE ShutdownInLoop
  BY <1>1, <1>11 DEF ShutdownInLoop, shutdownInLoop
<1>12. CASE ForceCloseInLoop
  BY <1>1, <1>12, CloseFollows DEF ForceCloseInLoop
<1>13. CASE UserFunctor \/ EndFunctors \/ UserReturns
  BY <1>1, <1>13 DEF UserFunctor, EndFunctors, UserReturns, NextFunctor, OnLoop
<1>14. CASE UserSend
  <2> DEFINE m == [from |-> "loop", n |-> calls']
  <2>1. /\ phase # "stopped" /\ phase' # "stopped" /\ state_ = "kConnected" /\ sendInLoop(m)
        /\ calls' = calls + 1
    BY <1>14 DEF UserSend, UserCalls, OnLoop
  <2>2. m \in AnyMessage /\ closes = 0
    BY <2>1 DEF ClosedFirst, AnyMessage, ChannelFollows
  <2> HIDE DEF m
  <2>3. QED
    BY <2>1, <2>2, SendFollows
<1>15. CASE UserShutdown \/ UserForceClose
  BY <1>1, <1>15 DEF UserShutdown, UserForceClose, UserCalls, shutdownInLoop
<1>16. ASSUME NEW t, NEW call, CheckState(t, call) \/ StoreState(t) \/ QueueInLoop(t)
       PROVE  ChannelFollows'
  BY <1>1, <1>16 DEF CheckState, StoreState, QueueInLoop, Step
<1>17. CASE RemoveConnectionInLoop
  BY <1>1, <1>17 DEF RemoveConnectionInLoop
<1>18. CASE ServerDestructs
  <2>1. CASE SameLoop
    <3>1. inMap /\ phase' = "stopped" /\ closes' = closes /\ closes = 0
      BY <1>18, <2>1 DEF ServerDestructs, destoryConnection
    <3>2. QED
      BY <3>1 DEF ChannelFollows
  <2>2. CASE ~SameLoop
    BY <1>1, <1>18, <2>2 DEF ServerDestructs
  <2>3. QED
    BY <2>1, <2>2
<1>19. ASSUME NEW how, PeerCloses(how) PROVE ChannelFollows'
  BY <1>1, <1>19 DEF PeerCloses
<1>20. CASE UNCHANGED vars
  BY <1>1, <1>20 DEF vars
<1>21. QED
  BY <1>2, <1>3, <1>4, <1>5, <1>6, <1>7, <1>8, <1>9, <1>10, <1>11, <1>12, <1>13, <1>14, <1>15,
     <1>16, <1>17, <1>18, <1>19, <1>20 DEF Next, LoopStep

--------------------------------------------------------------------------------
(* ClosedOnce.                                                             *)

\* Without other threads a close is the first one.
LEMMA FirstClose ==
  ASSUME ClosedFirst, Watched, UpOnce, ChannelFollows, ClosedOnce, Threads = {}, ups # 0,
         phase # "stopped", handleClose, NoEnd(todo'), closes = 0
  PROVE  ClosedOnce'
<1>1. channel_.status = "kAdded"
  BY DEF ChannelFollows
<1>2. closes' = 1 /\ state_' = "kDisconnected" /\ channel_'.status # "kAdded"
  BY <1>1, CloseFollows
<1>3. QED
  BY <1>2 DEF ClosedOnce

\* Every step keeps ClosedOnce.
LEMMA ClosedOnceInductive ==
  ASSUME ClosedFirst, Watched, InOrder, UpOnce, ChannelFollows, ClosedOnce, ups # 0,
         SameLoop => (inMap => closes = 0), [Next]_vars
  PROVE  ClosedOnce'
<1> SUFFICES ASSUME Threads = {} PROVE ClosedOnce'
  BY DEF ClosedOnce
<1> USE DEF loopVars, serverVars, connVars, historyVars
<1>0. /\ closes \in Nat /\ (closes = 0 \/ closes = 1)
      /\ closes = 1 => state_ = "kDisconnected" /\ channel_.status # "kAdded" /\ NoEnd(todo)
      /\ closes = 1 => ~channel_.writing
      /\ todo \in Seq(Events) /\ Once(todo)
  <2>1. /\ closes \in Nat /\ closes <= 1 /\ todo \in Seq(Events) /\ Once(todo)
        /\ closes = 1 => state_ = "kDisconnected" /\ channel_.status # "kAdded" /\ NoEnd(todo)
    BY DEF ClosedFirst, ClosedOnce, UpOnce
  <2>2. ASSUME closes = 1, channel_.writing PROVE FALSE
    <3>1. /\ outputBuffer_ # << >> /\ outputBuffer_ \in Seq(Bytes)
          /\ \A i \in 1..Len(outputBuffer_) : FALSE
      <4>1. outputBuffer_ # << >> /\ \A i \in 1..Len(outputBuffer_) : outputBuffer_[i][1].from \in Threads
        BY <2>1, <2>2 DEF ChannelFollows
      <4>2. outputBuffer_ \in Seq(Bytes)
        BY Zenon DEF InOrder
      <4>3. QED
        BY <4>1, <4>2
    <3>2. QED
      BY <3>1, EmptySeq
  <2>3. QED
    BY <2>1, <2>2
<1>1. CASE /\ UNCHANGED closes
           /\ closes = 1 => /\ state_' \in {state_, "kDisconnected"}
                            /\ channel_' = channel_ \/ channel_'.status # "kAdded"
                            /\ NoEnd(todo')
  BY <1>0, <1>1 DEF ClosedOnce
<1>2. ASSUME NEW data \in BOOLEAN, NEW out \in BOOLEAN, Poll(data, out) PROVE ClosedOnce'
  <2>1. UNCHANGED <<closes, state_, channel_>> /\ (~Registered => NoEnd(todo'))
    BY <1>2, PollTodo, Zenon DEF Poll
  <2>2. QED
    BY <1>0, <1>1, <2>1 DEF Registered
<1>3. ASSUME NEW cb, NextCallback(cb)
      PROVE  /\ phase # "stopped" /\ cb = Head(todo) /\ todo # << >>
             /\ closes = 1 => NoEnd(todo') /\ cb \notin Ends
             /\ cb \in Ends => NoEnd(todo')
  <2>1. phase # "stopped" /\ todo # << >> /\ cb = Head(todo) /\ todo' = Tail(todo)
    BY <1>3 DEF NextCallback, OnLoop
  <2>2. QED
    BY <1>0, <2>1, TodoTail
<1>4. CASE CloseEvent
  BY <1>0, <1>3, <1>4, FirstClose DEF CloseEvent, Ends
<1>5. CASE ErrorEvent
  BY <1>1, <1>3, <1>5 DEF ErrorEvent
<1>6. CASE ReadEvent
  <2>1. PICK cb \in {"read", "eof"} :
          /\ NextCallback(cb)
          /\ (cb = "eof" /\ handleClose) \/ UNCHANGED <<connVars, historyVars>>
    BY <1>6 DEF ReadEvent
  <2>2. CASE cb = "eof" /\ handleClose
    BY <1>0, <1>3, <2>1, <2>2, FirstClose DEF Ends
  <2>3. CASE UNCHANGED <<connVars, historyVars>>
    BY <1>1, <1>3, <2>1, <2>3
  <2>4. QED
    BY <2>1, <2>2, <2>3
<1>7. CASE WriteEvent
  <2>1. closes' = closes /\ NextCallback("write")
    BY <1>7 DEF WriteEvent
  <2>2. QED
    BY <1>0, <1>1, <1>3, <1>7, <2>1, WriteFollows
<1>8. CASE SwapFunctors \/ UserFunctor \/ EndFunctors \/ UserReturns
  BY <1>0, <1>1, <1>8, Zenon DEF SwapFunctors, UserFunctor, EndFunctors, UserReturns, NextFunctor
<1>9. CASE EstablishConnection
  BY <1>9, NoSecondUp
<1>10. CASE DestoryConnection
  <2>1. todo' = todo
    BY <1>10 DEF DestoryConnection, NextFunctor
  <2>2. UNCHANGED <<state_, closes>> /\ channel_'.status # "kAdded"
    BY <1>10, DestroyFollows DEF Channels
  <2>3. QED
    BY <1>0, <1>1, <2>1, <2>2
<1>11. CASE SendInLoop
  BY <1>11, NextMessage
<1>12. CASE ShutdownInLoop
  BY <1>0, <1>1, <1>12 DEF ShutdownInLoop, shutdownInLoop, NextFunctor
<1>13. CASE ForceCloseInLoop
  <2>1. /\ phase # "stopped" /\ todo' = todo /\ todo = << >>
        /\ \/ state_ \in {"kConnected", "kDisconnecting"} /\ handleClose
           \/ UNCHANGED <<connVars, historyVars>>
    BY <1>13 DEF ForceCloseInLoop, NextFunctor, OnLoop, UpOnce
  <2>2. NoEnd(todo')
    BY <2>1 DEF NoEnd
  <2>3. CASE state_ \in {"kConnected", "kDisconnecting"} /\ handleClose
    BY <1>0, <2>1, <2>2, <2>3, FirstClose
  <2>4. CASE UNCHANGED <<connVars, historyVars>>
    BY <1>1, <2>2, <2>4
  <2>5. QED
    BY <2>1, <2>3, <2>4
<1>14. CASE UserSend \/ UserShutdown \/ UserForceClose
  <2>1. closes # 1
    BY <1>0, <1>14 DEF UserSend, UserShutdown, UserForceClose
  <2>2. closes' = closes
    BY <1>14 DEF UserSend, UserShutdown, UserForceClose, sendInLoop
  <2>3. QED
    BY <1>1, <2>1, <2>2
<1>15. CASE RemoveConnectionInLoop
  BY <1>0, <1>1, <1>15 DEF RemoveConnectionInLoop
<1>16. CASE ServerDestructs
  <2>1. closes' = closes
    BY <1>16 DEF ServerDestructs, destoryConnection
  <2>2. CASE SameLoop
    BY <1>1, <1>16, <2>1, <2>2 DEF ServerDestructs
  <2>3. CASE ~SameLoop
    BY <1>0, <1>1, <1>16, <2>1, <2>3 DEF ServerDestructs
  <2>4. QED
    BY <2>2, <2>3
<1>17. ASSUME NEW how, PeerCloses(how) PROVE ClosedOnce'
  BY <1>0, <1>1, <1>17, Zenon DEF PeerCloses
<1>18. CASE UNCHANGED vars
  BY <1>0, <1>1, <1>18 DEF vars
<1>19. QED
  BY <1>2, <1>4, <1>5, <1>6, <1>7, <1>8, <1>9, <1>10, <1>11, <1>12, <1>13, <1>14, <1>15,
     <1>16, <1>17, <1>18 DEF Next, LoopStep

--------------------------------------------------------------------------------
(* OneDestroy.                                                             *)

\* A functor appended, and taken.
LEMMA AppendOne ==
  ASSUME NEW q \in Seq(AnyFunctor), NEW f \in AnyFunctor
  PROVE  /\ f.op # "destoryConnection" =>
              /\ AtMostOne(q) => AtMostOne(Append(q, f))
              /\ NoDestroy(q) => NoDestroy(Append(q, f))
              /\ NoDestroy(Append(q, f)) => NoDestroy(q)
         /\ NoDestroy(q) => AtMostOne(Append(q, f))
<1> DEFINE r == Append(q, f)
<1>1. /\ Len(q) \in Nat /\ Len(r) = Len(q) + 1 /\ r[Len(q) + 1] = f
      /\ \A i \in 1..Len(q) : r[i] = q[i]
  BY AppendProperties, LenProperties
<1> HIDE DEF r
<1>2. \A i \in 1..Len(r) : (i \in 1..Len(q) /\ r[i] = q[i]) \/ (i = Len(q) + 1 /\ r[i] = f)
  BY <1>1
<1>3. \A i \in 1..Len(q) : i \in 1..Len(r)
  BY <1>1
<1>4. f.op # "destoryConnection" => /\ AtMostOne(q) => AtMostOne(r)
                                    /\ NoDestroy(q) => NoDestroy(r)
                                    /\ NoDestroy(r) => NoDestroy(q)
  BY <1>1, <1>2, <1>3 DEF AtMostOne, NoDestroy
<1>5. NoDestroy(q) => AtMostOne(r)
  BY <1>2 DEF AtMostOne, NoDestroy
<1>6. QED
  BY <1>4, <1>5 DEF r

\* Taking the first functor of a queue that has destoryConnection at most once.
LEMMA TailOne ==
  ASSUME NEW q \in Seq(AnyFunctor), q # << >>, AtMostOne(q)
  PROVE  /\ AtMostOne(Tail(q)) /\ (NoDestroy(q) => NoDestroy(Tail(q)))
         /\ Head(q).op = "destoryConnection" => NoDestroy(Tail(q)) /\ ~NoDestroy(q)
<1> DEFINE r == Tail(q)
<1>1. /\ Len(q) \in Nat \ {0} /\ Len(r) = Len(q) - 1 /\ Head(q) = q[1]
      /\ \A i \in 1..Len(r) : r[i] = q[i + 1]
  BY HeadTailProperties, LenProperties, EmptySeq
<1> HIDE DEF r
<1>2. 1 \in 1..Len(q) /\ \A i \in 1..Len(r) : i + 1 \in 1..Len(q) /\ i + 1 # 1 /\ r[i] = q[i + 1]
  BY <1>1
<1>3. AtMostOne(r)
  <2> SUFFICES ASSUME NEW i \in 1..Len(r), NEW j \in 1..Len(r),
                      r[i].op = "destoryConnection", r[j].op = "destoryConnection"
               PROVE  i = j
    BY DEF AtMostOne
  <2>1. i + 1 = j + 1
    BY <1>2, Zenon DEF AtMostOne
  <2>2. QED
    BY <2>1
<1>4. NoDestroy(q) => NoDestroy(r)
  BY <1>2 DEF NoDestroy
<1>5. ASSUME Head(q).op = "destoryConnection" PROVE NoDestroy(r) /\ ~NoDestroy(q)
  BY <1>1, <1>2, <1>5 DEF AtMostOne, NoDestroy
<1>6. QED
  BY <1>3, <1>4, <1>5 DEF r

\* A step that queues no destoryConnection.
CalmAppends ==
    \/ pending' = pending
    \/ \E f \in AnyFunctor : f.op # "destoryConnection" /\ pending' = Append(pending, f)

\* A step that does not queue destoryConnection keeps it from being called twice.
LEMMA OneDestroyKept ==
  ASSUME ClosedFirst, OneDestroy, CalmAppends, Takes, UNCHANGED baseQueue,
         channel_.status # "kNew" => channel_'.status # "kNew"
  PROVE  OneDestroy'
<1>1. pending \in Seq(AnyFunctor) /\ functors \in Seq(AnyFunctor) /\ AtMostOne(pending) /\ AtMostOne(functors)
  BY DEF ClosedFirst, OneDestroy
<1>2. AtMostOne(pending') /\ (NoDestroy(pending) => NoDestroy(pending'))
  <2>1. CASE pending' = pending
    BY <1>1, <2>1, Zenon
  <2>2. ASSUME NEW f \in AnyFunctor, f.op # "destoryConnection", pending' = Append(pending, f)
        PROVE  AtMostOne(pending') /\ (NoDestroy(pending) => NoDestroy(pending'))
    <3>1. AtMostOne(Append(pending, f)) /\ (NoDestroy(pending) => NoDestroy(Append(pending, f)))
      BY <1>1, <2>2, AppendOne, Zenon
    <3>2. QED
      BY <2>2, <3>1, Zenon
  <2>3. QED
    BY <2>1, <2>2, Zenon DEF CalmAppends
<1>3. AtMostOne(functors') /\ (NoDestroy(functors) => NoDestroy(functors'))
  BY <1>1, TailOne, Zenon DEF Takes
<1>4. QED
  BY <1>2, <1>3 DEF OneDestroy

\* The first close: one destoryConnection is on its way.
LEMMA OneDestroyMade ==
  ASSUME ClosedFirst, Watched, ups # 0, handleClose, Takes, closes' = 1
  PROVE  OneDestroy'
<1>1. /\ pending \in Seq(AnyFunctor) /\ functors \in Seq(AnyFunctor) /\ channel_'.status # "kNew"
      /\ NoDestroy(pending) /\ NoDestroy(functors) /\ baseQueue = << >>
  <2>1. channel_'.status # "kNew" /\ closes' = closes + 1
    BY CloseFollows, Zenon
  <2>2. closes \in Nat /\ pending \in Seq(AnyFunctor) /\ functors \in Seq(AnyFunctor)
    BY Zenon DEF ClosedFirst
  <2>3. closes = 0
    BY ONLY <2>1, <2>2, closes' = 1
  <2>4. NoDestroy(pending) /\ NoDestroy(functors) /\ baseQueue = << >>
    BY <2>3 DEF ClosedFirst
  <2>5. QED
    BY <2>1, <2>2, <2>4, Zenon
<1>2. NoDestroy(functors')
  BY <1>1, TailKeeps, Zenon DEF Takes
<1>3. AtMostOne(functors')
  BY <1>2 DEF AtMostOne, NoDestroy
<1>4. CASE SameLoop
  <2>1. pending' = Append(pending, Functor("destoryConnection", None)) /\ baseQueue' = << >>
    BY <1>1, <1>4 DEF handleClose, removeConnection, QueueDestory
  <2>2. Functor("destoryConnection", None) \in AnyFunctor
    BY DEF Functor, AnyFunctor, AnyMessage, None, Ops
  <2>3. AtMostOne(pending')
    BY <1>1, <2>1, <2>2, AppendOne
  <2>4. QED
    BY <1>1, <1>2, <1>3, <2>1, <2>3 DEF OneDestroy
<1>5. CASE ~SameLoop
  <2>1. pending' = pending /\ baseQueue' = Append(<< >>, "removeConnectionInLoop")
    BY <1>1, <1>5 DEF handleClose, removeConnection
  <2>2. Len(baseQueue') = 1
    BY <2>1
  <2>3. AtMostOne(pending') /\ NoDestroy(pending')
    BY <1>1, <2>1 DEF AtMostOne, NoDestroy
  <2>4. QED
    BY <1>1, <1>2, <1>3, <2>2, <2>3 DEF OneDestroy
<1>6. QED
  BY <1>4, <1>5

\* What is queued with no message, but for destoryConnection.
LEMMA PlainIsCalm ==
  /\ \A op \in Ops \ {"destoryConnection"} : pending' = Append(pending, Functor(op, None)) => CalmAppends
  /\ \A m : sendInLoop(m) => CalmAppends
<1>1. ASSUME NEW op \in Ops \ {"destoryConnection"}, pending' = Append(pending, Functor(op, None))
      PROVE  CalmAppends
  <2>1. Functor(op, None) \in AnyFunctor /\ Functor(op, None).op # "destoryConnection"
    BY DEF Functor, AnyFunctor, AnyMessage, None
  <2>2. QED
    BY <1>1, <2>1 DEF CalmAppends
<1>2. ASSUME NEW m, sendInLoop(m) PROVE CalmAppends
  <2>1. \/ pending' = pending
        \/ pending' = Append(pending, Functor("writeCompleteCallback", None))
        \/ pending' = Append(pending, Functor("highWaterMarkCallback", None))
    BY <1>2 DEF sendInLoop
  <2>2. "writeCompleteCallback" \in Ops \ {"destoryConnection"}
        /\ "highWaterMarkCallback" \in Ops \ {"destoryConnection"}
    BY DEF Ops
  <2>3. QED
    BY <1>1, <2>1, <2>2 DEF CalmAppends
<1>3. QED
  BY <1>1, <1>2

\* Every step keeps OneDestroy.
LEMMA OneDestroyInductive ==
  ASSUME ClosedFirst, Watched, InOrder, UpOnce, ChannelFollows, closes = 1 => OneDestroy, ups # 0,
         baseQueue \in Seq({"removeConnectionInLoop"}),
         SameLoop => (inMap => closes = 0), [Next]_vars
  PROVE  closes' = 1 => OneDestroy'
<1> USE DEF loopVars, serverVars, connVars, historyVars
<1> SUFFICES ASSUME closes' = 1 PROVE OneDestroy'
  OBVIOUS
<1>0. pending \in Seq(AnyFunctor) /\ functors \in Seq(AnyFunctor) /\ closes \in Nat
  BY DEF ClosedFirst
<1>1. CASE /\ UNCHANGED <<closes, baseQueue>> /\ CalmAppends /\ Takes
           /\ channel_.status # "kNew" => channel_'.status # "kNew"
  BY <1>1, OneDestroyKept
<1>2. CASE UNCHANGED <<closes, baseQueue, pending, functors, channel_>>
  BY <1>1, <1>2 DEF CalmAppends, Takes
<1>3. ASSUME NEW data, NEW out, Poll(data, out) PROVE OneDestroy'
  BY <1>2, <1>3 DEF Poll
<1>4. CASE CloseEvent
  BY <1>4, OneDestroyMade DEF CloseEvent, NextCallback, Takes
<1>5. CASE ErrorEvent
  BY <1>2, <1>5 DEF ErrorEvent, NextCallback
<1>6. CASE ReadEvent
  BY <1>2, <1>6, OneDestroyMade DEF ReadEvent, NextCallback, Takes
<1>7. CASE WriteEvent
  <2>1. /\ UNCHANGED <<functors, closes, baseQueue>>
        /\ pending' = pending \/ pending' = Append(pending, Functor("writeCompleteCallback", None))
    BY <1>7 DEF WriteEvent, NextCallback
  <2>2. CalmAppends /\ Takes
    BY <2>1, PlainIsCalm DEF CalmAppends, Takes, Ops
  <2>3. QED
    BY <1>1, <1>7, <2>1, <2>2, WriteFollows
<1>8. CASE SwapFunctors
  <2>1. functors' = pending /\ pending' = << >> /\ UNCHANGED <<closes, baseQueue, channel_>>
    BY <1>8 DEF SwapFunctors
  <2>2. AtMostOne(<< >>) /\ NoDestroy(<< >>)
    BY DEF AtMostOne, NoDestroy
  <2>3. QED
    BY <2>1, <2>2 DEF OneDestroy
<1>9. CASE EstablishConnection
  BY <1>9, NoSecondUp
<1>10. CASE DestoryConnection
  <2>1. /\ functors # << >> /\ Head(functors).op = "destoryConnection" /\ functors' = Tail(functors)
        /\ UNCHANGED <<pending, baseQueue, closes>>
    BY <1>10 DEF DestoryConnection, NextFunctor, destoryConnection
  <2>2. OneDestroy /\ AtMostOne(functors)
    BY <2>1 DEF OneDestroy
  <2>3. AtMostOne(functors') /\ NoDestroy(functors') /\ ~NoDestroy(functors)
    BY <1>0, <2>1, <2>2, TailOne
  <2>4. NoDestroy(pending') /\ baseQueue' = << >>
    BY <2>1, <2>2, <2>3, Zenon DEF OneDestroy
  <2>5. QED
    BY <2>1, <2>2, <2>3, <2>4 DEF OneDestroy
<1>11. CASE SendInLoop
  <2>1. Takes /\ UNCHANGED <<closes, baseQueue>> /\ CalmAppends /\ phase # "stopped" /\ phase' # "stopped"
    BY <1>11, PlainIsCalm, Zenon DEF SendInLoop, sendInLoop, NextFunctor, OnLoop, Takes
  <2>2. QED
    BY <1>1, <1>11, <2>1, NextMessage, SendFollows
<1>12. CASE ShutdownInLoop
  BY <1>1, <1>12 DEF ShutdownInLoop, NextFunctor, Takes, CalmAppends
<1>13. CASE ForceCloseInLoop
  <2>1. Takes /\ (handleClose \/ UNCHANGED <<connVars, pending, serverVars, historyVars>>)
    BY <1>13 DEF ForceCloseInLoop, NextFunctor, Takes
  <2>2. QED
    BY <1>1, <2>1, OneDestroyMade DEF CalmAppends
<1>14. CASE UserFunctor
  BY <1>1, <1>14 DEF UserFunctor, NextFunctor, Takes, CalmAppends
<1>15. CASE EndFunctors \/ UserReturns \/ UserShutdown
  BY <1>2, <1>15, Zenon DEF EndFunctors, UserReturns, UserShutdown, UserCalls
<1>16. CASE UserSend
  <2>1. state_ = "kConnected" /\ closes' = closes
    BY <1>16, Zenon DEF UserSend, sendInLoop
  <2>2. QED
    BY <2>1 DEF ChannelFollows
<1>17. CASE UserForceClose
  BY <1>1, <1>17, PlainIsCalm DEF UserForceClose, UserCalls, Takes, Ops
<1>18. ASSUME NEW t, NEW call, CheckState(t, call) \/ StoreState(t) PROVE OneDestroy'
  BY <1>2, <1>18 DEF CheckState, StoreState, Step
<1>19. ASSUME NEW t \in Threads, QueueInLoop(t) PROVE OneDestroy'
  <2> DEFINE f == Functor(InLoop(caller[t].call), caller[t].msg)
  <2>1. caller[t].at = "queue" /\ pending' = Append(pending, f) /\ UNCHANGED <<closes, baseQueue, functors, channel_>>
    BY <1>19 DEF QueueInLoop, Step
  <2>2. caller[t].call \in Calls /\ caller[t].msg \in AnyMessage
    BY <2>1 DEF ClosedFirst
  <2>3. InLoop(caller[t].call) \in Ops /\ InLoop(caller[t].call) # "destoryConnection"
    BY <2>2 DEF InLoop, Calls, Ops
  <2>4. f \in AnyFunctor /\ f.op # "destoryConnection"
    BY <2>2, <2>3, FunctorsMade
  <2> HIDE DEF f
  <2>5. QED
    BY <1>1, <2>1, <2>4, Zenon DEF CalmAppends, Takes
<1>20. CASE RemoveConnectionInLoop
  <2>1. /\ baseQueue # << >> /\ baseQueue' = Tail(baseQueue) /\ UNCHANGED <<closes, functors, channel_>>
        /\ pending' = Append(pending, Functor("destoryConnection", None))
    BY <1>20 DEF RemoveConnectionInLoop, QueueDestory
  <2>2. /\ OneDestroy /\ NoDestroy(pending) /\ NoDestroy(functors) /\ channel_.status # "kNew"
    BY <2>1 DEF OneDestroy
  <2>3. baseQueue' = << >> /\ Len(baseQueue') = 0
    <3>1. Len(baseQueue) \in Nat /\ Len(baseQueue) <= 1 /\ Len(baseQueue) # 0
      BY <2>1, <2>2 DEF OneDestroy
    <3>2. Len(baseQueue') = 0 /\ baseQueue' \in Seq({"removeConnectionInLoop"})
      <4> DEFINE S == {"removeConnectionInLoop"}
      <4>1. baseQueue \in Seq(S)
        OBVIOUS
      <4> HIDE DEF S
      <4>2. Tail(baseQueue) \in Seq(S) /\ Len(Tail(baseQueue)) = Len(baseQueue) - 1
        BY <2>1, <4>1, HeadTailProperties
      <4>3. QED
        BY <2>1, <3>1, <4>2 DEF S
    <3>3. QED
      BY <3>2, EmptySeq
  <2>4. Functor("destoryConnection", None) \in AnyFunctor
    BY DEF Functor, AnyFunctor, AnyMessage, None, Ops
  <2>5. AtMostOne(pending')
    BY <1>0, <2>1, <2>2, <2>4, AppendOne
  <2>6. QED
    BY <2>1, <2>2, <2>3, <2>5 DEF OneDestroy
<1>21. CASE ServerDestructs
  <2>1. CASE SameLoop
    BY <1>21, <2>1 DEF ServerDestructs, destoryConnection
  <2>2. CASE ~SameLoop
    BY <1>2, <1>21, <2>2 DEF ServerDestructs
  <2>3. QED
    BY <2>1, <2>2
<1>22. ASSUME NEW how, PeerCloses(how) PROVE OneDestroy'
  BY <1>2, <1>22 DEF PeerCloses
<1>23. CASE UNCHANGED vars
  BY <1>2, <1>23 DEF vars
<1>24. QED
  BY Zenon, <1>3, <1>4, <1>5, <1>6, <1>7, <1>8, <1>9, <1>10, <1>11, <1>12, <1>13, <1>14, <1>15,
     <1>16, <1>17, <1>18, <1>19, <1>20, <1>21, <1>22, <1>23 DEF Next, LoopStep

--------------------------------------------------------------------------------
(* The server and the aborts.                                              *)

\* What the steps do to it, to the phase and to the assertions.
Quiet ==
    /\ aborted = "no" /\ aborted' = "no"
    /\ downs' = downs
    /\ \/ phase # "stopped" /\ phase' # "stopped"
       \/ UNCHANGED <<phase, channel_, closes>>
    /\ \/ UNCHANGED <<baseQueue, inMap, closes>>
       \/ SameLoop /\ ~inMap' /\ UNCHANGED baseQueue
       \/ ~SameLoop /\ baseQueue' \in {Append(baseQueue, "removeConnectionInLoop")}
       \/ baseQueue # << >> /\ baseQueue' = Tail(baseQueue)

\* What a step of an established connection is.
LEMMA Kinds ==
  ASSUME ClosedFirst, UpOnce, ups # 0, Next
  PROVE  Quiet \/ DestoryConnection \/ ServerDestructs
<1> USE DEF loopVars, serverVars, connVars, historyVars
<1>0. handleClose => \/ SameLoop /\ ~inMap' /\ UNCHANGED baseQueue
                     \/ ~SameLoop /\ baseQueue' = Append(baseQueue, "removeConnectionInLoop")
  BY DEF handleClose, removeConnection
<1>0a. handleClose => downs' = downs
  BY DEF handleClose
<1>1. ASSUME NEW data, NEW out, Poll(data, out) PROVE Quiet
  BY <1>1, Zenon DEF Poll, Quiet, OnLoop, Running
<1>2. CASE CloseEvent \/ ErrorEvent \/ ReadEvent \/ WriteEvent
  BY <1>0, <1>0a, <1>2, Zenon
    DEF CloseEvent, ErrorEvent, ReadEvent, WriteEvent, NextCallback, Quiet, OnLoop, Running
<1>3. CASE SwapFunctors \/ EndFunctors \/ UserReturns
  BY <1>3, Zenon DEF SwapFunctors, EndFunctors, UserReturns, Quiet, OnLoop, Running
<1>4. CASE EstablishConnection
  BY <1>4, NoSecondUp
<1>5. CASE SendInLoop \/ ShutdownInLoop \/ UserFunctor
  BY <1>5, Zenon
    DEF SendInLoop, sendInLoop, ShutdownInLoop, UserFunctor, NextFunctor, Quiet, OnLoop, Running
<1>6. CASE ForceCloseInLoop
  BY <1>0, <1>0a, <1>6, Zenon DEF ForceCloseInLoop, NextFunctor, Quiet, OnLoop, Running
<1>7. CASE UserSend \/ UserShutdown \/ UserForceClose
  BY <1>7, Zenon
    DEF UserSend, sendInLoop, UserShutdown, UserForceClose, UserCalls, Quiet, OnLoop, Running
<1>8. ASSUME NEW t, NEW call, CheckState(t, call) \/ StoreState(t) \/ QueueInLoop(t) PROVE Quiet
  BY <1>8 DEF CheckState, StoreState, QueueInLoop, Step, Quiet, Running
<1>9. CASE RemoveConnectionInLoop
  BY <1>9 DEF RemoveConnectionInLoop, Quiet, Running
<1>10. ASSUME NEW how, PeerCloses(how) PROVE Quiet
  BY <1>10 DEF PeerCloses, Quiet, Running
<1>11. QED
  BY <1>1, <1>2, <1>3, <1>4, <1>5, <1>6, <1>7, <1>8, <1>9, <1>10, Zenon DEF Next, LoopStep

\* The server's destructor, on the connection's loop: a connection up and not closed.
LEMMA DestructsOpen ==
  ASSUME ClosedFirst, Watched, ChannelFollows, UpOnce, InMapOpen, ups # 0, ServerDestructs, SameLoop
  PROVE  /\ phase' = "stopped" /\ ~inMap' /\ UNCHANGED <<baseQueue, closes>> /\ closes = 0
         /\ \/ /\ aborted' = "no" /\ downs' = 1
               /\ isNoneEvent(channel_') /\ channel_'.status = "kNew"
            \/ /\ aborted' = "isNoneEvent" /\ downs' = 0
               /\ channel_'.reading /\ state_' # "kConnected"
<1>1. /\ inMap /\ ~inMap' /\ aborted = "no" /\ phase = "poll" /\ phase' = "stopped"
      /\ destoryConnection /\ UNCHANGED baseQueue
  BY DEF ServerDestructs, OnLoop, Running
<1>2. closes = 0 /\ channel_.reading /\ channel_.status = "kAdded" /\ channel_ \in Channels /\ downs = 0 /\ ups = 1
  BY <1>1, Zenon DEF InMapOpen, ChannelFollows, Watched, ClosedFirst, UpOnce
<1>3. UNCHANGED closes
  BY <1>1 DEF destoryConnection
<1>4. CASE state_ = "kConnected"
  <2> DEFINE c == disableAll(channel_)
  <2>1. c \in Channels /\ isNoneEvent(c) /\ c.status # "kNew"
    BY <1>2, Zenon DEF disableAll, updateChannel, isNoneEvent, Channels
  <2>2. removeChannel(c) /\ downs' = 1
    BY <1>1, <1>2, <1>4 DEF destoryConnection
  <2> HIDE DEF c
  <2>3. aborted' = "no" /\ channel_' = [c EXCEPT !.status = "kNew"]
    BY <1>1, <2>1, <2>2 DEF removeChannel
  <2>4. isNoneEvent(channel_') /\ channel_'.status = "kNew"
    BY <2>1, <2>3 DEF isNoneEvent, Channels
  <2>5. QED
    BY <1>1, <1>2, <1>3, <2>2, <2>3, <2>4
<1>5. CASE state_ # "kConnected"
  <2>1. ~isNoneEvent(channel_) /\ downs' = 0 /\ removeChannel(channel_) /\ state_' # "kConnected"
    BY <1>1, <1>2, <1>5 DEF isNoneEvent, destoryConnection
  <2>2. aborted' = "isNoneEvent" /\ channel_'.reading
    BY <1>2, <2>1 DEF removeChannel, Channels
  <2>3. QED
    BY <1>1, <1>2, <1>3, <2>1, <2>2
<1>6. QED
  BY <1>4, <1>5

\* The map.
LEMMA InMapInductive ==
  ASSUME ClosedFirst, Watched, ChannelFollows, UpOnce, InMapOpen, ups # 0, [Next]_vars
  PROVE  InMapOpen'
<1> USE DEF loopVars, serverVars, connVars, historyVars
<1>1. CASE Quiet
  <2>1. ASSUME NEW q \in Seq({"removeConnectionInLoop"}), q # << >>
        PROVE  Tail(q) \in Seq({"removeConnectionInLoop"})
    BY <2>1, HeadTailProperties
  <2>2. \A q \in Seq({"removeConnectionInLoop"}) :
          Append(q, "removeConnectionInLoop") \in Seq({"removeConnectionInLoop"})
    BY AppendProperties
  <2>3. baseQueue' \in Seq({"removeConnectionInLoop"})
    BY <1>1, <2>1, <2>2 DEF Quiet, InMapOpen
  <2>4. QED
    BY <1>1, <2>3 DEF Quiet, InMapOpen
<1>2. CASE DestoryConnection
  BY <1>2 DEF DestoryConnection, destoryConnection, InMapOpen
<1>3. CASE ServerDestructs
  <2>1. CASE SameLoop
    BY <1>3, <2>1, DestructsOpen, Zenon DEF InMapOpen
  <2>2. CASE ~SameLoop
    BY <1>3, <2>2 DEF ServerDestructs, InMapOpen
  <2>3. QED
    BY <2>1, <2>2
<1>4. CASE UNCHANGED vars
  BY <1>4 DEF vars, InMapOpen
<1>5. QED
  BY <1>1, <1>2, <1>3, <1>4, Kinds

\* The assertions, and what the server's destructor leaves.
LEMMA AbortsInductive ==
  ASSUME ClosedFirst, Watched, InOrder, ChannelFollows, UpOnce, ClosedOnce, InMapOpen,
         closes = 1 => OneDestroy, AbortsExplained, ServerDestroysOpen, ups # 0, [Next]_vars
  PROVE  AbortsExplained' /\ ServerDestroysOpen'
<1> USE DEF loopVars, serverVars, connVars, historyVars
<1>0. closes \in Nat /\ ups' = ups
  BY UpOnceInductive DEF ClosedFirst
<1>1. CASE Quiet
  <2>1. AbortsExplained'
    BY <1>1 DEF Quiet, AbortsExplained
  <2>2. CASE phase # "stopped" /\ phase' # "stopped"
    BY <1>1, <2>1, <2>2 DEF Quiet, ServerDestroysOpen
  <2>3. CASE UNCHANGED <<phase, channel_, closes>>
    <3>1. isNoneEvent(channel_)' <=> isNoneEvent(channel_)
      BY <2>3
    <3>2. QED
      BY <1>1, <2>1, <2>3, <3>1 DEF Quiet, ServerDestroysOpen
  <2>4. QED
    BY <1>1, <2>2, <2>3 DEF Quiet
<1>2. CASE DestoryConnection
  <2>1. /\ closes # 0 /\ closes' = closes /\ UNCHANGED <<outputBuffer_, downs, phase>> /\ channel_ \in Channels
        /\ channel_' = [channel_ EXCEPT !.status = "kNew"]
        /\ aborted' = IF ~isNoneEvent(channel_) THEN "isNoneEvent"
                      ELSE IF channel_.status = "kNew" THEN "channelMap" ELSE aborted
    BY <1>2, DestroyFollows
  <2>2. aborted = "no" /\ phase = "functors" /\ functors # << >> /\ Head(functors).op = "destoryConnection"
    BY <1>2 DEF DestoryConnection, NextFunctor, OnLoop, Running
  <2>3. ServerDestroysOpen'
    BY <2>1, <2>2 DEF ServerDestroysOpen
  <2>4. CASE ~isNoneEvent(channel_)
    <3>1. channel_.writing /\ ~channel_.reading /\ ~channel_'.reading
      BY <2>1, <2>4 DEF isNoneEvent, ChannelFollows, Channels
    <3>2. /\ outputBuffer_ # << >> /\ outputBuffer_ \in Seq(Bytes)
          /\ \A i \in 1..Len(outputBuffer_) : outputBuffer_[i][1].from \in Threads
      BY <2>1, <3>1 DEF ChannelFollows, InOrder
    <3>3. 1 \in 1..Len(outputBuffer_)
      BY <3>2, EmptySeq, LenProperties
    <3>4. QED
      BY <1>0, <2>1, <2>3, <2>4, <3>1, <3>2, <3>3 DEF AbortsExplained
  <2>5. CASE isNoneEvent(channel_) /\ channel_.status = "kNew"
    <3>1. ~NoDestroy(functors)
      BY <2>2, TailKeeps DEF ClosedFirst
    <3>2. closes # 1
      BY <2>5, <3>1 DEF OneDestroy
    <3>3. Threads # {}
      BY <1>0, <2>1, <3>2 DEF ClosedOnce
    <3>4. QED
      BY <1>0, <2>1, <2>3, <2>5, <3>2, <3>3 DEF AbortsExplained
  <2>6. CASE isNoneEvent(channel_) /\ channel_.status # "kNew"
    BY <2>1, <2>2, <2>3, <2>6 DEF AbortsExplained
  <2>7. QED
    BY <2>4, <2>5, <2>6
<1>3. CASE ServerDestructs
  <2>1. CASE SameLoop
    <3>1. /\ phase' = "stopped" /\ closes' = 0
          /\ \/ /\ aborted' = "no" /\ downs' = 1
                /\ isNoneEvent(channel_') /\ channel_'.status = "kNew"
             \/ /\ aborted' = "isNoneEvent" /\ downs' = 0
                /\ channel_'.reading /\ state_' # "kConnected"
      BY <1>3, <2>1, DestructsOpen, Zenon
    <3>2. AbortsExplained'
      BY <2>1, <3>1, Zenon DEF AbortsExplained
    <3>3. ServerDestroysOpen'
      BY ONLY <3>1 DEF ServerDestroysOpen
    <3>4. QED
      BY <3>2, <3>3, Zenon
  <2>2. CASE ~SameLoop
    <3>1. aborted = "no" /\ aborted' = "notInLoopThread" /\ UNCHANGED <<phase, connVars, historyVars>>
      BY <1>3, <2>2 DEF ServerDestructs, abortNotInLoopThread, Running
    <3>2. phase # "stopped" /\ downs = 0
      BY <2>2, <3>1 DEF InMapOpen, ServerDestroysOpen
    <3>3. QED
      BY <2>2, <3>1, <3>2, Zenon DEF AbortsExplained, ServerDestroysOpen
  <2>3. QED
    BY <2>1, <2>2, Zenon
<1>4. CASE UNCHANGED vars
  BY <1>4, Zenon DEF vars, AbortsExplained, ServerDestroysOpen, isNoneEvent
<1>5. QED
  BY <1>1, <1>2, <1>3, <1>4, Kinds

\* The parts together.
LEMMA LifeInductive == ClosedFirst /\ Watched /\ InOrder /\ Life /\ [Next]_vars => Life'
<1> SUFFICES ASSUME ClosedFirst, Watched, InOrder, Life, [Next]_vars PROVE Life'
  OBVIOUS
<1>1. CASE ups # 0
  <2>1. UpOnce' /\ ups' = ups
    BY <1>1, UpOnceInductive DEF Life
  <2>2. ChannelFollows'
    BY <1>1, ChannelInductive DEF Life, InMapOpen
  <2>3. ClosedOnce'
    BY <1>1, ClosedOnceInductive DEF Life, InMapOpen
  <2>4. closes' = 1 => OneDestroy'
    BY <1>1, OneDestroyInductive DEF Life, InMapOpen
  <2>5. InMapOpen'
    BY <1>1, InMapInductive DEF Life
  <2>6. AbortsExplained' /\ ServerDestroysOpen'
    BY <1>1, AbortsInductive DEF Life
  <2>7. QED
    BY <2>1, <2>2, <2>3, <2>4, <2>5, <2>6 DEF Life
<1>2. CASE ups = 0
  <2>1. NotUp
    BY <1>2, Zenon DEF Life, UpOnce
  <2>2. UNCHANGED <<closes, downs, baseQueue, inMap>> /\ closes = 0 /\ downs = 0 /\ baseQueue = << >>
    BY <1>2, <2>1, BeforeUp, Zenon DEF NotUp
  <2>3. /\ \/ NotUp' /\ ups' = 0 /\ aborted' = aborted
           \/ /\ ups' = 1 /\ channel_' = enableReading(NewChannel) /\ phase' # "stopped"
              /\ todo' = << >> /\ pending' = << >> /\ functors' = << >> /\ aborted' = aborted
    BY <1>2, <2>1, BeforeUp
  <2>4. \A op : Lacks(<< >>, op)
    BY DEF Lacks
  <2>5. << >> \in Seq(Events) /\ Once(<< >>) /\ NoAccept(<< >>)
    BY DEF Once, NoAccept
  <2>6. <<"accept">> \in Seq(Events) /\ Once(<<"accept">>)
    BY DEF Once, Events
  <2>7. NotUp' => (phase' # "stopped" /\ (phase' # "channels" => todo' = << >>) /\ todo' \in {<< >>, <<"accept">>})
    BY DEF NotUp
  <2>8. UpOnce'
    <3>1. CASE NotUp' /\ ups' = 0
      <4>1. todo' \in Seq(Events) /\ Once(todo') /\ (phase' # "channels" => todo' = << >>)
        BY <2>5, <2>6, <2>7, <3>1, Zenon
      <4>2. QED
        BY <3>1, <4>1 DEF UpOnce
    <3>2. CASE ups' = 1 /\ todo' = << >> /\ pending' = << >> /\ functors' = << >>
      <4>1. todo' \in Seq(Events) /\ Once(todo') /\ NoAccept(todo') /\ ups' # 0
        BY <2>5, <3>2
      <4>2. Lacks(pending', "establishConnection") /\ Lacks(functors', "establishConnection")
        BY <2>4, <3>2
      <4>3. QED
        BY <3>2, <4>1, <4>2 DEF UpOnce
    <3>3. QED
      BY <2>3, <3>1, <3>2
  <2>9. phase' # "stopped"
    BY <2>3, <2>7
  <2>10. ChannelFollows'
    BY <2>2, <2>3, Zenon DEF ChannelFollows, enableReading, updateChannel, NewChannel
  <2>11. aborted' = aborted /\ AbortsExplained'
    <3>1. phase # "stopped"
      BY <2>1 DEF NotUp
    <3>2. aborted = "no" \/ (aborted = "notInLoopThread" /\ ~SameLoop)
      BY <2>2, <3>1 DEF AbortsExplained, Life
    <3>3. aborted' = aborted
      BY <2>3, Zenon
    <3>4. QED
      BY <3>2, <3>3, Zenon DEF AbortsExplained
  <2>12. InMapOpen'
    BY <2>2, <2>9 DEF Life, InMapOpen
  <2>0. closes' = 0 /\ closes' <= 1 /\ closes' # 1
    BY ONLY <2>2
  <2>13. ClosedOnce'
    BY <2>0, Zenon DEF ClosedOnce
  <2>14. ServerDestroysOpen'
    BY <2>2, <2>9, Zenon DEF Life, ServerDestroysOpen
  <2>15. QED
    BY <2>0, <2>8, <2>10, <2>11, <2>12, <2>13, <2>14, Zenon DEF Life
<1>3. QED
  BY <1>1, <1>2

\* A new connection is at the beginning of its life.
LEMMA LifeInit == Init => Life
<1> SUFFICES ASSUME Init PROVE Life
  OBVIOUS
<1>1. /\ ups = 0 /\ closes = 0 /\ downs = 0 /\ aborted = "no" /\ baseQueue = << >> /\ phase # "stopped"
      /\ functors = << >>
  BY DEF Init
<1>2. state_ = "kConnecting" /\ channel_ = NewChannel
  BY DEF Init, NewConnection
<1>3. \A t \in Threads : caller[t].at = "idle"
  BY Zenon DEF Init, Idle
<1>4. NotUp
  BY <1>1, <1>2, <1>3 DEF Init, NotUp, Establish
<1>5. /\ << >> \in Seq(Events) /\ Once(<< >>) /\ <<"accept">> \in Seq(Events) /\ Once(<<"accept">>)
      /\ << >> \in Seq({"removeConnectionInLoop"})
  BY DEF Once, Events
<1>6. todo \in {<< >>, <<"accept">>} /\ (phase # "channels" => todo = << >>)
  BY DEF Init
<1>7. UpOnce
  BY <1>1, <1>4, <1>5, <1>6, Zenon DEF UpOnce
<1>8. InMapOpen
  BY <1>1, <1>5 DEF InMapOpen
<1>9. ChannelFollows /\ ClosedOnce
  BY <1>1 DEF ChannelFollows, ClosedOnce
<1>10. AbortsExplained /\ ServerDestroysOpen
  BY <1>1 DEF AbortsExplained, ServerDestroysOpen
<1>11. QED
  BY <1>1, <1>7, <1>8, <1>9, <1>10 DEF Life

\* The invariant of a connection's life.
LEMMA LifeInvariant == Spec => []Life
  BY LifeInit, LifeInductive, InOrderInit, InOrderInductive, Invariant, PTL DEF Spec

\* An assertion of the connection's fails only for what other threads did, for a server
\* destroyed on another loop's thread or on a connection no longer kConnected; for any
\* threads and calls (TcpConnection.cc:66, 82, 271, Epoller.cc:96-99, TcpServer.cc:29-35).
THEOREM OnlyKnownAborts == Spec => []AbortsExplained
<1>1. Life => AbortsExplained
  BY DEF Life
<1>2. QED
  BY <1>1, LifeInvariant, PTL

\* The user is told that a connection is down exactly when the destructor of a server on its
\* loop takes it down; that connection was never closed, and its channel is left quiet and out
\* of the epoller, unless it had been shut down and the assertion fails; for any threads and
\* calls (TcpServer.cc:29-35, TcpConnection.cc:48-60).
THEOREM DestructorCleansUp == Spec => []ServerDestroysOpen
<1>1. Life => ServerDestroysOpen
  BY DEF Life
<1>2. QED
  BY <1>1, LifeInvariant, PTL

================================================================================
