---------------------------- MODULE TcpClientProofs ----------------------------
(***************************************************************************)
(* The connector's sockets and its channel, and which of its assertions    *)
(* can fail, for any bounds, any choice of calls and of outcomes of        *)
(* connect(2).                                                             *)
(***************************************************************************)
EXTENDS TcpClient, SequenceTheorems, TLAPS

Functors == [op : Ops, id : Nat]

Types ==
    /\ opened \in Nat /\ closed \in Nat /\ given \in Nat /\ retryTimerId_ \in Nat
    /\ state_ \in {"kDisconnected", "kConnecting", "kConnected"}
    /\ channel_ \in {"none", "watching", "removed"}
    /\ pending \in Seq(Functors) /\ functors \in Seq(Functors)

\* At most one resetChannel waits in q.
One(q) == \A i, j \in Resets(q) : i = j

\* Where the sockets are; a connection that is about to be restarted is closed already and
\* the connector has done nothing since it handed it over.
Sockets ==
    /\ opened = closed + given + (IF channel_ = "watching" THEN 1 ELSE 0)
    /\ established => state_ = "kConnected"
    /\ step = "restart" => ~established /\ state_ = "kConnected"
    /\ state_ = "kConnecting" <=> channel_ = "watching"

\* A removed channel has one reset coming, and no other one has any.
ResetComing ==
    /\ channel_ = "removed" <=> Resets(pending) # {} \/ Resets(functors) # {}
    /\ Resets(pending) = {} \/ Resets(functors) = {}
    /\ One(pending) /\ One(functors)

IInv ==
    /\ Types
    /\ aborted = "no" => Sockets
    /\ aborted = "no" /\ phase # "destroyed" => ResetComing

--------------------------------------------------------------------------------
(* Queues of functors.                                                     *)

\* A functor of another kind, appended, is not a reset.
LEMMA AppendOther ==
  ASSUME NEW q \in Seq(Functors), NEW f \in Functors, f.op # "resetChannel"
  PROVE  Append(q, f) \in Seq(Functors) /\ Resets(Append(q, f)) = Resets(q)
<1>1. /\ Append(q, f) \in Seq(Functors) /\ Len(q) \in Nat /\ Len(Append(q, f)) = Len(q) + 1
      /\ Append(q, f)[Len(q) + 1] = f /\ \A i \in 1..Len(q) : Append(q, f)[i] = q[i]
  BY AppendProperties, LenProperties
<1>2. QED
  BY <1>1 DEF Resets

\* A reset appended to a queue without one is the only one.
LEMMA AppendReset ==
  ASSUME NEW q \in Seq(Functors), Resets(q) = {}, NEW f \in Functors, f.op = "resetChannel"
  PROVE  /\ Append(q, f) \in Seq(Functors) /\ Resets(Append(q, f)) # {} /\ One(Append(q, f))
<1>1. /\ Append(q, f) \in Seq(Functors) /\ Len(q) \in Nat /\ Len(Append(q, f)) = Len(q) + 1
      /\ Append(q, f)[Len(q) + 1] = f /\ \A i \in 1..Len(q) : Append(q, f)[i] = q[i]
  BY AppendProperties, LenProperties
<1>2. \A i \in 1..Len(q) : q[i].op # "resetChannel"
  BY DEF Resets
<1>3. Resets(Append(q, f)) = {Len(q) + 1}
  BY <1>1, <1>2 DEF Resets
<1>4. QED
  BY <1>1, <1>3 DEF One

\* What is left of the resets when the first functor has been taken.
LEMMA TailResets ==
  ASSUME NEW q \in Seq(Functors), q # << >>, One(q)
  PROVE  /\ Tail(q) \in Seq(Functors) /\ One(Tail(q))
         /\ Head(q).op = "resetChannel" => Resets(q) # {} /\ Resets(Tail(q)) = {}
         /\ Head(q).op # "resetChannel" => (Resets(Tail(q)) = {} <=> Resets(q) = {})
<1>1. /\ Tail(q) \in Seq(Functors) /\ Len(Tail(q)) = Len(q) - 1 /\ Len(q) \in Nat \ {0}
      /\ \A i \in 1..(Len(q) - 1) : Tail(q)[i] = q[i + 1]
      /\ Head(q) = q[1]
  BY HeadTailProperties, LenProperties, EmptySeq
<1>2. \A i \in Resets(Tail(q)) : i \in Nat /\ i > 0 /\ i + 1 \in Resets(q)
  BY <1>1 DEF Resets
<1>3. \A i \in Resets(q) : i # 1 => i - 1 \in Resets(Tail(q))
  <2> SUFFICES ASSUME NEW i \in Resets(q), i # 1 PROVE i - 1 \in Resets(Tail(q))
    OBVIOUS
  <2>1. i \in 1..Len(q) /\ q[i].op = "resetChannel"
    BY DEF Resets
  <2> DEFINE k == i - 1
  <2>2. k \in 1..(Len(q) - 1) /\ k + 1 = i
    BY <1>1, <2>1
  <2>3. Tail(q)[k] = q[i]
    BY <1>1, <2>2
  <2>4. QED
    BY <1>1, <2>1, <2>2, <2>3 DEF Resets
<1>4. One(Tail(q))
  <2> SUFFICES ASSUME NEW i \in Resets(Tail(q)), NEW j \in Resets(Tail(q)) PROVE i = j
    BY DEF One
  <2>1. i + 1 = j + 1 /\ i \in Nat /\ j \in Nat
    BY <1>2 DEF One
  <2>2. QED
    BY <2>1
<1>5. ASSUME Head(q).op = "resetChannel" PROVE Resets(q) # {} /\ Resets(Tail(q)) = {}
  <2>1. 1 \in Resets(q)
    BY <1>1, <1>5 DEF Resets
  <2>2. \A i \in Resets(Tail(q)) : i + 1 = 1 /\ i \in Nat /\ i > 0
    BY <1>2, <2>1 DEF One
  <2>3. QED
    BY <2>1, <2>2
<1>6. ASSUME Head(q).op # "resetChannel" PROVE Resets(Tail(q)) = {} <=> Resets(q) = {}
  <2>1. 1 \notin Resets(q)
    BY <1>1, <1>6 DEF Resets
  <2>2. QED
    BY <1>2, <1>3, <2>1
<1>7. QED
  BY <1>1, <1>4, <1>5, <1>6

--------------------------------------------------------------------------------
(* The connector's operations.                                             *)

\* The batch of functors being run keeps its resets.
SameResets == functors' \in Seq(Functors) /\ One(functors') /\ (Resets(functors') = {} <=> Resets(functors) = {})

\* Whatever leaves the channel removed or not removed, and the resets as they are.
LEMMA KeepsReset ==
  ASSUME Types, ResetComing, SameResets, pending' = pending,
         channel_' = "removed" <=> channel_ = "removed"
  PROVE  ResetComing'
  BY DEF Types, ResetComing, SameResets

\* removeAndResetChannel on the channel of an attempt.
LEMMA RemoveKeeps ==
  ASSUME Types, Sockets, ResetComing, SameResets, state_ = "kConnecting", removeAndResetChannel
  PROVE  channel_ = "watching" /\ channel_' = "removed" /\ pending' \in Seq(Functors) /\ ResetComing'
<1> DEFINE f == Functor("resetChannel", NoTimer)
<1>1. channel_ = "watching" /\ Resets(pending) = {} /\ Resets(functors) = {}
  BY DEF Sockets, ResetComing
<1>2. f \in Functors /\ f.op = "resetChannel"
  BY DEF Functor, NoTimer, Functors, Ops
<1>3. channel_' = "removed" /\ pending' = Append(pending, f)
  BY DEF removeAndResetChannel
<1>4. pending \in Seq(Functors)
  BY DEF Types
<1> HIDE DEF f
<1>5. pending' \in Seq(Functors) /\ Resets(pending') # {} /\ One(pending')
  BY <1>1, <1>2, <1>3, <1>4, AppendReset
<1>6. ResetComing'
  BY <1>1, <1>3, <1>5 DEF ResetComing, SameResets
<1>7. QED
  BY <1>1, <1>3, <1>5, <1>6

\* The connector's own variables are of their types.
ConnectorTypes ==
    /\ opened \in Nat /\ closed \in Nat /\ given \in Nat
    /\ state_ \in {"kDisconnected", "kConnecting", "kConnected"}
    /\ channel_ \in {"none", "watching", "removed"}

\* startInLoop and connect() (Connector.cc:60-119).
LEMMA StartKeeps ==
  ASSUME Types, Sockets, aborted = "no", startInLoop, established' = established, step' = "none"
  PROVE  /\ ConnectorTypes'
         /\ aborted' = "no" => Sockets' /\ (channel_' = "removed" <=> channel_ = "removed")
<1>1. CASE state_ # "kDisconnected"
  BY <1>1 DEF startInLoop, Types, ConnectorTypes, connectorVars, socketVars
<1>2. CASE UNCHANGED <<connectorVars, socketVars, aborted>>
  BY <1>2 DEF Types, ConnectorTypes, connectorVars, socketVars, Sockets
<1>3. ASSUME state_ = "kDisconnected", NEW o \in Outcomes, connect(o)
      PROVE  /\ ConnectorTypes'
             /\ aborted' = "no" => Sockets' /\ (channel_' = "removed" <=> channel_ = "removed")
  <2>1. opened' = opened + 1 /\ given' = given /\ channel_ # "watching"
        /\ closed' = IF o = "hard" THEN closed + 1 ELSE closed
    BY <1>3 DEF connect, Sockets
  <2>2. CASE o = "progress"
    <3>1. state_' = "kConnecting" /\ channel_' = "watching" /\ closed' = closed
          /\ (aborted' = "no" => channel_ = "none")
      BY <1>3, <2>1, <2>2 DEF connect
    <3>2. QED
      BY <1>3, <2>1, <3>1 DEF Types, ConnectorTypes, Sockets
  <2>3. CASE o # "progress"
    <3>1. state_' = state_ /\ channel_' = channel_ /\ (aborted' = "no" => o # "soft")
      BY <1>3, <2>3 DEF connect
    <3>2. ConnectorTypes'
      BY <2>1, <3>1 DEF Types, ConnectorTypes
    <3>3. CASE o = "hard"
      BY <1>3, <2>1, <3>1, <3>2, <3>3 DEF Types, Sockets
    <3>4. CASE o # "hard"
      BY <1>3, <2>3, <3>2, <3>4, OutcomesAssumption DEF connect
    <3>5. QED
      BY <3>3, <3>4
  <2>4. QED
    BY <2>2, <2>3
<1>4. QED
  BY <1>1, <1>2, <1>3 DEF startInLoop

\* stopInLoop (Connector.cc:121-129).
LEMMA StopKeeps ==
  ASSUME Types, Sockets, ResetComing, SameResets, stopInLoop, established' = established,
         step' = step
  PROVE  ConnectorTypes' /\ pending' \in Seq(Functors) /\ Sockets' /\ ResetComing'
<1>1. CASE state_ = "kConnecting"
  <2>1. /\ state_' = "kDisconnected" /\ removeAndResetChannel /\ closed' = closed + 1
        /\ opened' = opened /\ given' = given
    BY <1>1 DEF stopInLoop
  <2>2. channel_ = "watching" /\ channel_' = "removed" /\ pending' \in Seq(Functors) /\ ResetComing'
    BY <1>1, <2>1, RemoveKeeps
  <2>3. QED
    BY <1>1, <2>1, <2>2 DEF Types, ConnectorTypes, Sockets
<1>2. CASE state_ # "kConnecting"
  <2>1. UNCHANGED <<connectorVars, pending, socketVars>>
    BY <1>2 DEF stopInLoop
  <2>2. ResetComing'
    BY <2>1, KeepsReset DEF connectorVars
  <2>3. QED
    BY <2>1, <2>2 DEF connectorVars, socketVars, Types, ConnectorTypes, Sockets
<1>3. QED
  BY <1>1, <1>2

\* retry() after removeAndResetChannel (Connector.cc:141-164).
LEMMA RetryKeeps ==
  ASSUME Types, Sockets, state_ = "kConnecting", retry, channel_' = "removed",
         established' = established, step' = step
  PROVE  ConnectorTypes' /\ Sockets' /\ retryTimerId_' \in Nat
<1>1. closed' = closed + 1 /\ state_' = "kDisconnected" /\ opened' = opened /\ given' = given
  BY DEF retry, CloseFailed
<1>2. retryTimerId_' \in {opened, retryTimerId_}
  BY DEF retry, ArmRetry, timerVars
<1>3. QED
  BY <1>1, <1>2 DEF Types, ConnectorTypes, Sockets

--------------------------------------------------------------------------------
(* The steps.                                                              *)

\* A step that leaves the connector and its sockets alone: what it does to the two
\* queues, and to whether a connection is there, is enough.
LEMMA PlainStep ==
  ASSUME IInv, aborted = "no", phase # "destroyed", UNCHANGED <<connectorVars, socketVars>>,
         retryTimerId_' \in Nat, pending' \in Seq(Functors), functors' \in Seq(Functors),
         Sockets => (established' => state_ = "kConnected"),
         Sockets => (step' = "restart" => ~established' /\ state_ = "kConnected"),
         ResetComing => ResetComing'
  PROVE  IInv'
  BY DEF IInv, Types, Sockets, connectorVars, socketVars

\* Nothing at all changes that the invariant speaks of.
LEMMA IdleStep ==
  ASSUME IInv, aborted = "no", phase # "destroyed",
         UNCHANGED <<connectorVars, socketVars, retryTimerId_, pending, functors, established>>,
         step' \in {"none", "startInLoop", step}
  PROVE  IInv'
<1>1. ResetComing => ResetComing'
  BY DEF ResetComing, connectorVars
<1>2. QED
  BY <1>1, PlainStep DEF IInv, Types, Sockets

\* A functor taken from the batch that is not a reset.
LEMMA FunctorTaken ==
  ASSUME IInv, aborted = "no", phase # "destroyed", NEW op, op # "resetChannel", NextFunctor(op)
  PROVE  SameResets
<1>1. functors # << >> /\ Head(functors).op # "resetChannel" /\ functors' = Tail(functors)
  BY DEF NextFunctor
<1>2. functors \in Seq(Functors) /\ One(functors)
  BY DEF IInv, Types, ResetComing
<1>3. QED
  BY <1>1, <1>2, TailResets DEF SameResets

\* The steps that run startInLoop.
LEMMA StartStep ==
  ASSUME IInv, aborted = "no", phase # "destroyed", phase' = phase, startInLoop, SameResets,
         step' = "none", UNCHANGED <<established, timerVars, pending>>
  PROVE  IInv'
<1>1. Types /\ Sockets /\ ResetComing
  BY DEF IInv
<1>2. /\ ConnectorTypes'
      /\ aborted' = "no" => Sockets' /\ (channel_' = "removed" <=> channel_ = "removed")
  BY <1>1, StartKeeps
<1>3. Types'
  BY <1>1, <1>2 DEF Types, ConnectorTypes, SameResets, timerVars
<1>4. aborted' = "no" => ResetComing'
  BY <1>1, <1>2, KeepsReset
<1>5. QED
  BY <1>2, <1>3, <1>4 DEF IInv

\* The steps that run stopInLoop.
LEMMA StopStep ==
  ASSUME IInv, aborted = "no", phase # "destroyed", stopInLoop, SameResets,
         UNCHANGED <<established, step, retryTimerId_>>
  PROVE  IInv'
<1>1. Types /\ Sockets /\ ResetComing
  BY DEF IInv
<1>2. ConnectorTypes' /\ pending' \in Seq(Functors) /\ Sockets' /\ ResetComing'
  BY <1>1, StopKeeps
<1>3. QED
  BY <1>1, <1>2 DEF IInv, Types, ConnectorTypes, SameResets

\* Nothing is taken from the batch.
LEMMA BatchKept ==
  ASSUME Types, ResetComing, functors' = functors
  PROVE  SameResets
  BY DEF Types, ResetComing, SameResets

\* handleError and handleWrite (Connector.cc:166-211).
LEMMA EventStep ==
  ASSUME IInv, handleError \/ handleWrite
  PROVE  IInv'
<1>1. /\ aborted = "no" /\ phase # "destroyed"
      /\ UNCHANGED <<phase, functors, step>>
  BY DEF handleError, handleWrite, NextCallback, OnLoop, Running
<1>2. Types /\ Sockets /\ ResetComing /\ SameResets
  BY <1>1, BatchKept DEF IInv
<1>3. CASE handleError /\ state_ # "kConnecting"
  <2>1. aborted' = "handleError" /\ UNCHANGED <<connectorVars, timerVars, pending, socketVars>>
    BY <1>3 DEF handleError
  <2>2. QED
    BY <1>1, <1>2, <2>1 DEF IInv, Types, connectorVars, timerVars, socketVars
<1>4. CASE handleWrite /\ state_ # "kConnecting"
  <2>1. UNCHANGED <<connectorVars, timerVars, pending, socketVars, established>>
    BY <1>4 DEF handleWrite
  <2>2. ResetComing'
    BY <1>2, <2>1, KeepsReset DEF connectorVars
  <2>3. Types' /\ Sockets'
    BY <1>1, <1>2, <2>1 DEF Types, Sockets, connectorVars, timerVars, socketVars
  <2>4. QED
    BY <2>2, <2>3 DEF IInv
<1>5. ASSUME state_ = "kConnecting", removeAndResetChannel, retry, established' = established
      PROVE  IInv'
  <2>1. channel_' = "removed" /\ pending' \in Seq(Functors) /\ ResetComing'
    BY <1>2, <1>5, RemoveKeeps
  <2>2. ConnectorTypes' /\ Sockets' /\ retryTimerId_' \in Nat
    BY <1>1, <1>2, <1>5, <2>1, RetryKeeps
  <2>3. QED
    BY <1>1, <1>2, <2>1, <2>2 DEF IInv, Types, ConnectorTypes
<1>6. ASSUME state_ = "kConnecting", removeAndResetChannel, state_' = "kConnected",
             newConnection \/ Unwanted, UNCHANGED <<timerVars, opened>>
      PROVE  IInv'
  <2>1. channel_ = "watching" /\ channel_' = "removed" /\ pending' \in Seq(Functors) /\ ResetComing'
    BY <1>2, <1>6, RemoveKeeps
  <2>2. /\ closed' \in Nat /\ given' \in Nat
        /\ closed' + given' = closed + given + 1 /\ opened' = opened /\ opened \in Nat
        /\ retryTimerId_' = retryTimerId_
    BY <1>2, <1>6 DEF newConnection, Unwanted, Types, timerVars
  <2>3. step # "restart"
    BY <1>2, <1>6 DEF Sockets
  <2>4. Sockets'
    <3>1. opened = closed + given + 1
      BY <1>2, <2>1 DEF Sockets
    <3>2. opened' = closed' + given' + 0
      BY <2>2, <3>1
    <3>3. QED
      BY <1>1, <1>6, <2>1, <2>3, <3>2 DEF Sockets
  <2>5. Types'
    BY <1>1, <1>2, <1>6, <2>1, <2>2 DEF Types
  <2>6. QED
    BY <2>1, <2>4, <2>5 DEF IInv
<1>7. CASE handleError /\ state_ = "kConnecting"
  BY <1>5, <1>7 DEF handleError
<1>8. CASE handleWrite /\ state_ = "kConnecting"
  BY <1>5, <1>6, <1>8 DEF handleWrite
<1>9. QED
  BY <1>3, <1>4, <1>7, <1>8

\* Outside doPendingFunctors the batch is empty.
Batch == phase \in {"poll", "channels"} => functors = << >>

\* It is empty from the start, and SwapFunctors and EndFunctors keep it so.
LEMMA BatchInductive == Batch /\ [Next]_vars => Batch'
<1> SUFFICES ASSUME Batch, [Next]_vars PROVE Batch'
  OBVIOUS
<1>1. CASE UNCHANGED <<phase, functors>>
  BY <1>1 DEF Batch
<1>2. ASSUME NEW e \in {"none", "out", "err"}, Poll(e) PROVE Batch'
  BY <1>2 DEF Poll, OnLoop, Batch
<1>3. ASSUME NEW op, NextFunctor(op) PROVE Batch'
  BY <1>3 DEF NextFunctor, OnLoop, Batch
<1>4. CASE SwapFunctors \/ EndFunctors \/ Destruct
  BY <1>4 DEF SwapFunctors, EndFunctors, Destruct, OnLoop, Batch
<1>5. CASE handleError \/ handleWrite
  BY <1>1, <1>5 DEF handleError, handleWrite, NextCallback
<1>6. CASE StartFunctor \/ StopFunctor \/ CancelFunctor \/ resetChannel
  BY <1>3, <1>6 DEF StartFunctor, StopFunctor, CancelFunctor, resetChannel
<1>7. ASSUME NEW id, TimerRuns(id) \/ TimerExpires(id) PROVE Batch'
  BY <1>1, <1>7 DEF TimerRuns, TimerExpires, loopVars
<1>8. CASE StartNow \/ restart \/ ConnectionCloses
  BY <1>1, <1>8 DEF StartNow, restart, ConnectionCloses, loopVars
<1>9. CASE UserConnect \/ UserDisconnect \/ UserStop
  BY <1>1, <1>9 DEF UserConnect, UserDisconnect, UserStop, InCallback, loopVars
<1>10. CASE (\E c \in UserCalls : OtherCalls(c)) \/ OtherStores \/ OtherQueues
  BY <1>1, <1>10 DEF OtherCalls, OtherStores, OtherQueues, OtherStep, loopVars
<1>11. CASE UNCHANGED vars
  BY <1>1, <1>11 DEF vars, loopVars
<1>12. QED
  BY <1>2, <1>4, <1>5, <1>6, <1>7, <1>8, <1>9, <1>10, <1>11 DEF Next, LoopStep

\* Every step keeps the invariant.
LEMMA Inductive == IInv /\ Batch /\ [Next]_vars => IInv'
<1> SUFFICES ASSUME IInv, Batch, [Next]_vars PROVE IInv'
  OBVIOUS
<1>1. ASSUME NEW e \in {"none", "out", "err"}, Poll(e) PROVE IInv'
  <2>1. /\ aborted = "no" /\ phase # "destroyed" /\ step' = step
        /\ UNCHANGED <<connectorVars, socketVars, retryTimerId_, pending, functors, established>>
    BY <1>1 DEF Poll, OnLoop, Running, timerVars
  <2>2. QED
    BY <2>1, IdleStep
<1>2. CASE handleError \/ handleWrite
  BY <1>2, EventStep
<1>3. ASSUME NEW id, TimerRuns(id) PROVE IInv'
  <2>1. /\ aborted = "no" /\ phase # "destroyed" /\ phase' = phase /\ startInLoop /\ step' = "none"
        /\ functors' = functors /\ UNCHANGED <<established, timerVars, pending>>
    BY <1>3 DEF TimerRuns, OnLoop, Running, loopVars
  <2>2. SameResets
    BY <2>1, BatchKept DEF IInv
  <2>3. QED
    BY <2>1, <2>2, StartStep
<1>4. CASE SwapFunctors
  <2>1. /\ aborted = "no" /\ phase # "destroyed" /\ functors' = pending /\ pending' = << >>
        /\ UNCHANGED <<connectorVars, socketVars, retryTimerId_, established, step>>
    BY <1>4 DEF SwapFunctors, OnLoop, Running, timerVars
  <2>2. functors = << >> /\ Resets(<< >>) = {} /\ << >> \in Seq(Functors)
    BY <1>4 DEF SwapFunctors, OnLoop, Batch, Resets
  <2>3. ResetComing => ResetComing'
    BY <2>1, <2>2 DEF ResetComing, connectorVars, One
  <2>4. QED
    BY <2>1, <2>2, <2>3, PlainStep DEF IInv, Types, Sockets
<1>5. CASE StartFunctor
  <2>1. /\ aborted = "no" /\ phase # "destroyed" /\ phase' = phase /\ startInLoop /\ step' = "none"
        /\ NextFunctor("startInLoop") /\ UNCHANGED <<established, timerVars, pending>>
    BY <1>5 DEF StartFunctor, NextFunctor, OnLoop, Running
  <2>2. SameResets
    BY <2>1, FunctorTaken
  <2>3. QED
    BY <2>1, <2>2, StartStep
<1>6. CASE StopFunctor
  <2>1. /\ aborted = "no" /\ phase # "destroyed" /\ stopInLoop /\ NextFunctor("stopInLoop")
        /\ UNCHANGED <<established, step, retryTimerId_>>
    BY <1>6 DEF StopFunctor, NextFunctor, OnLoop, Running, timerVars
  <2>2. SameResets
    BY <2>1, FunctorTaken
  <2>3. QED
    BY <2>1, <2>2, StopStep
<1>7. CASE CancelFunctor
  <2>1. /\ aborted = "no" /\ phase # "destroyed" /\ NextFunctor("cancelTimer")
        /\ UNCHANGED <<connectorVars, socketVars, established, step, retryTimerId_, pending>>
    BY <1>7 DEF CancelFunctor, NextFunctor, OnLoop, Running
  <2>2. SameResets
    BY <2>1, FunctorTaken
  <2>3. ResetComing => ResetComing'
    BY <2>1, <2>2, KeepsReset DEF IInv, connectorVars
  <2>4. QED
    BY <2>1, <2>2, <2>3, PlainStep DEF IInv, Types, Sockets, SameResets
<1>8. CASE resetChannel
  <2>1. /\ aborted = "no" /\ phase # "destroyed" /\ functors # << >>
        /\ Head(functors).op = "resetChannel" /\ functors' = Tail(functors) /\ channel_' = "none"
        /\ UNCHANGED <<state_, socketVars, established, step, retryTimerId_, pending>>
    BY <1>8 DEF resetChannel, NextFunctor, OnLoop, Running, timerVars
  <2>2. Types /\ Sockets /\ ResetComing
    BY <2>1 DEF IInv
  <2>3. functors' \in Seq(Functors) /\ One(functors') /\ Resets(functors) # {} /\ Resets(functors') = {}
    BY <2>1, <2>2, TailResets DEF Types, ResetComing
  <2>4. channel_ = "removed" /\ Resets(pending) = {}
    BY <2>2, <2>3 DEF ResetComing
  <2>5. ResetComing'
    BY <2>1, <2>2, <2>3, <2>4 DEF ResetComing
  <2>6. Types' /\ Sockets'
    BY <2>1, <2>2, <2>3, <2>4 DEF Types, Sockets, socketVars
  <2>7. QED
    BY <2>5, <2>6 DEF IInv
<1>9. CASE EndFunctors
  <2>1. /\ aborted = "no" /\ phase # "destroyed" /\ step' = step
        /\ UNCHANGED <<connectorVars, socketVars, retryTimerId_, pending, functors, established>>
    BY <1>9 DEF EndFunctors, OnLoop, Running, timerVars
  <2>2. QED
    BY <2>1, IdleStep
<1>10. CASE StartNow
  <2>1. /\ aborted = "no" /\ phase # "destroyed" /\ phase' = phase /\ startInLoop /\ step' = "none"
        /\ functors' = functors /\ UNCHANGED <<established, timerVars, pending>>
    BY <1>10 DEF StartNow, Running, loopVars
  <2>2. SameResets
    BY <2>1, BatchKept DEF IInv
  <2>3. QED
    BY <2>1, <2>2, StartStep
<1>11. CASE restart
  <2>1. /\ aborted = "no" /\ phase # "destroyed" /\ step = "restart" /\ step' = "startInLoop"
        /\ state_' = "kDisconnected"
        /\ UNCHANGED <<channel_, socketVars, established, retryTimerId_, pending, functors>>
    BY <1>11 DEF restart, Running, timerVars, loopVars
  <2>2. Types /\ Sockets /\ ResetComing
    BY <2>1 DEF IInv
  <2>3. Types' /\ Sockets' /\ ResetComing'
    BY <2>1, <2>2 DEF Types, Sockets, ResetComing, socketVars
  <2>4. QED
    BY <2>3 DEF IInv
<1>12. ASSUME NEW id, TimerExpires(id) PROVE IInv'
  <2>1. /\ aborted = "no" /\ phase # "destroyed" /\ step' = step
        /\ UNCHANGED <<connectorVars, socketVars, retryTimerId_, pending, functors, established>>
    BY <1>12 DEF TimerExpires, OnLoop, Running, loopVars
  <2>2. QED
    BY <2>1, IdleStep
<1>13. CASE UserConnect \/ UserDisconnect
  <2>1. /\ aborted = "no" /\ phase # "destroyed" /\ step' \in {"startInLoop", step}
        /\ UNCHANGED <<connectorVars, socketVars, retryTimerId_, pending, functors, established>>
    BY <1>13 DEF UserConnect, UserDisconnect, InCallback, OnLoop, Running, timerVars, loopVars
  <2>2. QED
    BY <2>1, IdleStep
<1>14. CASE UserStop
  <2>1. /\ aborted = "no" /\ phase # "destroyed" /\ stopInLoop /\ functors' = functors
        /\ UNCHANGED <<established, step, retryTimerId_>>
    BY <1>14 DEF UserStop, stopNow, InCallback, OnLoop, Running, loopVars
  <2>2. SameResets
    BY <2>1, BatchKept DEF IInv
  <2>3. QED
    BY <2>1, <2>2, StopStep
<1>15. CASE ConnectionCloses
  <2>1. /\ aborted = "no" /\ phase # "destroyed" /\ established /\ established' = FALSE
        /\ UNCHANGED <<connectorVars, socketVars, retryTimerId_, pending, functors>>
    BY <1>15 DEF ConnectionCloses, OnLoop, Running, timerVars, loopVars
  <2>2. ResetComing => ResetComing'
    BY <2>1 DEF ResetComing, connectorVars
  <2>3. QED
    BY <2>1, <2>2, PlainStep DEF IInv, Types, Sockets
<1>16. CASE Destruct
  <2>1. /\ aborted = "no" /\ phase # "destroyed" /\ phase' = "destroyed"
        /\ UNCHANGED <<established, functors, step>>
    BY <1>16 DEF Destruct, OnLoop, Running
  <2>2. Types /\ Sockets /\ ResetComing /\ SameResets
    BY <2>1, BatchKept DEF IInv
  <2>3. CASE established
    <3>1. UNCHANGED <<connectorVars, retryTimerId_, pending, socketVars>>
      BY <1>16, <2>3 DEF Destruct, timerVars
    <3>2. QED
      BY <2>1, <2>2, <3>1 DEF IInv, Types, Sockets, connectorVars, socketVars
  <2>4. CASE ~established
    <3>1. stopInLoop /\ retryTimerId_' = retryTimerId_
      BY <1>16, <2>4 DEF Destruct, stopNow
    <3>2. QED
      BY <2>1, <2>2, <3>1, StopStep
  <2>5. QED
    BY <2>3, <2>4
<1>17. ASSUME NEW c, OtherCalls(c) PROVE IInv'
  <2>1. /\ aborted = "no" /\ phase # "destroyed" /\ step' = step
        /\ UNCHANGED <<connectorVars, socketVars, retryTimerId_, pending, functors, established>>
    BY <1>17 DEF OtherCalls, OtherStep, Running, timerVars, loopVars
  <2>2. QED
    BY <2>1, IdleStep
<1>18. CASE OtherStores
  <2>1. /\ aborted = "no" /\ phase # "destroyed" /\ step' = step
        /\ UNCHANGED <<connectorVars, socketVars, retryTimerId_, pending, functors, established>>
    BY <1>18 DEF OtherStores, OtherStep, Running, timerVars, loopVars
  <2>2. QED
    BY <2>1, IdleStep
<1>19. CASE OtherQueues
  <2>1. /\ aborted = "no" /\ phase # "destroyed"
        /\ UNCHANGED <<connectorVars, socketVars, established, step, retryTimerId_, functors>>
    BY <1>19 DEF OtherQueues, OtherStep, Running, timerVars, loopVars
  <2>2. Types /\ Sockets /\ ResetComing
    BY <2>1 DEF IInv
  <2>3. /\ Functor("startInLoop", NoTimer) \in Functors /\ Functor("stopInLoop", NoTimer) \in Functors
        /\ Functor("cancelTimer", retryTimerId_) \in Functors
        /\ Functor("startInLoop", NoTimer).op # "resetChannel"
        /\ Functor("stopInLoop", NoTimer).op # "resetChannel"
        /\ Functor("cancelTimer", retryTimerId_).op # "resetChannel"
    BY <2>2 DEF Functor, NoTimer, Functors, Ops, Types
  <2>4. pending' = pending \/ \E f \in Functors : f.op # "resetChannel" /\ pending' = Append(pending, f)
    BY <1>19, <2>3 DEF OtherQueues
  <2>5. pending' \in Seq(Functors) /\ Resets(pending') = Resets(pending)
    BY <2>2, <2>4, AppendOther, Zenon DEF Types
  <2>6. ResetComing'
    BY <2>1, <2>2, <2>5 DEF ResetComing, connectorVars, One
  <2>7. QED
    BY <2>1, <2>2, <2>5, <2>6, PlainStep DEF Types, Sockets
<1>20. CASE UNCHANGED vars
  <2>1. UNCHANGED <<connectorVars, socketVars, retryTimerId_, pending, functors, established, step,
                    aborted, phase>>
    BY <1>20 DEF vars, timerVars, loopVars
  <2>2. QED
    BY <2>1 DEF IInv, Types, Sockets, ResetComing, connectorVars, socketVars
<1>21. QED
  BY <1>1, <1>2, <1>3, <1>4, <1>5, <1>6, <1>7, <1>8, <1>9, <1>10, <1>11, <1>12, <1>13, <1>14,
     <1>15, <1>16, <1>17, <1>18, <1>19, <1>20 DEF Next, LoopStep

\* The two invariants hold throughout.
LEMMA Invariant == Spec => [](IInv /\ Batch)
<1>1. Init => IInv /\ Batch
  <2> SUFFICES ASSUME Init PROVE IInv /\ Batch
    OBVIOUS
  <2>1. Types
    BY DEF Init, NewConnector, Types, NoTimer
  <2>2. Resets(pending) = {} /\ Resets(functors) = {}
    BY DEF Init, Resets
  <2>3. Sockets /\ ResetComing /\ Batch
    BY <2>2 DEF Init, NewConnector, Sockets, ResetComing, One, Batch
  <2>4. QED
    BY <2>1, <2>3 DEF IInv
<1>2. QED
  BY <1>1, Inductive, BatchInductive, PTL DEF Spec

\* No socket leaks or is closed twice, and the connector makes no second connection beside
\* an established one, for any number of attempts and calls (Connector.cc:75-211).
THEOREM SocketsAlwaysAccounted == Spec => []SocketsAccounted
<1>1. IInv => SocketsAccounted
  BY DEF IInv, Sockets, SocketsAccounted
<1>2. QED
  BY <1>1, Invariant, PTL

\* kConnecting is watching a channel, and a removed channel has its one reset coming
\* (Connector.cc:131-139, 213-226).
THEOREM ChannelAlwaysFollows == Spec => []ChannelFollowsState
<1>1. IInv => ChannelFollowsState
  BY DEF IInv, Sockets, ResetComing, ChannelFollowsState
<1>2. QED
  BY <1>1, Invariant, PTL

--------------------------------------------------------------------------------
(* AbortsExplained.                                                        *)

\* The channel's callbacks that are due: the attempt they are for has not become a
\* connection, and was not given up but by stop().
Callbacks ==
    /\ todo \in {<< >>, <<"write">>, <<"error", "write">>}
    /\ phase \in {"poll", "functors"} => todo = << >>
    /\ todo # << >> => state_ # "kConnected"
    /\ phase = "channels" /\ todo = <<"error", "write">> => state_ = "kConnecting" \/ stopped

\* Where a startInLoop may be on its way.
Starts(q) == {i \in 1..Len(q) : q[i].op = "startInLoop"}
Single(S) == \A i, j \in S : i = j
InStep == step = "startInLoop"
InOther == other \in {"connect", "queueStart"}
InPending == Starts(pending) # {}
InBatch == Starts(functors) # {}
InTimers == timers # {}
InDue == due # {}
NoStart == ~InStep /\ ~InOther /\ ~InPending /\ ~InBatch /\ ~InTimers /\ ~InDue

Exclusive ==
    /\ InStep => ~InOther /\ ~InPending /\ ~InBatch /\ ~InTimers /\ ~InDue
    /\ InOther => ~InPending /\ ~InBatch /\ ~InTimers /\ ~InDue
    /\ InPending => ~InBatch /\ ~InTimers /\ ~InDue
    /\ InBatch => ~InTimers /\ ~InDue
    /\ InTimers => ~InDue
Singles == Single(Starts(pending)) /\ Single(Starts(functors)) /\ Single(timers) /\ Single(due)

\* With one connect() called there is at most one, and the connector is kDisconnected for it.
OneStart ==
    /\ connects \in Nat
    /\ connects = 0 => NoStart /\ state_ = "kDisconnected"
    /\ connects <= 1 => Exclusive /\ Singles /\ (state_ = "kDisconnected" \/ NoStart)

\* What the two operations do to state_.
LEMMA StartState == startInLoop => \/ state_' = state_
                                   \/ state_ = "kDisconnected" /\ state_' = "kConnecting"
  BY DEF startInLoop, connect, connectorVars

\* The same for stopInLoop.
LEMMA StopState == stopInLoop => state_' = state_ \/ state_' = "kDisconnected"
  BY DEF stopInLoop, connectorVars

\* Every step keeps Callbacks.
LEMMA CallbacksInductive == IInv /\ Callbacks /\ [Next]_vars => Callbacks'
<1> SUFFICES ASSUME IInv, Callbacks, [Next]_vars PROVE Callbacks'
  OBVIOUS
<1> USE DEF loopVars, connectorVars, callVars
<1>0. /\ Tail(<<"write">>) = << >> /\ Tail(<<"error", "write">>) = <<"write">>
      /\ Head(<<"write">>) = "write" /\ Head(<<"error", "write">>) = "error"
      /\ <<"write">> # <<"error", "write">> /\ <<"write">> # << >> /\ <<"error", "write">> # << >>
  OBVIOUS
<1>1. CASE UNCHANGED <<todo, phase, state_>> /\ (stopped => stopped')
  BY <1>1 DEF Callbacks
<1>2. ASSUME NEW e \in {"none", "out", "err"}, Poll(e) PROVE Callbacks'
  <2>1. /\ aborted = "no" /\ phase = "poll" /\ phase' = "channels" /\ UNCHANGED <<state_, stopped>>
        /\ e # "none" => channel_ = "watching"
    BY <1>2 DEF Poll, OnLoop, Running
  <2>2. todo' = IF e = "none" THEN << >> ELSE IF e = "out" THEN <<"write">> ELSE <<"error", "write">>
    BY <1>2 DEF Poll
  <2>3. e # "none" => state_ = "kConnecting"
    BY <2>1 DEF IInv, Sockets
  <2>4. QED
    BY <1>0, <2>1, <2>2, <2>3 DEF Callbacks
<1>3. CASE handleError
  <2>1. /\ todo # << >> /\ Head(todo) = "error" /\ todo' = Tail(todo) /\ phase' = phase /\ phase = "channels"
    BY <1>3 DEF handleError, NextCallback, OnLoop
  <2>2. todo = <<"error", "write">> /\ todo' = <<"write">>
    BY <1>0, <2>1, Zenon DEF Callbacks
  <2>3. state_' # "kConnected"
    BY <1>3, <2>2, <1>0 DEF handleError, retry, Callbacks
  <2>4. QED
    BY <1>0, <2>1, <2>2, <2>3 DEF Callbacks
<1>4. CASE handleWrite
  <2>1. /\ todo # << >> /\ Head(todo) = "write" /\ todo' = Tail(todo)
    BY <1>4 DEF handleWrite, NextCallback
  <2>2. todo' = << >>
    BY <1>0, <2>1 DEF Callbacks
  <2>3. QED
    BY <1>0, <2>2 DEF Callbacks
<1>5. ASSUME UNCHANGED <<todo, phase, stopped>>, startInLoop PROVE Callbacks'
  <2>1. state_' = state_ \/ state_' = "kConnecting"
    BY <1>5, StartState
  <2>2. QED
    BY <1>5, <2>1 DEF Callbacks
<1>6. ASSUME NEW id, TimerRuns(id) PROVE Callbacks'
  BY <1>5, <1>6 DEF TimerRuns
<1>7. CASE SwapFunctors \/ EndFunctors
  BY <1>0, <1>7 DEF SwapFunctors, EndFunctors, OnLoop, Callbacks
<1>8. CASE StartFunctor \/ StartNow
  BY <1>5, <1>8 DEF StartFunctor, StartNow, NextFunctor
<1>9. CASE StopFunctor \/ CancelFunctor \/ resetChannel
  <2>1. phase = "functors" /\ UNCHANGED <<phase, todo>>
    BY <1>9 DEF StopFunctor, CancelFunctor, resetChannel, NextFunctor, OnLoop
  <2>2. QED
    BY <1>0, <2>1 DEF Callbacks
<1>10. CASE restart
  <2>1. step = "restart" /\ aborted = "no" /\ UNCHANGED <<todo, phase, stopped>> /\ state_' = "kDisconnected"
    BY <1>10 DEF restart, Running
  <2>2. state_ = "kConnected"
    BY <2>1 DEF IInv, Sockets
  <2>3. QED
    BY <1>0, <2>1, <2>2 DEF Callbacks
<1>11. ASSUME NEW id, TimerExpires(id) PROVE Callbacks'
  BY <1>1, <1>11 DEF TimerExpires
<1>12. CASE UserConnect \/ UserDisconnect \/ ConnectionCloses
  BY <1>1, <1>12, Zenon DEF UserConnect, UserDisconnect, ConnectionCloses, InCallback, Call
<1>13. CASE UserStop
  <2>1. stopped' = TRUE /\ UNCHANGED <<todo, phase>> /\ (state_' = state_ \/ state_' = "kDisconnected")
    BY <1>13, StopState, Zenon DEF UserStop, stopNow, InCallback, Call
  <2>2. QED
    BY <2>1 DEF Callbacks
<1>14. CASE Destruct
  <2>1. phase' = "destroyed" /\ todo' = todo /\ (state_' = state_ \/ state_' = "kDisconnected")
    BY <1>14, StopState DEF Destruct, stopNow
  <2>2. QED
    BY <2>1 DEF Callbacks
<1>15. CASE (\E c \in UserCalls : OtherCalls(c)) \/ OtherStores \/ OtherQueues
  BY <1>1, <1>15, Zenon DEF OtherCalls, OtherStores, OtherQueues, OtherStep, Call
<1>16. CASE UNCHANGED vars
  BY <1>1, <1>16 DEF vars
<1>17. QED
  BY <1>2, <1>3, <1>4, <1>6, <1>7, <1>8, <1>9, <1>10, <1>11, <1>12, <1>13, <1>14, <1>15, <1>16
    DEF Next, LoopStep

--------------------------------------------------------------------------------
(* OneStart.                                                               *)

\* A functor appended, and taken.
LEMMA AppendStarts ==
  ASSUME NEW q \in Seq(Functors), NEW f \in Functors
  PROVE  /\ f.op # "startInLoop" => Starts(Append(q, f)) = Starts(q)
         /\ Starts(q) = {} => Single(Starts(Append(q, f)))
<1>1. /\ Len(q) \in Nat /\ Len(Append(q, f)) = Len(q) + 1
      /\ Append(q, f)[Len(q) + 1] = f /\ \A i \in 1..Len(q) : Append(q, f)[i] = q[i]
  BY AppendProperties, LenProperties
<1>2. f.op # "startInLoop" => Starts(Append(q, f)) = Starts(q)
  BY <1>1 DEF Starts
<1>3. Starts(q) = {} => \A i \in Starts(Append(q, f)) : i = Len(q) + 1
  BY <1>1 DEF Starts
<1>4. QED
  BY <1>2, <1>3 DEF Single

\* The functor at the head is taken, and the others keep their order.
LEMMA TailStarts ==
  ASSUME NEW q \in Seq(Functors), q # << >>, Single(Starts(q))
  PROVE  /\ Single(Starts(Tail(q))) /\ (Starts(q) = {} => Starts(Tail(q)) = {})
         /\ Head(q).op = "startInLoop" => Starts(q) # {} /\ Starts(Tail(q)) = {}
<1>1. /\ Len(Tail(q)) = Len(q) - 1 /\ Len(q) \in Nat \ {0}
      /\ \A i \in 1..(Len(q) - 1) : Tail(q)[i] = q[i + 1]
      /\ Head(q) = q[1]
  BY HeadTailProperties, LenProperties, EmptySeq
<1>2. \A i \in Starts(Tail(q)) : i \in Nat /\ i > 0 /\ i + 1 \in Starts(q)
  BY <1>1 DEF Starts
<1>3. Single(Starts(Tail(q)))
  <2> SUFFICES ASSUME NEW i \in Starts(Tail(q)), NEW j \in Starts(Tail(q)) PROVE i = j
    BY DEF Single
  <2>1. i + 1 = j + 1 /\ i \in Nat /\ j \in Nat
    BY <1>2 DEF Single
  <2>2. QED
    BY <2>1
<1>4. ASSUME Head(q).op = "startInLoop" PROVE Starts(q) # {} /\ Starts(Tail(q)) = {}
  <2>1. 1 \in Starts(q)
    BY <1>1, <1>4 DEF Starts
  <2>2. \A i \in Starts(Tail(q)) : i + 1 = 1 /\ i \in Nat /\ i > 0
    BY <1>2, <2>1 DEF Single
  <2>3. QED
    BY <2>1, <2>2
<1>5. QED
  BY <1>2, <1>3, <1>4

\* The queues, when no startInLoop is added.
FewerQueued ==
    /\ Starts(pending) = {} => Starts(pending') = {}
    /\ Single(Starts(pending)) => Single(Starts(pending'))
    /\ Single(Starts(functors)) =>
         Single(Starts(functors')) /\ (Starts(functors) = {} => Starts(functors') = {})

\* Another functor appended, or one taken, leaves no more startInLoops than before.
LEMMA QueuedFewer ==
  ASSUME Types,
         pending' = pending \/ \E f \in Functors : f.op # "startInLoop" /\ pending' = Append(pending, f),
         functors' = functors \/ (functors # << >> /\ functors' = Tail(functors))
  PROVE  FewerQueued
<1>1. pending \in Seq(Functors) /\ functors \in Seq(Functors)
  BY DEF Types
<1>2. Starts(pending') = Starts(pending)
  BY <1>1, AppendStarts, Zenon
<1>3. Single(Starts(functors)) =>
        Single(Starts(functors')) /\ (Starts(functors) = {} => Starts(functors') = {})
  BY <1>1, TailStarts, Zenon
<1>4. QED
  BY <1>2, <1>3 DEF FewerQueued

\* A step that adds none.
LEMMA FewerStarts ==
  ASSUME OneStart, UNCHANGED connects, state_' = state_ \/ state_' = "kDisconnected", FewerQueued,
         InStep' => InStep, InOther' => InOther, timers' \subseteq timers, due' \subseteq due
  PROVE  OneStart'
<1>1. CASE connects > 1
  BY <1>1 DEF OneStart
<1>2. CASE connects <= 1
  <2>1. Exclusive /\ Singles /\ (state_ = "kDisconnected" \/ NoStart)
    BY <1>2 DEF OneStart
  <2>2. Singles'
    BY <2>1 DEF Singles, Single, FewerQueued
  <2>3. /\ InPending' => InPending
        /\ InBatch' => InBatch
        /\ InTimers' => InTimers
        /\ InDue' => InDue
    BY <2>1 DEF FewerQueued, Singles, InPending, InBatch, InTimers, InDue
  <2>4. NoStart => NoStart'
    BY <2>3 DEF NoStart
  <2>5. Exclusive'
    BY <2>1, <2>3 DEF Exclusive
  <2>6. QED
    BY <1>2, <2>1, <2>2, <2>4, <2>5 DEF OneStart
<1>3. QED
  BY <1>1, <1>2 DEF OneStart

\* A step that calls connect() for the first time, or a later one.
LEMMA CallMade ==
  ASSUME OneStart, connects' = connects + 1, connects = 0 => Exclusive' /\ Singles' /\ state_' = "kDisconnected"
  PROVE  OneStart'
  BY DEF OneStart

\* The one startInLoop is run.
LEMMA StartRuns ==
  ASSUME OneStart, UNCHANGED connects, startInLoop, connects <= 1 => ~NoStart /\ NoStart' /\ Singles'
  PROVE  /\ OneStart'
         /\ connects <= 1 => state_ = "kDisconnected"
<1>1. connects \in Nat /\ (connects <= 1 => connects # 0)
  BY DEF OneStart
<1>2. NoStart' => Exclusive'
  BY DEF NoStart, Exclusive
<1>3. connects <= 1 => state_ = "kDisconnected"
  BY DEF OneStart
<1>4. OneStart'
  BY <1>1, <1>2 DEF OneStart
<1>5. QED
  BY <1>3, <1>4

\* What the three steps that run it do to the startInLoops on their way.
LEMMA StartTaken ==
  ASSUME Types, OneStart, startInLoop, UNCHANGED <<connects, pending, timers, other>>,
         \/ InStep /\ ~InStep' /\ UNCHANGED <<due, functors>>
         \/ /\ InStep' => InStep
            /\ functors # << >> /\ Head(functors).op = "startInLoop" /\ functors' = Tail(functors)
            /\ UNCHANGED due
         \/ /\ InStep' => InStep
            /\ \E id \in due : due' = due \ {id}
            /\ UNCHANGED functors
  PROVE  OneStart' /\ (connects <= 1 => state_ = "kDisconnected")
<1>1. ASSUME connects <= 1 PROVE ~NoStart /\ NoStart' /\ Singles'
  <2>1. Exclusive /\ Singles /\ functors \in Seq(Functors)
    BY <1>1 DEF OneStart, Types
  <2>2. InPending' = InPending /\ InTimers' = InTimers /\ InOther' = InOther
    BY DEF InPending, InTimers, InOther
  <2>3. CASE InStep /\ ~InStep' /\ UNCHANGED <<due, functors>>
    <3>1. InBatch' = InBatch /\ InDue' = InDue
      BY <2>3 DEF InBatch, InDue
    <3>2. QED
      BY <2>1, <2>2, <2>3, <3>1 DEF Exclusive, NoStart, Singles
  <2>4. CASE /\ InStep' => InStep
             /\ functors # << >> /\ Head(functors).op = "startInLoop" /\ functors' = Tail(functors)
             /\ UNCHANGED due
    <3>1. Starts(functors) # {} /\ Starts(functors') = {} /\ InDue' = InDue
      BY <2>1, <2>4, TailStarts DEF Singles, InDue
    <3>2. InBatch /\ ~InBatch' /\ Single(Starts(functors'))
      BY <3>1 DEF InBatch, Single
    <3>3. QED
      BY <2>1, <2>2, <2>4, <3>1, <3>2 DEF Exclusive, NoStart, Singles
  <2>5. CASE /\ InStep' => InStep
             /\ \E id \in due : due' = due \ {id}
             /\ UNCHANGED functors
    <3>1. InDue /\ ~InDue' /\ Single(due') /\ InBatch' = InBatch
      BY <2>1, <2>5 DEF Singles, Single, InDue, InBatch
    <3>2. QED
      BY <2>1, <2>2, <2>5, <3>1 DEF Exclusive, NoStart, Singles
  <2>6. QED
    BY <2>3, <2>4, <2>5
<1>2. QED
  BY <1>1, StartRuns

\* stopInLoop adds no startInLoop.
LEMMA StopAppends ==
  ASSUME stopInLoop \/ removeAndResetChannel
  PROVE  pending' = pending \/ \E f \in Functors : f.op # "startInLoop" /\ pending' = Append(pending, f)
<1>1. Functor("resetChannel", NoTimer) \in Functors /\ Functor("resetChannel", NoTimer).op # "startInLoop"
  BY DEF Functor, NoTimer, Functors, Ops
<1>2. pending' = pending \/ pending' = Append(pending, Functor("resetChannel", NoTimer))
  BY DEF stopInLoop, removeAndResetChannel
<1>3. QED
  BY <1>1, <1>2

\* handleError and handleWrite: a retry's timer is the only startInLoop.
LEMMA EventStarts ==
  ASSUME Types, OneStart, handleError \/ handleWrite
  PROVE  OneStart'
<1>1. /\ UNCHANGED <<due, functors, step, other, connects>>
      /\ pending' = pending \/ removeAndResetChannel
  BY DEF handleError, handleWrite, NextCallback, callVars
<1>2. FewerQueued
  BY <1>1, QueuedFewer, StopAppends
<1>3. InStep' = InStep /\ InOther' = InOther
  BY <1>1 DEF InStep, InOther
<1>4. CASE timers' = timers /\ (state_' = state_ \/ state_' = "kDisconnected")
  BY <1>1, <1>2, <1>3, <1>4, FewerStarts
<1>5. CASE state_ = "kConnecting" /\ state_' = "kDisconnected" /\ timers' = timers \cup {opened}
  <2>1. CASE connects > 1
    BY <1>1, <2>1 DEF OneStart
  <2>2. CASE connects <= 1
    <3>1. NoStart /\ Singles /\ connects # 0
      BY <1>5, <2>2 DEF OneStart
    <3>2. /\ Single(timers') /\ ~InPending' /\ ~InBatch' /\ ~InDue' /\ ~InStep' /\ ~InOther'
      BY <1>1, <1>2, <1>3, <1>5, <3>1
        DEF NoStart, InTimers, InPending, InBatch, InDue, Single, FewerQueued, Singles
    <3>3. Singles' /\ Exclusive'
      BY <1>1, <1>2, <3>1, <3>2 DEF Singles, Exclusive, FewerQueued
    <3>4. QED
      BY <1>1, <1>5, <3>1, <3>3 DEF OneStart
  <2>3. QED
    BY <2>1, <2>2 DEF OneStart
<1>6. CASE state_ = "kConnecting" /\ state_' = "kConnected" /\ timers' = timers
  <2>1. CASE connects > 1
    BY <1>1, <2>1 DEF OneStart
  <2>2. CASE connects <= 1
    <3>1. NoStart /\ Singles /\ connects # 0
      BY <1>6, <2>2 DEF OneStart
    <3>2. NoStart'
      BY <1>1, <1>2, <1>3, <1>6, <3>1
        DEF NoStart, InTimers, InPending, InBatch, InDue, FewerQueued, Singles
    <3>3. Singles' /\ Exclusive'
      BY <1>1, <1>2, <1>6, <3>1, <3>2 DEF Singles, Exclusive, FewerQueued, NoStart
    <3>4. QED
      BY <1>1, <3>1, <3>2, <3>3 DEF OneStart
  <2>3. QED
    BY <2>1, <2>2 DEF OneStart
<1>7. QED
  <2>1. retry => \/ timers' = timers /\ state_' = "kDisconnected"
                 \/ state_' = "kDisconnected" /\ timers' = timers \cup {opened}
    BY DEF retry, ArmRetry, timerVars
  <2>2. QED
    BY <1>4, <1>5, <1>6, <2>1 DEF handleError, handleWrite, timerVars, connectorVars

\* Every step keeps OneStart.
LEMMA OneStartInductive == IInv /\ Batch /\ OneStart /\ [Next]_vars => OneStart'
<1> SUFFICES ASSUME IInv, Batch, OneStart, [Next]_vars PROVE OneStart'
  OBVIOUS
<1> USE DEF loopVars, connectorVars, timerVars, callVars
<1>0. Types /\ pending \in Seq(Functors) /\ functors \in Seq(Functors) /\ connects \in Nat
  BY DEF IInv, Types, OneStart
<1>1. CASE UNCHANGED <<connects, state_, pending, functors, step, other, timers, due>>
  <2>1. FewerQueued /\ InStep' = InStep /\ InOther' = InOther
    BY <1>0, <1>1, QueuedFewer DEF InStep, InOther
  <2>2. QED
    BY <1>1, <2>1, FewerStarts
<1>2. ASSUME NEW e, Poll(e) PROVE OneStart'
  BY <1>1, <1>2 DEF Poll
<1>3. CASE handleError \/ handleWrite
  BY <1>0, <1>3, EventStarts
<1>4. ASSUME NEW id \in due, TimerRuns(id) PROVE OneStart'
  <2>1. startInLoop /\ UNCHANGED <<connects, pending, timers, other, step, functors>> /\ due' = due \ {id}
    BY <1>4 DEF TimerRuns
  <2>2. InStep' = InStep
    BY <2>1 DEF InStep
  <2>3. QED
    BY <1>0, <2>1, <2>2, StartTaken
<1>5. CASE SwapFunctors
  <2>1. functors = << >> /\ functors' = pending /\ pending' = << >>
        /\ UNCHANGED <<connects, state_, step, other, timers, due>>
    BY <1>5 DEF SwapFunctors, OnLoop, Batch
  <2>2. Starts(<< >>) = {}
    BY DEF Starts
  <2>3. ~InBatch /\ InBatch' = InPending /\ ~InPending' /\ InStep' = InStep /\ InOther' = InOther
        /\ InTimers' = InTimers /\ InDue' = InDue
    BY <2>1, <2>2 DEF InBatch, InPending, InStep, InOther, InTimers, InDue
  <2>4. Singles => Singles'
    BY <2>1, <2>2 DEF Singles, Single
  <2>5. (Exclusive => Exclusive') /\ (NoStart => NoStart')
    BY <2>3 DEF Exclusive, NoStart
  <2>6. QED
    BY <2>1, <2>4, <2>5 DEF OneStart
<1>6. CASE StartFunctor
  <2>1. /\ startInLoop /\ UNCHANGED <<connects, pending, timers, other, step, due>>
        /\ functors # << >> /\ Head(functors).op = "startInLoop" /\ functors' = Tail(functors)
    BY <1>6 DEF StartFunctor, NextFunctor
  <2>2. InStep' = InStep
    BY <2>1 DEF InStep
  <2>3. QED
    BY <1>0, <2>1, <2>2, StartTaken
<1>7. CASE StopFunctor \/ CancelFunctor \/ resetChannel
  <2>1. /\ UNCHANGED <<connects, step, other, due>> /\ timers' \subseteq timers
        /\ functors # << >> /\ functors' = Tail(functors)
        /\ pending' = pending \/ stopInLoop
        /\ state_' = state_ \/ state_' = "kDisconnected"
    BY <1>7, StopState DEF StopFunctor, CancelFunctor, resetChannel, NextFunctor
  <2>2. FewerQueued
    BY <1>0, <2>1, StopAppends, QueuedFewer
  <2>3. InStep' = InStep /\ InOther' = InOther
    BY <2>1 DEF InStep, InOther
  <2>4. QED
    BY <2>1, <2>2, <2>3, FewerStarts
<1>8. CASE EndFunctors
  BY <1>1, <1>8 DEF EndFunctors
<1>9. CASE StartNow
  <2>1. /\ startInLoop /\ UNCHANGED <<connects, pending, timers, other, due, functors>>
        /\ step = "startInLoop" /\ step' = "none"
    BY <1>9 DEF StartNow
  <2>2. InStep /\ ~InStep'
    BY <2>1 DEF InStep
  <2>3. QED
    BY <1>0, <2>1, <2>2, StartTaken
<1>10. CASE restart
  <2>1. /\ step = "restart" /\ step' = "startInLoop" /\ state_' = "kDisconnected" /\ aborted = "no"
        /\ UNCHANGED <<connects, pending, timers, other, due, functors>>
    BY <1>10 DEF restart, Running
  <2>2. state_ = "kConnected"
    BY <2>1 DEF IInv, Sockets
  <2>3. CASE connects > 1
    BY <2>1, <2>3 DEF OneStart
  <2>4. CASE connects <= 1
    <3>1. NoStart /\ Singles /\ connects # 0
      BY <2>2, <2>4 DEF OneStart
    <3>2. ~InPending' /\ ~InBatch' /\ ~InDue' /\ ~InOther' /\ ~InTimers' /\ Singles'
      BY <2>1, <3>1 DEF NoStart, InPending, InBatch, InDue, InOther, InTimers, Singles
    <3>3. Exclusive'
      BY <3>2 DEF Exclusive
    <3>4. QED
      BY <2>1, <3>1, <3>2, <3>3 DEF OneStart
  <2>5. QED
    BY <1>0, <2>3, <2>4
<1>11. ASSUME NEW id \in timers, TimerExpires(id) PROVE OneStart'
  <2>1. /\ timers' = timers \ {id} /\ due' = due \cup {id}
        /\ UNCHANGED <<connects, state_, pending, functors, step, other>>
    BY <1>11 DEF TimerExpires
  <2>2. CASE connects > 1
    BY <2>1, <2>2 DEF OneStart
  <2>3. CASE connects <= 1
    <3>1. InTimers /\ Exclusive /\ Singles /\ (state_ = "kDisconnected" \/ NoStart)
      BY <2>3 DEF OneStart, InTimers
    <3>2. ~InTimers' /\ Single(timers') /\ Single(due')
      BY <2>1, <3>1 DEF Singles, Single, InTimers, Exclusive, InDue
    <3>3. InPending' = InPending /\ InBatch' = InBatch /\ InStep' = InStep /\ InOther' = InOther
      BY <2>1 DEF InPending, InBatch, InStep, InOther
    <3>4. Exclusive' /\ Singles' /\ state_' = "kDisconnected"
      BY <2>1, <3>1, <3>2, <3>3 DEF Exclusive, Singles, NoStart
    <3>5. connects # 0
      BY <3>1 DEF OneStart, NoStart
    <3>6. QED
      BY <2>1, <3>4, <3>5 DEF OneStart
  <2>4. QED
    BY <1>0, <2>2, <2>3
<1>12. CASE UserConnect
  <2>1. /\ connects' = connects + 1 /\ UNCHANGED <<state_, pending, functors, other, timers, due>>
        /\ step' \in {step, "startInLoop"}
    BY <1>12 DEF UserConnect, InCallback, Call
  <2>2. ASSUME connects = 0 PROVE Exclusive' /\ Singles' /\ state_' = "kDisconnected"
    <3>1. NoStart /\ state_ = "kDisconnected" /\ Singles
      BY <2>2 DEF OneStart
    <3>2. ~InPending' /\ ~InBatch' /\ ~InDue' /\ ~InOther' /\ ~InTimers' /\ Singles'
      BY <2>1, <3>1 DEF NoStart, InPending, InBatch, InDue, InOther, InTimers, Singles
    <3>3. QED
      BY <2>1, <3>1, <3>2 DEF Exclusive
  <2>3. QED
    BY <2>1, <2>2, CallMade
<1>13. CASE UserDisconnect \/ UserStop
  <2>1. /\ UNCHANGED <<connects, functors, other, due, step>> /\ (pending' = pending \/ stopInLoop)
        /\ timers' \subseteq timers /\ (state_' = state_ \/ state_' = "kDisconnected")
    BY <1>13, StopState DEF UserDisconnect, UserStop, stopNow, InCallback, Call
  <2>2. FewerQueued /\ InStep' = InStep /\ InOther' = InOther
    BY <1>0, <2>1, StopAppends, QueuedFewer DEF InStep, InOther
  <2>3. QED
    BY <2>1, <2>2, FewerStarts
<1>14. CASE ConnectionCloses
  <2>1. UNCHANGED <<connects, state_, pending, functors, other, timers, due>> /\ step' # "startInLoop"
    BY <1>14 DEF ConnectionCloses
  <2>2. FewerQueued /\ ~InStep' /\ InOther' = InOther
    BY <1>0, <2>1, QueuedFewer DEF InStep, InOther
  <2>3. QED
    BY <2>1, <2>2, FewerStarts
<1>15. CASE Destruct
  <2>1. /\ UNCHANGED <<connects, functors, other, due, step>> /\ (pending' = pending \/ stopInLoop)
        /\ timers' \subseteq timers /\ (state_' = state_ \/ state_' = "kDisconnected")
    BY <1>15, StopState DEF Destruct, stopNow
  <2>2. FewerQueued /\ InStep' = InStep /\ InOther' = InOther
    BY <1>0, <2>1, StopAppends, QueuedFewer DEF InStep, InOther
  <2>3. QED
    BY <2>1, <2>2, FewerStarts
<1>16. ASSUME NEW c, OtherCalls(c) PROVE OneStart'
  <2>1. UNCHANGED <<state_, pending, functors, timers, due, step>>
    BY <1>16 DEF OtherCalls, OtherStep
  <2>2. CASE c = "connect"
    <3>1. connects' = connects + 1
      BY <1>16, <2>2 DEF OtherCalls, Call
    <3>2. ASSUME connects = 0 PROVE Exclusive' /\ Singles' /\ state_' = "kDisconnected"
      <4>1. NoStart /\ state_ = "kDisconnected" /\ Singles
        BY <3>2 DEF OneStart
      <4>2. ~InPending' /\ ~InBatch' /\ ~InDue' /\ ~InStep' /\ ~InTimers' /\ Singles'
        BY <2>1, <4>1 DEF NoStart, InPending, InBatch, InDue, InStep, InTimers, Singles
      <4>3. QED
        BY <2>1, <4>1, <4>2 DEF Exclusive
    <3>3. QED
      BY <3>1, <3>2, CallMade
  <2>3. CASE c # "connect"
    <3>1. connects' = connects /\ other' \notin {"connect", "queueStart"}
      BY <1>16, <2>3, UserCallsAssumption DEF OtherCalls, OtherStep, Call
    <3>2. FewerQueued /\ InStep' = InStep /\ ~InOther'
      BY <1>0, <2>1, <3>1, QueuedFewer DEF InStep, InOther
    <3>3. QED
      BY <2>1, <3>1, <3>2, FewerStarts
  <2>4. QED
    BY <2>2, <2>3
<1>17. CASE OtherStores
  <2>1. /\ UNCHANGED <<connects, state_, pending, functors, timers, due, step>>
        /\ other' \in {"connect", "queueStart"} => other \in {"connect", "queueStart"}
    BY <1>17 DEF OtherStores, OtherStep
  <2>2. FewerQueued /\ InStep' = InStep /\ (InOther' => InOther)
    BY <1>0, <2>1, QueuedFewer DEF InStep, InOther
  <2>3. QED
    BY <2>1, <2>2, FewerStarts
<1>18. ASSUME OtherStep("queueStart", "idle"), pending' = Append(pending, Functor("startInLoop", NoTimer)),
              UNCHANGED connects
       PROVE  OneStart'
  <2>1. other = "queueStart" /\ other' = "idle" /\ UNCHANGED <<state_, functors, timers, due, step>>
    BY <1>18 DEF OtherStep
  <2>2. CASE connects > 1
    BY <1>18, <2>2 DEF OneStart
  <2>3. CASE connects <= 1
    <3>1. InOther /\ Exclusive /\ Singles /\ ~NoStart /\ state_ = "kDisconnected" /\ connects # 0
      BY <2>1, <2>3 DEF OneStart, InOther, NoStart
    <3>2. ~InPending /\ ~InBatch /\ ~InTimers /\ ~InDue /\ ~InStep
      BY <3>1 DEF Exclusive
    <3>3. Functor("startInLoop", NoTimer) \in Functors
      BY DEF Functor, NoTimer, Functors, Ops
    <3>4. Single(Starts(pending'))
      BY <1>0, <1>18, <3>2, <3>3, AppendStarts DEF InPending
    <3>5. ~InOther' /\ ~InBatch' /\ ~InTimers' /\ ~InDue' /\ ~InStep'
      BY <2>1, <3>2, Zenon DEF InOther, InBatch, InTimers, InDue, InStep
    <3>6. Exclusive' /\ Singles'
      BY <2>1, <3>1, <3>4, <3>5 DEF Exclusive, Singles
    <3>7. QED
      BY <1>18, <2>1, <3>1, <3>6 DEF OneStart
  <2>4. QED
    BY <1>0, <2>2, <2>3
<1>19. ASSUME NEW from, NEW to \in {"cancel", "idle"}, NEW op \in {"stopInLoop", "cancelTimer"},
              NEW id \in Nat, OtherStep(from, to),
              pending' = pending \/ pending' = Append(pending, Functor(op, id)), UNCHANGED connects
       PROVE  OneStart'
  <2>1. other' = to /\ UNCHANGED <<state_, functors, timers, due, step>>
    BY <1>19 DEF OtherStep
  <2>2. Functor(op, id) \in Functors /\ Functor(op, id).op # "startInLoop"
    BY DEF Functor, Functors, Ops
  <2>3. FewerQueued
    BY <1>0, <1>19, <2>1, <2>2, QueuedFewer
  <2>4. ~InOther' /\ InStep' = InStep
    BY <2>1 DEF InOther, InStep
  <2>5. QED
    BY <1>19, <2>1, <2>3, <2>4, FewerStarts
<1>20. CASE OtherQueues
  <2>1. NoTimer \in Nat /\ retryTimerId_ \in Nat
    BY <1>0 DEF NoTimer, Types
  <2>2. \/ OtherStep("queueStart", "idle") /\ pending' = Append(pending, Functor("startInLoop", NoTimer))
        \/ OtherStep("queueStop", "cancel") /\ pending' = Append(pending, Functor("stopInLoop", NoTimer))
        \/ /\ OtherStep("cancel", "idle")
           /\ pending' = pending \/ pending' = Append(pending, Functor("cancelTimer", retryTimerId_))
    BY <1>20 DEF OtherQueues
  <2>3. UNCHANGED connects
    BY <1>20 DEF OtherQueues
  <2>4. QED
    BY <1>18, <1>19, <2>1, <2>2, <2>3
<1>21. CASE UNCHANGED vars
  BY <1>1, <1>21 DEF vars
<1>22. QED
  BY <1>2, <1>3, <1>4, <1>5, <1>6, <1>7, <1>8, <1>9, <1>10, <1>11, <1>12, <1>13, <1>14, <1>15,
     <1>16, <1>17, <1>20, <1>21 DEF Next, LoopStep

--------------------------------------------------------------------------------
(* The assertions.                                                         *)

\* Those startInLoop, connect() and establishConnection() can fail.
LEMMA StartAborts ==
  ASSUME IInv, aborted = "no", phase # "destroyed", startInLoop, connects \in Nat,
         connects <= 1 => state_ = "kDisconnected", UNCHANGED <<connects, pending>>, SameResets
  PROVE  AbortsExplained'
<1>1. Sockets /\ ResetComing
  BY DEF IInv
<1>2. CASE state_ # "kDisconnected"
  BY <1>2 DEF startInLoop, AbortsExplained
<1>3. CASE aborted' = aborted
  BY <1>3 DEF AbortsExplained
<1>4. ASSUME state_ = "kDisconnected", NEW o \in Outcomes, connect(o) PROVE AbortsExplained'
  <2>1. channel_ # "watching"
    BY <1>1, <1>4 DEF Sockets
  <2>2. CASE o = "soft"
    <3>1. aborted' = "retry" /\ UNCHANGED <<state_, channel_>>
      BY <1>4, <2>2 DEF connect
    <3>2. QED
      BY <1>4, <2>1, <3>1 DEF AbortsExplained
  <2>3. CASE o = "progress" /\ channel_ # "none"
    <3>1. aborted' = "establishConnection" /\ channel_ = "removed"
      BY <1>4, <2>1, <2>3 DEF connect, IInv, Types
    <3>2. Resets(pending') # {} \/ Resets(functors') # {}
      BY <1>1, <3>1 DEF ResetComing, SameResets
    <3>3. QED
      BY <3>1, <3>2 DEF AbortsExplained
  <2>4. QED
    BY <1>3, <1>4, <2>2, <2>3 DEF connect
<1>5. QED
  BY <1>2, <1>3, <1>4 DEF startInLoop

\* That of the destructor, with a channel not yet reset.
LEMMA DestructAborts ==
  ASSUME IInv, Destruct
  PROVE  AbortsExplained'
<1>1. aborted = "no" /\ phase # "destroyed" /\ UNCHANGED <<established, functors, step>>
  BY DEF Destruct, OnLoop, Running
<1>2. Types /\ Sockets /\ ResetComing /\ SameResets
  BY <1>1, BatchKept DEF IInv
<1>3. ResetComing' /\ Sockets' /\ ConnectorTypes'
  <2>1. CASE established
    <3>1. UNCHANGED <<connectorVars, pending, socketVars>>
      BY <2>1 DEF Destruct
    <3>2. ResetComing'
      BY <1>2, <3>1, KeepsReset DEF connectorVars
    <3>3. QED
      BY <1>1, <1>2, <3>1, <3>2 DEF Sockets, Types, ConnectorTypes, connectorVars, socketVars
  <2>2. CASE ~established
    <3>1. stopInLoop
      BY <2>2 DEF Destruct, stopNow
    <3>2. QED
      BY <1>1, <1>2, <3>1, StopKeeps
  <2>3. QED
    BY <2>1, <2>2, Zenon
<1>4. channel_' # "watching"
  <2>1. CASE established
    <3>1. channel_' = channel_ /\ state_ = "kConnected"
      BY <1>2, <2>1 DEF Destruct, connectorVars, Sockets
    <3>2. QED
      BY <1>2, <3>1 DEF Sockets
  <2>2. CASE ~established
    BY <1>2, <2>2 DEF Destruct, stopNow, stopInLoop, removeAndResetChannel, connectorVars, Sockets
  <2>3. QED
    BY <2>1, <2>2
<1>5. aborted' = "no" \/ (aborted' = "~Connector" /\ channel_' = "removed")
  BY <1>1, <1>3, <1>4 DEF Destruct, ConnectorDestructs, ConnectorTypes
<1>6. channel_' = "removed" => Resets(pending') # {} \/ Resets(functors') # {}
  BY <1>3 DEF ResetComing
<1>7. QED
  BY <1>5, <1>6 DEF AbortsExplained

\* Every step's.
LEMMA AbortsInductive ==
  IInv /\ Batch /\ Callbacks /\ OneStart /\ AbortsExplained /\ [Next]_vars => AbortsExplained'
<1> SUFFICES ASSUME IInv, Batch, Callbacks, OneStart, AbortsExplained, [Next]_vars PROVE AbortsExplained'
  OBVIOUS
<1> USE DEF loopVars, connectorVars, timerVars, callVars
<1>0. Types /\ connects \in Nat
  BY DEF IInv, OneStart
<1>1. CASE aborted = "no" /\ aborted' = "no"
  BY <1>1 DEF AbortsExplained
<1>2. ASSUME NEW e, Poll(e) PROVE AbortsExplained'
  BY <1>1, <1>2 DEF Poll, OnLoop, Running
<1>3. CASE handleError \/ handleWrite
  <2>1. /\ aborted = "no" /\ phase = "channels" /\ todo # << >> /\ state_ # "kConnected"
        /\ state_ \in {"kDisconnected", "kConnecting", "kConnected"}
    BY <1>0, <1>3 DEF handleError, handleWrite, NextCallback, OnLoop, Running, Callbacks, Types
  <2>2. retry => aborted' = "no" \/ (aborted' = "bad_weak_ptr" /\ owner = "unique_ptr")
    BY <2>1 DEF retry
  <2>3. CASE handleError
    <3>1. Head(todo) = "error" /\ UNCHANGED <<stopped, owner>>
      BY <2>3 DEF handleError, NextCallback
    <3>2. todo = <<"error", "write">>
      BY <2>1, <3>1 DEF Callbacks
    <3>3. state_ = "kConnecting" \/ stopped
      BY <2>1, <3>2 DEF Callbacks
    <3>4. \/ aborted' = "no" \/ (aborted' = "bad_weak_ptr" /\ owner = "unique_ptr")
          \/ aborted' = "handleError" /\ stopped
      BY <2>2, <2>3, <3>3 DEF handleError
    <3>5. QED
      BY <3>1, <3>4 DEF AbortsExplained
  <2>4. CASE handleWrite
    <3>1. aborted' = "no" \/ (aborted' = "bad_weak_ptr" /\ owner = "unique_ptr")
      BY <2>1, <2>2, <2>4 DEF handleWrite
    <3>2. owner' = owner
      BY <2>4 DEF handleWrite, NextCallback
    <3>3. QED
      BY <3>1, <3>2 DEF AbortsExplained
  <2>5. QED
    BY <1>3, <2>3, <2>4, Zenon
<1>4. ASSUME NEW id \in due, TimerRuns(id) PROVE AbortsExplained'
  <2>1. /\ aborted = "no" /\ phase # "destroyed" /\ due' = due \ {id}
        /\ startInLoop /\ UNCHANGED <<connects, pending, timers, other, step, functors>>
    BY <1>4 DEF TimerRuns, OnLoop, Running
  <2>2. SameResets /\ InStep' = InStep
    BY <1>0, <2>1, BatchKept DEF IInv, InStep
  <2>3. connects <= 1 => state_ = "kDisconnected"
    BY <1>0, <2>1, <2>2, StartTaken
  <2>4. QED
    BY <1>0, <2>1, <2>2, <2>3, StartAborts
<1>5. CASE StartFunctor
  <2>1. /\ aborted = "no" /\ phase # "destroyed" /\ NextFunctor("startInLoop")
        /\ startInLoop /\ UNCHANGED <<connects, pending, timers, other, step, due>>
        /\ functors # << >> /\ Head(functors).op = "startInLoop" /\ functors' = Tail(functors)
    BY <1>5 DEF StartFunctor, NextFunctor, OnLoop, Running
  <2>2. SameResets /\ InStep' = InStep
    BY <2>1, FunctorTaken DEF InStep
  <2>3. connects <= 1 => state_ = "kDisconnected"
    BY <1>0, <2>1, <2>2, StartTaken
  <2>4. QED
    BY <1>0, <2>1, <2>2, <2>3, StartAborts
<1>6. CASE StartNow
  <2>1. /\ aborted = "no" /\ phase # "destroyed" /\ step = "startInLoop" /\ step' = "none"
        /\ startInLoop /\ UNCHANGED <<connects, pending, timers, other, due, functors>>
    BY <1>6 DEF StartNow, Running
  <2>2. SameResets /\ InStep /\ ~InStep'
    BY <1>0, <2>1, BatchKept DEF IInv, InStep
  <2>3. connects <= 1 => state_ = "kDisconnected"
    BY <1>0, <2>1, <2>2, StartTaken
  <2>4. QED
    BY <1>0, <2>1, <2>2, <2>3, StartAborts
<1>7. CASE SwapFunctors \/ EndFunctors
  BY <1>1, <1>7 DEF SwapFunctors, EndFunctors, OnLoop, Running
<1>8. CASE StopFunctor \/ CancelFunctor \/ resetChannel
  BY <1>1, <1>8 DEF StopFunctor, CancelFunctor, resetChannel, NextFunctor, OnLoop, Running
<1>9. CASE restart
  BY <1>1, <1>9 DEF restart, Running
<1>10. ASSUME NEW id, TimerExpires(id) PROVE AbortsExplained'
  BY <1>1, <1>10, Zenon DEF TimerExpires, OnLoop, Running
<1>11. CASE UserConnect \/ UserDisconnect \/ UserStop \/ ConnectionCloses
  BY <1>1, <1>11
    DEF UserConnect, UserDisconnect, UserStop, ConnectionCloses, InCallback, OnLoop, Running
<1>12. CASE Destruct
  BY <1>12, DestructAborts, Zenon
<1>13. CASE (\E c \in UserCalls : OtherCalls(c)) \/ OtherStores \/ OtherQueues
  BY <1>1, <1>13, Zenon DEF OtherCalls, OtherStores, OtherQueues, OtherStep, Running
<1>14. CASE UNCHANGED vars
  BY <1>14 DEF vars, AbortsExplained
<1>15. QED
  BY <1>2, <1>3, <1>4, <1>5, <1>6, <1>7, <1>8, <1>9, <1>10, <1>11, <1>12, <1>13, <1>14
    DEF Next, LoopStep

\* Which assertions of the connector can fail, and only when, for any number of calls and
\* attempts: startInLoop's after a second connect(), handleError's after a stop(),
\* handleWrite's never (Connector.cc:31, 63, 133, 144, 199, 205).
THEOREM OnlyKnownAborts == Spec => []AbortsExplained
<1>1. Init => Callbacks /\ OneStart /\ AbortsExplained
  <2> SUFFICES ASSUME Init PROVE Callbacks /\ OneStart /\ AbortsExplained
    OBVIOUS
  <2>1. Starts(pending) = {} /\ Starts(functors) = {}
    BY DEF Init, Starts
  <2>2. NoStart /\ state_ = "kDisconnected" /\ connects = 0
    BY <2>1 DEF Init, NewConnector, NoStart, InStep, InOther, InPending, InBatch, InTimers, InDue
  <2>3. Singles /\ Exclusive
    BY <2>1, <2>2 DEF Init, Singles, Single, Exclusive, NoStart
  <2>4. QED
    BY <2>2, <2>3 DEF Init, Callbacks, OneStart, AbortsExplained
<1>2. QED
  BY <1>1, CallbacksInductive, OneStartInductive, AbortsInductive, Invariant, PTL DEF Spec
================================================================================
