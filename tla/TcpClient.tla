------------------------------- MODULE TcpClient -------------------------------
(***************************************************************************)
(* ham/net/Connector.{h,cc} and ham/net/TcpClient.{h,cc}: one client, its  *)
(* connector, and the loop both live on.  Calls are made by user code on   *)
(* the loop's thread and by one other thread; a call on the loop's thread  *)
(* is split where it reads connect_ again, a call of the other thread at   *)
(* every access to shared state.  An established connection is only up or  *)
(* gone: TcpConnection models it.  A socket is counted, from socket(2) to  *)
(* close(2) or to the TcpConnection that owns it from then on.             *)
(*                                                                         *)
(* `aborted' names the assertion that failed or the exception that left    *)
(* the loop.                                                               *)
(***************************************************************************)
EXTENDS Naturals, Sequences

CONSTANTS UserCalls,    \* what users call: "connect", "disconnect", "stop"
          retry_,       \* TcpClient::setRetry
          Owners,       \* what may own the connector: "unique_ptr", as in TcpClient, or the
                        \* "shared_ptr" that its enable_shared_from_this asks for
          Outcomes,     \* of connect(2): "progress", "soft", "hard"
          Dies,         \* ~TcpClient may run
          MaxCalls,     \* bound: calls made in a behaviour
          MaxSockets,   \* bound: sockets made in a behaviour
          InitRetryDelay, MaxRetryDelay

ASSUME UserCallsAssumption == UserCalls \subseteq {"connect", "disconnect", "stop"}
ASSUME BoundsAssumption == MaxCalls \in Nat /\ MaxSockets \in Nat
ASSUME DelayAssumption ==
    InitRetryDelay \in Nat \ {0} /\ MaxRetryDelay \in Nat /\ InitRetryDelay <= MaxRetryDelay
ASSUME OutcomesAssumption == Outcomes \subseteq {"progress", "soft", "hard"}
ASSUME FlagsAssumption == retry_ \in BOOLEAN /\ Dies \in BOOLEAN
ASSUME OwnersAssumption == Owners \subseteq {"unique_ptr", "shared_ptr"}

VARIABLES state_, connect_, retryDelayMs_, retryTimerId_, validTimer_,
          channel_,         \* connectChannel_: "none", "watching", or "removed", not yet reset
          clientConnect_,   \* TcpClient::connect_
          established,      \* establishedConnection_ holds a connection
          timers, due,      \* retry timers in the TimerQueue; those it is about to run
          phase, todo,      \* where the loop is; the channel's callbacks due
          step,             \* what the loop's current handler does next, after a reread
          pending, functors,
          other,            \* where the other thread is in its call
          owner,            \* of the connector, one of Owners
          calls,
          connects,         \* history: calls of connect()
          opened, closed, given, \* history: sockets made, closed, handed to newConnCb_
          gaveUp,           \* history: connect(2) failed for good
          stopped,          \* history: stop() was called
          aborted

connectorVars == <<state_, retryDelayMs_, channel_>>
timerVars == <<retryTimerId_, validTimer_, timers>>
loopVars == <<phase, todo, functors>>
socketVars == <<opened, closed, given, gaveUp>>
callVars == <<owner, calls, connects, stopped>>
vars == <<connectorVars, connect_, timerVars, due, clientConnect_, established, loopVars, step,
          pending, other, callVars, socketVars, aborted>>

NoTimer == 0
Functor(op, id) == [op |-> op, id |-> id]

\* Connector's constructor.
NewConnector ==
    /\ state_ = "kDisconnected" /\ connect_ = FALSE /\ channel_ = "none"
    /\ retryDelayMs_ = InitRetryDelay /\ retryTimerId_ = NoTimer /\ validTimer_ = FALSE

Init ==
    /\ NewConnector
    /\ clientConnect_ = FALSE /\ established = FALSE
    /\ timers = {} /\ due = {}
    /\ phase = "poll" /\ todo = << >> /\ step = "none"
    /\ pending = << >> /\ functors = << >>
    /\ other = "idle" /\ owner \in Owners
    /\ calls = 0 /\ connects = 0 /\ stopped = FALSE
    /\ opened = 0 /\ closed = 0 /\ given = 0 /\ gaveUp = FALSE
    /\ aborted = "no"

Running == aborted = "no" /\ phase # "destroyed"

--------------------------------------------------------------------------------
(* Connector, as action fragments.                                         *)

\* Seeded fault: the channel is left for the next establishConnection to find.
removeAndResetChannel_NoReset == channel_' = "removed" /\ UNCHANGED pending

removeAndResetChannel ==
    /\ channel_' = "removed"
    /\ pending' = Append(pending, Functor("resetChannel", NoTimer))

\* std::min(retryDelayMs_ * 2, kMaxRetryDelayMs).
NextDelay(d) == IF 2 * d < MaxRetryDelay THEN 2 * d ELSE MaxRetryDelay

\* Seeded fault: the timer's id is kept and the timer never added.
ArmRetry_NoTimer ==
    /\ retryTimerId_' = opened /\ validTimer_' = TRUE
    /\ UNCHANGED timers

\* runAfter, and what is kept to cancel it; opened numbers the attempts.
ArmRetry ==
    /\ retryTimerId_' = opened /\ validTimer_' = TRUE
    /\ timers' = timers \cup {opened}

\* Seeded fault: the failed socket is not closed.
CloseFailed_Leak == closed

\* The close at the top of retry().
CloseFailed == closed + 1

\* retry(), called in kConnecting.  shared_from_this() throws where a unique_ptr owns
\* the connector.
retry ==
    /\ closed' = CloseFailed
    /\ state_' = "kDisconnected"
    /\ IF connect_ /\ owner # "unique_ptr"
         THEN ArmRetry /\ retryDelayMs_' = NextDelay(retryDelayMs_) /\ UNCHANGED aborted
         ELSE /\ UNCHANGED <<timerVars, retryDelayMs_>>
              /\ aborted' = IF connect_ THEN "bad_weak_ptr" ELSE aborted
    /\ UNCHANGED <<opened, given, gaveUp>>

\* connect(), with what connect(2) returned.  It is called in kDisconnected, and a
\* soft error calls retry(), whose first line asserts kConnecting.
connect(outcome) ==
    /\ opened < MaxSockets
    /\ opened' = opened + 1
    /\ gaveUp' = (gaveUp \/ outcome = "hard")
    /\ closed' = IF outcome = "hard" THEN closed + 1 ELSE closed
    /\ aborted' = IF outcome = "soft" THEN "retry"
                  ELSE IF outcome = "progress" /\ channel_ # "none" THEN "establishConnection"
                  ELSE aborted
    /\ IF outcome = "progress"
         THEN state_' = "kConnecting" /\ channel_' = "watching"
         ELSE UNCHANGED <<state_, channel_>>
    /\ UNCHANGED <<retryDelayMs_, given>>

startInLoop ==
    IF state_ # "kDisconnected"
      THEN aborted' = "startInLoop" /\ UNCHANGED <<connectorVars, socketVars>>
    ELSE IF connect_
      THEN \E outcome \in Outcomes : connect(outcome)
      ELSE UNCHANGED <<connectorVars, socketVars, aborted>>

stopInLoop ==
    IF state_ = "kConnecting"
      THEN /\ state_' = "kDisconnected"
           /\ removeAndResetChannel
           /\ closed' = closed + 1
           /\ UNCHANGED <<retryDelayMs_, opened, given, gaveUp>>
      ELSE UNCHANGED <<connectorVars, pending, socketVars>>

--------------------------------------------------------------------------------
(* The loop: poll, channel callbacks, functors.                            *)

OnLoop(ph) == Running /\ phase = ph /\ step = "none"

\* A socket that failed to connect reports ERR and OUT, one that did OUT.
Poll(event) ==
    /\ OnLoop("poll")
    /\ event # "none" => channel_ = "watching"
    /\ todo' = CASE event = "none" -> << >>
                 [] event = "out" -> <<"write">>
                 [] event = "err" -> <<"error", "write">>
    /\ phase' = "channels"
    /\ UNCHANGED <<connectorVars, connect_, timerVars, due, clientConnect_, established, functors,
                   step, pending, other, callVars, socketVars, aborted>>

NextCallback(cb) ==
    /\ OnLoop("channels")
    /\ todo # << >> /\ Head(todo) = cb
    /\ todo' = Tail(todo)
    /\ UNCHANGED <<connect_, due, clientConnect_, phase, functors, step, other, callVars>>

handleError ==
    /\ NextCallback("error")
    /\ UNCHANGED established
    /\ IF state_ = "kConnecting"
         THEN removeAndResetChannel /\ retry
         ELSE /\ aborted' = "handleError"
              /\ UNCHANGED <<connectorVars, timerVars, pending, socketVars>>

\* handleWrite's last branch: the connection is there, and connect_ was reset.
Unwanted == closed' = closed + 1 /\ UNCHANGED <<established, given>>

\* newConnCb_ is TcpClient::newConnection.
newConnection == established' = TRUE /\ given' = given + 1 /\ UNCHANGED closed

\* handleWrite: SO_ERROR or a self-connection goes to retry().
handleWrite ==
    /\ NextCallback("write")
    /\ IF state_ # "kConnecting"
         THEN /\ aborted' = IF state_ = "kDisconnected" THEN aborted ELSE "handleWrite"
              /\ UNCHANGED <<connectorVars, timerVars, pending, socketVars, established>>
         ELSE /\ removeAndResetChannel
              /\ \/ retry /\ UNCHANGED established
                 \/ /\ state_' = "kConnected"
                    /\ IF connect_ THEN newConnection ELSE Unwanted
                    /\ UNCHANGED <<retryDelayMs_, timerVars, opened, gaveUp, aborted>>

\* TimerQueue::handleRead takes a timer out, then runs it: in between, a callback
\* of the same batch may call stop().
TimerExpires(id) ==
    /\ OnLoop("channels")
    /\ id \in timers
    /\ timers' = timers \ {id} /\ due' = due \cup {id}
    /\ UNCHANGED <<connectorVars, connect_, retryTimerId_, validTimer_, clientConnect_, established,
                   loopVars, step, pending, other, callVars, socketVars, aborted>>

TimerRuns(id) ==
    /\ OnLoop("channels")
    /\ id \in due
    /\ due' = due \ {id}
    /\ startInLoop
    /\ UNCHANGED <<connect_, timerVars, clientConnect_, established, loopVars, step, pending, other,
                   callVars>>

SwapFunctors ==
    /\ OnLoop("channels") /\ todo = << >> /\ due = {}
    /\ phase' = "functors"
    /\ functors' = pending /\ pending' = << >>
    /\ UNCHANGED <<connectorVars, connect_, timerVars, due, clientConnect_, established, todo, step,
                   other, callVars, socketVars, aborted>>

NextFunctor(op) ==
    /\ OnLoop("functors")
    /\ functors # << >> /\ Head(functors).op = op
    /\ functors' = Tail(functors)
    /\ UNCHANGED <<connect_, due, clientConnect_, established, phase, todo, step, other, callVars>>

StartFunctor ==
    NextFunctor("startInLoop") /\ startInLoop /\ UNCHANGED <<timerVars, pending>>

StopFunctor ==
    NextFunctor("stopInLoop") /\ stopInLoop /\ UNCHANGED <<timerVars, aborted>>

CancelFunctor ==
    /\ NextFunctor("cancelTimer")
    /\ timers' = timers \ {Head(functors).id}
    /\ UNCHANGED <<connectorVars, retryTimerId_, validTimer_, pending, socketVars, aborted>>

resetChannel ==
    /\ NextFunctor("resetChannel")
    /\ channel_' = "none"
    /\ UNCHANGED <<state_, retryDelayMs_, timerVars, pending, socketVars, aborted>>

EndFunctors ==
    /\ OnLoop("functors") /\ functors = << >>
    /\ phase' = "poll"
    /\ UNCHANGED <<connectorVars, connect_, timerVars, due, clientConnect_, established, todo,
                   functors, step, pending, other, callVars, socketVars, aborted>>

--------------------------------------------------------------------------------
(* TcpClient, on the loop's thread.                                        *)

Call(call) ==
    /\ call \in UserCalls /\ calls < MaxCalls
    /\ calls' = calls + 1
    /\ connects' = IF call = "connect" THEN connects + 1 ELSE connects
    /\ stopped' = (stopped \/ call = "stop")
    /\ UNCHANGED owner

\* Where user code runs: handlers of other channels, timers and functors.
InCallback(call) ==
    /\ OnLoop("channels") \/ OnLoop("functors")
    /\ Call(call)
    /\ UNCHANGED <<due, established, loopVars, other>>

\* connect(): connector_->start() stores connect_, then calls startInLoop.
UserConnect ==
    /\ InCallback("connect")
    /\ clientConnect_' = TRUE /\ connect_' = TRUE
    /\ step' = "startInLoop"
    /\ UNCHANGED <<connectorVars, timerVars, pending, socketVars, aborted>>

StartNow ==
    /\ Running /\ step = "startInLoop"
    /\ step' = "none"
    /\ startInLoop
    /\ UNCHANGED <<connect_, timerVars, due, clientConnect_, established, loopVars, pending, other,
                   callVars>>

\* disconnect(): shuts the connection down; ConnectionCloses follows.
UserDisconnect ==
    /\ InCallback("disconnect")
    /\ clientConnect_' = FALSE
    /\ UNCHANGED <<connectorVars, connect_, timerVars, step, pending, socketVars, aborted>>

\* Connector::stop(), on the loop's thread.
stopNow ==
    /\ connect_' = FALSE
    /\ stopInLoop
    /\ timers' = IF validTimer_ THEN timers \ {retryTimerId_} ELSE timers
    /\ UNCHANGED <<retryTimerId_, validTimer_>>

UserStop ==
    /\ InCallback("stop")
    /\ clientConnect_' = FALSE
    /\ stopNow
    /\ UNCHANGED <<step, aborted>>

\* The connection's closeCallback_, removeConnection.  The read of connect_ and the
\* restart it decides are two steps.
ConnectionCloses ==
    /\ OnLoop("channels") \/ OnLoop("functors")
    /\ established /\ established' = FALSE
    /\ step' = IF retry_ /\ clientConnect_ THEN "restart" ELSE "none"
    /\ UNCHANGED <<connectorVars, connect_, timerVars, due, clientConnect_, loopVars, pending, other,
                   callVars, socketVars, aborted>>

\* Connector::restart() up to startInLoop.
restart ==
    /\ Running /\ step = "restart"
    /\ state_' = "kDisconnected" /\ connect_' = TRUE
    /\ retryDelayMs_' = InitRetryDelay
    /\ step' = "startInLoop"
    /\ UNCHANGED <<channel_, timerVars, due, clientConnect_, established, loopVars, pending, other,
                   callVars, socketVars, aborted>>

\* ~Connector's assertion.
ConnectorDestructs == aborted' = IF channel_' # "none" THEN "~Connector" ELSE aborted

\* ~TcpClient and the ~Connector that follows it, which asserts that there is no
\* channel; an established connection is left to close by itself.
Destruct ==
    /\ Dies /\ other = "idle"
    /\ OnLoop("channels") \/ OnLoop("functors")
    /\ phase' = "destroyed"
    /\ IF established THEN UNCHANGED <<connectorVars, connect_, timerVars, pending, socketVars>>
                      ELSE stopNow
    /\ ConnectorDestructs
    /\ UNCHANGED <<due, clientConnect_, established, todo, functors, step, other, callVars>>

--------------------------------------------------------------------------------
(* The other thread: store, queue, and for stop() read the timer and queue. *)

OtherStep(from, to) ==
    /\ Running
    /\ other = from /\ other' = to
    /\ UNCHANGED <<connectorVars, timerVars, due, established, loopVars, step, socketVars, aborted>>

OtherCalls(call) ==
    /\ Call(call)
    /\ OtherStep("idle", IF call = "disconnect" THEN "idle" ELSE call)
    /\ clientConnect_' = (call = "connect")
    /\ UNCHANGED <<connect_, pending>>

OtherStores ==
    \E call \in {"connect", "stop"} :
        /\ OtherStep(call, IF call = "connect" THEN "queueStart" ELSE "queueStop")
        /\ connect_' = (call = "connect")
        /\ UNCHANGED <<clientConnect_, pending, callVars>>

OtherQueues ==
    /\ \/ /\ OtherStep("queueStart", "idle")
          /\ pending' = Append(pending, Functor("startInLoop", NoTimer))
       \/ /\ OtherStep("queueStop", "cancel")
          /\ pending' = Append(pending, Functor("stopInLoop", NoTimer))
       \/ /\ OtherStep("cancel", "idle")
          /\ pending' = IF validTimer_ THEN Append(pending, Functor("cancelTimer", retryTimerId_))
                                       ELSE pending
    /\ UNCHANGED <<connect_, clientConnect_, callVars>>

--------------------------------------------------------------------------------
LoopStep ==
    \/ \E event \in {"none", "out", "err"} : Poll(event)
    \/ handleError \/ handleWrite
    \/ \E id \in due : TimerRuns(id)
    \/ SwapFunctors \/ StartFunctor \/ StopFunctor \/ CancelFunctor \/ resetChannel \/ EndFunctors
    \/ StartNow \/ restart

Next ==
    \/ LoopStep
    \/ \E id \in timers : TimerExpires(id)
    \/ UserConnect \/ UserDisconnect \/ UserStop
    \/ ConnectionCloses \/ Destruct
    \/ \E call \in UserCalls : OtherCalls(call)
    \/ OtherStores \/ OtherQueues

\* The loop runs, timers expire, and the other thread finishes its calls.
Fairness ==
    /\ WF_vars(LoopStep)
    /\ SF_vars(\E id \in timers : TimerExpires(id))
    /\ WF_vars(OtherStores \/ OtherQueues)

Spec == Init /\ [][Next]_vars /\ Fairness

--------------------------------------------------------------------------------
(* Properties.                                                             *)

Ops == {"startInLoop", "stopInLoop", "cancelTimer", "resetChannel"}

\* No socket leaks and none is closed twice: every one made is being connected, closed,
\* or owned by a TcpConnection, along all of connect(), retry(), stopInLoop() and
\* handleWrite() (Connector.cc:75-211); and while a connection is established, the
\* connector neither makes another nor is free to (Connector.cc:63, TcpClient.cc:92-125).
SocketsAccounted ==
    aborted = "no" =>
        /\ opened = closed + given + (IF channel_ = "watching" THEN 1 ELSE 0)
        /\ established => state_ = "kConnected"

\* The resetChannels waiting in q.
Resets(q) == {i \in 1..Len(q) : q[i].op = "resetChannel"}

\* The connector is kConnecting exactly while it watches a channel, and a channel it
\* has removed is going to be reset, once (Connector.cc:213-226).
ChannelFollowsState ==
    aborted = "no" /\ phase # "destroyed" =>
        /\ state_ = "kConnecting" <=> channel_ = "watching"
        /\ channel_ = "removed" <=> Resets(pending) # {} \/ Resets(functors) # {}
        /\ Resets(pending) = {} \/ Resets(functors) = {}

\* Which assertions can fail, and when: retry's, for an error connect(2) reports at once,
\* in kDisconnected (Connector.cc:144, reached from 108); establishConnection's and
\* ~Connector's, only while the reset of the last channel is still queued
\* (Connector.cc:133, 31); startInLoop's, only if connect() was called a second time
\* (Connector.cc:63); shared_from_this() throws only where no shared_ptr owns the
\* connector (Connector.cc:152, TcpClient.h:46); handleError's, only after a stop()
\* (Connector.cc:205); handleWrite's never does (Connector.cc:199).
AbortsExplained ==
    /\ aborted # "handleWrite"
    /\ aborted = "bad_weak_ptr" => owner = "unique_ptr"
    /\ aborted = "retry" => state_ = "kDisconnected" /\ channel_ # "watching"
    /\ aborted = "establishConnection" => Resets(pending) # {} \/ Resets(functors) # {}
    /\ aborted = "~Connector" => Resets(pending) # {} \/ Resets(functors) # {}
    /\ aborted = "startInLoop" => connects > 1
    /\ aborted = "handleError" => stopped

\* A connector that is told to connect has an attempt on its way in the end, after every
\* failed one as well (Connector.cc:61-73, 87-164).  What may come in between: a call of
\* stop(), a connect(2) that fails for good, ~TcpClient, the bound on sockets; and three
\* ends of the process.  A soft error that connect(2) reports at once, for which the
\* comment at Connector.cc:102 promises another try, gets none: retry's assertion fails
\* (144).  Under TcpClient's unique_ptr no failed attempt does: shared_from_this() throws
\* (152).  And a start that finds the last channel not yet reset fails at 133.
KeepsTrying ==
    (connect_ /\ state_ = "kDisconnected")
        ~> \/ Running /\ state_ # "kDisconnected"
           \/ stopped \/ gaveUp \/ phase = "destroyed" \/ opened = MaxSockets
           \/ aborted = "retry"
           \/ aborted = "bad_weak_ptr" /\ owner = "unique_ptr"
           \/ aborted = "establishConnection"

\* A failed attempt is tried again, from a timer that keeps the connector alive
\* (the comment at Connector.cc:149).
RetryKeepsConnector == aborted # "bad_weak_ptr"
================================================================================
