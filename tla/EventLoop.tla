------------------------------- MODULE EventLoop -------------------------------
(***************************************************************************)
(* ham/net/EventLoop.{h,cc}: the reactor.  One thread runs loop(); any     *)
(* thread may hand it functors with runInLoop/queueInLoop or stop it with  *)
(* quit().  pendingFunctors_ is guarded by mutex_ (each critical section   *)
(* is one step); quit_, callingPendingFunctors_ and the eventfd are not,   *)
(* so queueInLoop and quit are two steps each: the store, then wakeup().   *)
(*                                                                         *)
(* Every functor is submitted at most once, so it can be followed.         *)
(***************************************************************************)
EXTENDS Naturals, Sequences

CONSTANTS Threads,       \* the threads other than the loop's own
          LoopThread,    \* the thread threadId_ names
          Channels,      \* registered channels other than wakeupChannel_
          WakeupChannel,
          Functors

ASSUME LoopThreadAssumption == LoopThread \notin Threads
ASSUME ChannelAssumption == WakeupChannel \notin Channels

VARIABLES quit_,
          callingPendingFunctors_,
          pendingFunctors_,
          functors,        \* doPendingFunctors' local vector, what is left of it
          activeChannels_, \* channels whose handleEvent is still due
          wakeupFd,        \* the eventfd's counter
          pc,              \* where the loop thread is
          call,            \* per thread: about to call wakeup(), or nothing
          executed,        \* history: functors started, in order
          submitted,       \* history: functors handed over
          early            \* history: queued by LoopThread outside loop()

vars == <<quit_, callingPendingFunctors_, pendingFunctors_, functors,
          activeChannels_, wakeupFd, pc, call, executed, submitted, early>>

AllThreads == Threads \cup {LoopThread}

Init ==
    /\ quit_ = FALSE
    /\ callingPendingFunctors_ = FALSE
    /\ pendingFunctors_ = << >>
    /\ functors = << >>
    /\ activeChannels_ = {}
    /\ wakeupFd = 0
    /\ pc = "constructed"
    /\ call = [t \in AllThreads |-> "none"]
    /\ executed = << >>
    /\ submitted = {}
    /\ early = {}

--------------------------------------------------------------------------------
(* Calls by the users of the loop.  The loop's own thread makes them only  *)
(* from a callback, from a functor, or outside loop().                     *)

CanCall(t) ==
    /\ call[t] = "none"
    /\ t = LoopThread => pc \in {"constructed", "callback", "functor", "returned"}

\* Seeded fault: a functor queued by a functor is thought to need no wakeup.
MustWakeup_Foreign(t) == t # LoopThread

\* queueInLoop's condition for calling wakeup().
MustWakeup(t) == t # LoopThread \/ callingPendingFunctors_

\* queueInLoop: push under mutex_, then decide whether wakeup() follows.
queueInLoop(t, f) ==
    /\ CanCall(t)
    /\ f \notin submitted
    /\ submitted' = submitted \cup {f}
    /\ pendingFunctors_' = Append(pendingFunctors_, f)
    /\ call' = [call EXCEPT ![t] =
                  IF MustWakeup(t) THEN "wakeup" ELSE "none"]
    /\ early' = IF t = LoopThread /\ pc \in {"constructed", "returned"}
                  THEN early \cup {f} ELSE early
    /\ UNCHANGED <<quit_, callingPendingFunctors_, functors, activeChannels_,
                   wakeupFd, pc, executed>>

\* runInLoop on the loop's own thread calls the functor on the spot; on any
\* other thread it is queueInLoop.
runInLoop(f) ==
    /\ CanCall(LoopThread)
    /\ f \notin submitted
    /\ submitted' = submitted \cup {f}
    /\ executed' = Append(executed, f)
    /\ UNCHANGED <<quit_, callingPendingFunctors_, pendingFunctors_, functors,
                   activeChannels_, wakeupFd, pc, call, early>>

\* Seeded fault: quit() only sets the flag.
QuitWakeup_Never(t) == FALSE

\* quit's condition for calling wakeup().
QuitWakeup(t) == t # LoopThread

quit(t) ==
    /\ CanCall(t)
    /\ ~quit_
    /\ quit_' = TRUE
    /\ call' = [call EXCEPT ![t] = IF QuitWakeup(t) THEN "wakeup" ELSE "none"]
    /\ UNCHANGED <<callingPendingFunctors_, pendingFunctors_, functors, activeChannels_,
                   wakeupFd, pc, executed, submitted, early>>

\* The write of 1 to the eventfd that ends a queueInLoop or a quit.
wakeup(t) ==
    /\ call[t] = "wakeup"
    /\ wakeupFd' = wakeupFd + 1
    /\ call' = [call EXCEPT ![t] = "none"]
    /\ UNCHANGED <<quit_, callingPendingFunctors_, pendingFunctors_, functors,
                   activeChannels_, pc, executed, submitted, early>>

--------------------------------------------------------------------------------
(* loop(), on the loop's own thread.                                       *)

Goto(from, to) == call[LoopThread] = "none" /\ pc = from /\ pc' = to

\* loop() is entered once: quit_ is never reset, so a second call returns at once.
EnterLoop ==
    /\ Goto("constructed", "test")
    /\ UNCHANGED <<quit_, callingPendingFunctors_, pendingFunctors_, functors,
                   activeChannels_, wakeupFd, call, executed, submitted, early>>

TestQuit ==
    /\ Goto("test", IF quit_ THEN "returned" ELSE "wait")
    /\ activeChannels_' = IF quit_ THEN activeChannels_ ELSE {}
    /\ UNCHANGED <<quit_, callingPendingFunctors_, pendingFunctors_, functors,
                   wakeupFd, call, executed, submitted, early>>

\* epoller_->wait returns: the eventfd is level triggered, so its channel is
\* active whenever the counter is not 0; `ready' are the other channels the
\* kernel reports.  Nothing ready is the timeout of kEpollTimeMs.
Poll(ready) ==
    /\ Goto("wait", "dispatch")
    /\ activeChannels_' = ready \cup (IF wakeupFd > 0 THEN {WakeupChannel} ELSE {})
    /\ UNCHANGED <<quit_, callingPendingFunctors_, pendingFunctors_, functors,
                   wakeupFd, call, executed, submitted, early>>

\* The wakeup channel's handleEvent is handleWakeupFd: the read resets the counter.
handleWakeupFd ==
    /\ Goto("dispatch", "dispatch")
    /\ WakeupChannel \in activeChannels_
    /\ activeChannels_' = activeChannels_ \ {WakeupChannel}
    /\ wakeupFd' = 0
    /\ UNCHANGED <<quit_, callingPendingFunctors_, pendingFunctors_, functors,
                   call, executed, submitted, early>>

\* Another channel's handleEvent: user code runs until CallbackReturns.
handleEvent(c) ==
    /\ Goto("dispatch", "callback")
    /\ c \in activeChannels_
    /\ activeChannels_' = activeChannels_ \ {c}
    /\ UNCHANGED <<quit_, callingPendingFunctors_, pendingFunctors_, functors,
                   wakeupFd, call, executed, submitted, early>>

CallbackReturns ==
    /\ Goto("callback", "dispatch")
    /\ UNCHANGED <<quit_, callingPendingFunctors_, pendingFunctors_, functors,
                   activeChannels_, wakeupFd, call, executed, submitted, early>>

\* doPendingFunctors, first statement: the flag is raised before the swap.
BeginPendingFunctors ==
    /\ Goto("dispatch", "swap")
    /\ activeChannels_ = {}
    /\ callingPendingFunctors_' = TRUE
    /\ UNCHANGED <<quit_, pendingFunctors_, functors, activeChannels_,
                   wakeupFd, call, executed, submitted, early>>

SwapPendingFunctors ==
    /\ Goto("swap", "next")
    /\ functors' = pendingFunctors_
    /\ pendingFunctors_' = << >>
    /\ UNCHANGED <<quit_, callingPendingFunctors_, activeChannels_,
                   wakeupFd, call, executed, submitted, early>>

\* Seeded fault: the batch is run from its end.
RunFunctor_Last ==
    /\ Goto("next", "functor")
    /\ functors # << >>
    /\ executed' = Append(executed, functors[Len(functors)])
    /\ functors' = SubSeq(functors, 1, Len(functors) - 1)
    /\ UNCHANGED <<quit_, callingPendingFunctors_, pendingFunctors_, activeChannels_,
                   wakeupFd, call, submitted, early>>

RunFunctor ==
    /\ Goto("next", "functor")
    /\ functors # << >>
    /\ executed' = Append(executed, Head(functors))
    /\ functors' = Tail(functors)
    /\ UNCHANGED <<quit_, callingPendingFunctors_, pendingFunctors_, activeChannels_,
                   wakeupFd, call, submitted, early>>

FunctorReturns ==
    /\ Goto("functor", "next")
    /\ UNCHANGED <<quit_, callingPendingFunctors_, pendingFunctors_, functors,
                   activeChannels_, wakeupFd, call, executed, submitted, early>>

EndPendingFunctors ==
    /\ Goto("next", "test")
    /\ functors = << >>
    /\ callingPendingFunctors_' = FALSE
    /\ UNCHANGED <<quit_, pendingFunctors_, functors, activeChannels_,
                   wakeupFd, call, executed, submitted, early>>

\* What the loop thread does unless it is waiting for events.
LoopStep ==
    \/ TestQuit
    \/ handleWakeupFd
    \/ \E c \in Channels : handleEvent(c)
    \/ CallbackReturns
    \/ BeginPendingFunctors
    \/ SwapPendingFunctors
    \/ RunFunctor
    \/ FunctorReturns
    \/ EndPendingFunctors

Next ==
    \/ \E t \in AllThreads, f \in Functors : queueInLoop(t, f)
    \/ \E f \in Functors : runInLoop(f)
    \/ \E t \in AllThreads : quit(t)
    \/ \E t \in AllThreads : wakeup(t)
    \/ EnterLoop
    \/ \E ready \in SUBSET Channels : Poll(ready)
    \/ LoopStep

\* A thread that has begun a call finishes it; a running loop keeps stepping;
\* epoll_wait returns when the eventfd is readable.  Neither other events nor
\* the timeout are counted on.
Fairness ==
    /\ \A t \in AllThreads : WF_vars(wakeup(t))
    /\ WF_vars(LoopStep)
    /\ WF_vars(wakeupFd > 0 /\ \E ready \in SUBSET Channels : Poll(ready))

Spec == Init /\ [][Next]_vars /\ Fairness

--------------------------------------------------------------------------------
(* Properties.                                                             *)

\* The types, and that callingPendingFunctors_ is up exactly during
\* doPendingFunctors, which alone holds functors it has taken.
TypeOK ==
    /\ quit_ \in BOOLEAN
    /\ callingPendingFunctors_ \in BOOLEAN
    /\ pendingFunctors_ \in Seq(Functors)
    /\ functors \in Seq(Functors)
    /\ activeChannels_ \subseteq Channels \cup {WakeupChannel}
    /\ wakeupFd \in Nat
    /\ pc \in {"constructed", "test", "wait", "dispatch", "callback", "swap", "next",
               "functor", "returned"}
    /\ call \in [AllThreads -> {"none", "wakeup"}]
    /\ executed \in Seq(Functors)
    /\ submitted \subseteq Functors
    /\ early \subseteq submitted
    /\ callingPendingFunctors_ <=> pc \in {"swap", "next", "functor"}
    /\ functors # << >> => pc \in {"next", "functor"}

\* epoll_wait will return without help: the eventfd is readable, or a thread
\* is on its way to making it so.
WakeupComing == wakeupFd > 0 \/ \E t \in AllThreads : call[t] = "wakeup"

\* No lost wakeup: the loop never sits in epoll_wait over a queued functor
\* unless a wakeup is coming.  The exception is a functor queued from the loop's
\* own thread outside loop(): queueInLoop (EventLoop.cc:204) writes no wakeup
\* for it and it waits for the next event or the 10 s timeout.
NoLostWakeup ==
    pc = "wait" =>
        \A i \in 1..Len(pendingFunctors_) : pendingFunctors_[i] \notin early => WakeupComing

\* quit() is never missed: the loop does not sit in epoll_wait with quit_ set
\* unless a wakeup is coming (EventLoop.cc:121-128 against the test at 105).
QuitNoticed == pc = "wait" /\ quit_ => WakeupComing

\* Each functor handed over is, at every moment, in exactly one place: queued,
\* taken by the current doPendingFunctors, or started; none is lost or doubled
\* by the swap at EventLoop.cc:237, by pushes that race it or by functors that
\* queue functors.
ExactlyOnePlace ==
    LET all == executed \o functors \o pendingFunctors_
    IN /\ submitted = {all[i] : i \in 1..Len(all)}
       /\ \A i, j \in 1..Len(all) : all[i] = all[j] => i = j

\* The loop is a serial FIFO executor: what doPendingFunctors still has to run
\* comes before what is queued (EventLoop.cc:231-244).
Executor == INSTANCE SerialExecutor WITH queue <- functors \o pendingFunctors_
ImplementsExecutor == Executor!Spec

\* A queued functor runs, unless somebody quits the loop: no wakeup is lost even
\* if the 10 s timeout and all other channels are never heard of again.
EveryFunctorRuns ==
    \A f \in Functors :
        (f \in submitted \ early /\ pc # "constructed")
            ~> (quit_ \/ \E i \in 1..Len(executed) : executed[i] = f)

\* A quit stops a running loop (EventLoop.cc:105, 121-128).
QuitStops == (quit_ /\ pc # "constructed") ~> (pc = "returned")
================================================================================
