-------------------------- MODULE EventLoopThreadPool --------------------------
(***************************************************************************)
(* ham/net/EventLoopThread.{h,cc} and EventLoopThreadPool.{h,cc}: the io   *)
(* threads, started one after the other by the base thread and joined by   *)
(* it when the pool is destroyed.                                          *)
(*                                                                         *)
(* Thread i and its loop have the number i; 0 is the base loop.  A loop    *)
(* lives on the stack of threadFunc, from "init" to "cleared".  loop_ is   *)
(* written under mutex_ once and without it at the end, and read without   *)
(* it by startLoop's return and by the destructor: each access is a step.  *)
(***************************************************************************)
EXTENDS Integers, Sequences

CONSTANTS MaxThreads,  \* bound: io threads
          Quitting     \* the threads whose user code may quit() their own loop

ASSUME ThreadsAssumption == MaxThreads \in Nat /\ Quitting \subseteq 1..MaxThreads

IoThreads == 1..MaxThreads
NullLoop == -1

VARIABLES thread,         \* where each io thread is in threadFunc
          loop_, quit_,   \* per thread: loop_ is set; its loop's quit_
          numOfThreads_, loops_, nextLoopIdx_,
          base,           \* where the base thread is
          joined,         \* the EventLoopThreads destroyed so far
          userQuit,       \* history: the loops user code has quit
          aborted         \* what ended the process

threadVars == <<thread, loop_, quit_, userQuit>>
poolVars == <<numOfThreads_, loops_, nextLoopIdx_, joined>>

PoolInit ==
    /\ thread = [i \in IoThreads |-> "none"]
    /\ loop_ = [i \in IoThreads |-> FALSE]
    /\ quit_ = [i \in IoThreads |-> FALSE]
    /\ numOfThreads_ \in 0..MaxThreads
    /\ loops_ = << >> /\ nextLoopIdx_ = 0
    /\ base = "free" /\ joined = 0
    /\ userQuit = {}
    /\ aborted = "no"

Running == aborted = "no"
LoopAlive(l) == l = 0 \/ (l \in IoThreads /\ thread[l] \in {"init", "loop", "left", "cleared"})

--------------------------------------------------------------------------------
(* threadFunc.                                                             *)

Moves(i, from, to) ==
    /\ Running /\ thread[i] = from
    /\ thread' = [thread EXCEPT ![i] = to]

\* EventLoop's constructor; initCallback_ runs next.
ConstructLoop(i) ==
    /\ Moves(i, "start", "init")
    /\ UNCHANGED <<loop_, quit_, userQuit, poolVars, base, aborted>>

\* Seeded fault: loop_ is set without a notify.
PublishLoop_Silent(i) ==
    /\ Moves(i, "init", "loop")
    /\ loop_' = [loop_ EXCEPT ![i] = TRUE]
    /\ UNCHANGED <<quit_, userQuit, poolVars, base, aborted>>

\* Under mutex_: loop_ = &loop and notify_one.  Only startLoop ever waits.
PublishLoop(i) ==
    /\ Moves(i, "init", "loop")
    /\ loop_' = [loop_ EXCEPT ![i] = TRUE]
    /\ base' = IF base = "asleep" /\ Len(loops_) + 1 = i THEN "check" ELSE base
    /\ UNCHANGED <<quit_, userQuit, poolVars, aborted>>

LeaveLoop(i) ==
    /\ quit_[i] /\ Moves(i, "loop", "left")
    /\ UNCHANGED <<loop_, quit_, userQuit, poolVars, base, aborted>>

\* loop_ = nullptr, without mutex_.
ClearLoop(i) ==
    /\ Moves(i, "left", "cleared")
    /\ loop_' = [loop_ EXCEPT ![i] = FALSE]
    /\ UNCHANGED <<quit_, userQuit, poolVars, base, aborted>>

\* ~EventLoop, and the thread ends.
EndThread(i) ==
    /\ Moves(i, "cleared", "done")
    /\ UNCHANGED <<loop_, quit_, userQuit, poolVars, base, aborted>>

\* initCallback_ or a callback calls quit() on the loop it runs in.
UserQuits(i) ==
    /\ Running /\ i \in Quitting /\ thread[i] \in {"init", "loop"}
    /\ i \notin userQuit
    /\ quit_' = [quit_ EXCEPT ![i] = TRUE]
    /\ userQuit' = userQuit \cup {i}
    /\ UNCHANGED <<thread, loop_, poolVars, base, aborted>>

--------------------------------------------------------------------------------
(* start(), on the base thread: startLoop() for each thread.               *)

BaseMoves(from, to) == Running /\ base = from /\ base' = to

Starting == Len(loops_) + 1

SpawnThread ==
    /\ BaseMoves("spawn", "check")
    /\ thread' = [thread EXCEPT ![Starting] = "start"]
    /\ UNCHANGED <<loop_, quit_, userQuit, poolVars, aborted>>

\* Seeded fault: no wait, loop_ is taken as it is.
CheckLoop_NoWait ==
    /\ BaseMoves("check", "return")
    /\ UNCHANGED <<threadVars, poolVars, aborted>>

\* With mutex_, at the head of startLoop's while.
CheckLoop ==
    /\ BaseMoves("check", IF loop_[Starting] THEN "return" ELSE "asleep")
    /\ UNCHANGED <<threadVars, poolVars, aborted>>

SpuriousWakeup ==
    /\ BaseMoves("asleep", "check")
    /\ UNCHANGED <<threadVars, poolVars, aborted>>

\* return loop_, read again without mutex_.
ReturnLoop ==
    /\ BaseMoves("return", IF Starting = numOfThreads_ THEN "listen" ELSE "spawn")
    /\ loops_' = Append(loops_, IF loop_[Starting] THEN Starting ELSE NullLoop)
    /\ UNCHANGED <<threadVars, numOfThreads_, nextLoopIdx_, joined, aborted>>

getNextLoop == IF loops_ = << >> THEN 0 ELSE loops_[nextLoopIdx_ + 1]

NextIdx ==
    IF loops_ = << >> \/ nextLoopIdx_ + 1 >= Len(loops_) THEN 0 ELSE nextLoopIdx_ + 1

--------------------------------------------------------------------------------
(* ~EventLoopThreadPool, on the base thread: ~EventLoopThread for each.    *)

Joining == joined + 1

\* if(loop_): without a loop the std::thread is destroyed while joinable, which
\* terminates the process.
TestLoop ==
    /\ joined < Len(loops_)
    /\ Running /\ base = "pool"
    /\ IF loop_[Joining] THEN base' = "quit" /\ UNCHANGED aborted
                         ELSE aborted' = "terminate" /\ UNCHANGED base
    /\ UNCHANGED <<threadVars, poolVars>>

\* loop_->quit() reads loop_ again; it stores quit_ ...
QuitLoop ==
    /\ Running /\ base = "quit"
    /\ IF loop_[Joining]
       THEN /\ quit_' = [quit_ EXCEPT ![Joining] = TRUE]
            /\ base' = "wakeup" /\ UNCHANGED aborted
       ELSE aborted' = "nullLoop" /\ UNCHANGED <<quit_, base>>
    /\ UNCHANGED <<thread, loop_, userQuit, poolVars>>

\* ... and then reads threadId_ and writes to wakeup_fd_.  If the thread has seen quit_ and
\* destroyed the loop in between, the process may or may not survive that.
WakeupLoop ==
    /\ Running /\ base = "wakeup"
    /\ \/ base' = "join" /\ UNCHANGED aborted
       \/ ~LoopAlive(Joining) /\ aborted' = "quitLate" /\ UNCHANGED base
    /\ UNCHANGED <<threadVars, poolVars>>

\* Seeded fault: the thread is detached.
JoinThread_Detach ==
    /\ BaseMoves("join", "pool")
    /\ joined' = Joining
    /\ UNCHANGED <<threadVars, numOfThreads_, loops_, nextLoopIdx_, aborted>>

JoinThread ==
    /\ BaseMoves("join", "pool")
    /\ thread[Joining] = "done"
    /\ joined' = Joining
    /\ UNCHANGED <<threadVars, numOfThreads_, loops_, nextLoopIdx_, aborted>>

ThreadStep(i) == ConstructLoop(i) \/ PublishLoop(i) \/ LeaveLoop(i) \/ ClearLoop(i)
StartStep == SpawnThread \/ CheckLoop \/ ReturnLoop
StopStep == TestLoop \/ QuitLoop \/ WakeupLoop \/ JoinThread
================================================================================
