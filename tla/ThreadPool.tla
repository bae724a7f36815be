------------------------------- MODULE ThreadPool -------------------------------
(***************************************************************************)
(* ham/base/ThreadPool.{h,cc}: tasks handed to run() are taken from a      *)
(* queue by worker threads.  What a thread does under mutex_, up to a      *)
(* wait or the unlock, is one step; the read of isRunning_ in threadFunc   *)
(* and the notify of run(Task&&) are outside the lock and steps of their   *)
(* own.  A thread in wait() sleeps until it is notified or wakes for no    *)
(* reason, and then has to get mutex_ again.                               *)
(***************************************************************************)
EXTENDS Naturals, Sequences, FiniteSets

CONSTANTS Clients,     \* threads that use the pool
          Workers,     \* threads start() may create
          Submitters,  \* the threads that call run(): clients, and workers from a task
          Tasks,       \* each is handed over once
          Throwing,    \* the tasks that end with an exception
          Overloads,   \* "copy" is run(const Task&), "move" is run(Task&&)
          StartSizes,  \* start() is called with one of these
          MaxSize      \* maxsize_; 0 is no limit

ASSUME ThreadsAssumption ==
    /\ IsFiniteSet(Clients) /\ IsFiniteSet(Workers)
    /\ Clients \cap Workers = {}
    /\ Submitters \subseteq Clients \cup Workers
ASSUME SizeAssumption == MaxSize \in Nat

NoTask == "no task"
ASSUME NoTaskAssumption == NoTask \notin Tasks

VARIABLES isRunning_,
          threads_,  \* the workers start() created
          queue_,
          pc,        \* where each thread is
          run,       \* per thread: the run() call it is in, its task and overload
          task,      \* per worker: the task it is running
          owner,     \* what the pool's owner has called: start(), stop(), stop() returned
          submitted, \* history: tasks handed over
          runs,      \* history: how often each task was run
          doubled    \* history: tasks run(Task&&) ran on the spot and queued as well

vars == <<isRunning_, threads_, queue_, pc, run, task, owner, submitted, runs, doubled>>

Threads == Clients \cup Workers
NoRun == [task |-> NoTask, by |-> "copy"]

At(p) == {t \in Threads : pc[t] = p}

Init ==
    /\ isRunning_ = FALSE
    /\ threads_ = {}
    /\ queue_ = << >>
    /\ pc = [t \in Threads |-> IF t \in Clients THEN "idle" ELSE "unborn"]
    /\ run = [t \in Threads |-> NoRun]
    /\ task = [w \in Workers |-> NoTask]
    /\ owner = "constructed"
    /\ submitted = {}
    /\ runs = [t \in Tasks |-> 0]
    /\ doubled = {}

--------------------------------------------------------------------------------
(* Condition variables: the sleepers are the threads at "waitTask"         *)
(* (notEmpty_) and at "waitRoom" (notFull_).                               *)

Woken(t) == IF pc[t] = "waitTask" THEN "gotTask" ELSE "gotRoom"

\* notify_one to the sleepers at p, by a thread that thereby moves to pcs.
NotifyOne(p, pcs) ==
    IF At(p) = {} THEN pc' = pcs
                  ELSE \E t \in At(p) : pc' = [pcs EXCEPT ![t] = Woken(t)]

\* A wait() may return without a notify.
SpuriousWakeup(t) ==
    /\ pc[t] \in {"waitTask", "waitRoom"}
    /\ pc' = [pc EXCEPT ![t] = Woken(t)]
    /\ UNCHANGED <<isRunning_, threads_, queue_, run, task, owner, submitted, runs, doubled>>

--------------------------------------------------------------------------------
(* run().                                                                  *)

isFull == MaxSize > 0 /\ Len(queue_) >= MaxSize

\* Where run() returns to.
Back(t) == IF t \in Workers THEN "task" ELSE "idle"

\* Without threads the task is run on the spot.  run(Task&&) then goes on to
\* queue it all the same, unless the task threw.
Run(t, new, by) ==
    /\ pc[t] = Back(t)
    /\ new \notin submitted
    /\ submitted' = submitted \cup {new}
    /\ runs' = IF threads_ = {} THEN [runs EXCEPT ![new] = @ + 1] ELSE runs
    /\ IF threads_ = {} /\ (by = "copy" \/ new \in Throwing)
         THEN UNCHANGED <<pc, run, doubled>>
         ELSE /\ pc' = [pc EXCEPT ![t] = "push"]
              /\ doubled' = IF threads_ = {} THEN doubled \cup {new} ELSE doubled
              /\ run' = [run EXCEPT ![t] = [task |-> new, by |-> by]]
    /\ UNCHANGED <<isRunning_, threads_, queue_, task, owner>>

\* Seeded fault: the condition is tested once, not again after a wait.
MustWait_Once(t) == pc[t] = "push" /\ isFull /\ isRunning_

\* The condition of run()'s while, also tested after a wait.
MustWait(t) == isFull /\ isRunning_

\* run() with mutex_, at the head of its loop.  run(const Task&) notifies before
\* it unlocks, run(Task&&) after.
Push(t) ==
    /\ pc[t] \in {"push", "gotRoom"}
    /\ IF MustWait(t)
         THEN pc' = [pc EXCEPT ![t] = "waitRoom"] /\ UNCHANGED <<queue_, run>>
         ELSE /\ queue_' = Append(queue_, run[t].task)
              /\ run' = [run EXCEPT ![t] = NoRun]
              /\ IF run[t].by = "move"
                   THEN pc' = [pc EXCEPT ![t] = "notify"]
                   ELSE NotifyOne("waitTask", [pc EXCEPT ![t] = Back(t)])
    /\ UNCHANGED <<isRunning_, threads_, task, owner, submitted, runs, doubled>>

\* Seeded fault: run(Task&&) returns without its notify.
NotifyNotEmpty_Lost(t) ==
    /\ pc[t] = "notify"
    /\ pc' = [pc EXCEPT ![t] = Back(t)]
    /\ UNCHANGED <<isRunning_, threads_, queue_, run, task, owner, submitted, runs, doubled>>

NotifyNotEmpty(t) ==
    /\ pc[t] = "notify"
    /\ NotifyOne("waitTask", [pc EXCEPT ![t] = Back(t)])
    /\ UNCHANGED <<isRunning_, threads_, queue_, run, task, owner, submitted, runs, doubled>>

--------------------------------------------------------------------------------
(* threadFunc() and take().                                                *)

\* The init callback is over.
EnterThread(w) ==
    /\ pc[w] = "init"
    /\ pc' = [pc EXCEPT ![w] = "test"]
    /\ UNCHANGED <<isRunning_, threads_, queue_, run, task, owner, submitted, runs, doubled>>

TestRunning(w) ==
    /\ pc[w] = "test"
    /\ pc' = [pc EXCEPT ![w] = IF isRunning_ THEN "take" ELSE "ended"]
    /\ UNCHANGED <<isRunning_, threads_, queue_, run, task, owner, submitted, runs, doubled>>

\* take()'s notify: there can be threads waiting for room only under a limit.
RoomNotify(pcs) == IF MaxSize > 0 THEN NotifyOne("waitRoom", pcs) ELSE pc' = pcs

\* Seeded fault: the front is moved from and not popped.
Taken_Kept(q) == q

\* What pop_front leaves.
Taken(q) == Tail(q)

\* take() with mutex_, at the head of its loop; the task is started at once.
take(w) ==
    /\ pc[w] \in {"take", "gotTask"}
    /\ IF queue_ = << >>
         THEN /\ pc' = [pc EXCEPT ![w] = IF isRunning_ THEN "waitTask" ELSE "test"]
              /\ UNCHANGED <<queue_, task, runs>>
         ELSE /\ queue_' = Taken(queue_)
              /\ task' = [task EXCEPT ![w] = Head(queue_)]
              /\ runs' = [runs EXCEPT ![Head(queue_)] = @ + 1]
              /\ RoomNotify([pc EXCEPT ![w] = "task"])
    /\ UNCHANGED <<isRunning_, threads_, run, owner, submitted, doubled>>

\* An exception leaves threadFunc's loop: the handlers are outside it.
TaskReturns(w) ==
    /\ pc[w] = "task"
    /\ pc' = [pc EXCEPT ![w] = IF task[w] \in Throwing THEN "ended" ELSE "test"]
    /\ task' = [task EXCEPT ![w] = NoTask]
    /\ UNCHANGED <<isRunning_, threads_, queue_, run, owner, submitted, runs, doubled>>

--------------------------------------------------------------------------------
(* start() and stop(), by the owner.                                       *)

start(new) ==
    /\ owner = "constructed"
    /\ owner' = "started"
    /\ isRunning_' = TRUE
    /\ threads_' = new
    /\ pc' = [t \in Threads |-> IF t \in new THEN "init" ELSE pc[t]]
    /\ UNCHANGED <<queue_, run, task, submitted, runs, doubled>>

\* Seeded fault: stop() forgets the threads that wait for room.
Sleeping_Takers == At("waitTask")

\* Whom stop() wakes: notify_all on both condition variables.
Sleeping == At("waitTask") \cup At("waitRoom")

\* stop() up to the unlock.
stop ==
    /\ owner = "started"
    /\ owner' = "stopping"
    /\ isRunning_' = FALSE
    /\ pc' = [t \in Threads |-> IF t \in Sleeping THEN Woken(t) ELSE pc[t]]
    /\ UNCHANGED <<threads_, queue_, run, task, submitted, runs, doubled>>

\* The joins: every worker's threadFunc has returned.
Join ==
    /\ owner = "stopping"
    /\ \A w \in threads_ : pc[w] = "ended"
    /\ owner' = "stopped"
    /\ UNCHANGED <<isRunning_, threads_, queue_, pc, run, task, submitted, runs, doubled>>

--------------------------------------------------------------------------------
RunStep(t) == Push(t) \/ NotifyNotEmpty(t)
WorkerStep(w) == EnterThread(w) \/ TestRunning(w) \/ take(w) \/ TaskReturns(w)

Next ==
    \/ \E t \in Submitters, new \in Tasks, by \in Overloads : Run(t, new, by)
    \/ \E t \in Threads : RunStep(t) \/ SpuriousWakeup(t)
    \/ \E w \in Workers : WorkerStep(w)
    \/ \E new \in SUBSET Workers : Cardinality(new) \in StartSizes /\ start(new)
    \/ stop
    \/ Join

\* A thread that is not asleep gets mutex_ in the end and takes its next step;
\* tasks return.  Nobody has to call run(), start() or stop().
Fairness ==
    /\ \A t \in Threads : WF_vars(RunStep(t))
    /\ \A w \in Workers : WF_vars(WorkerStep(w))
    /\ WF_vars(Join)

Spec == Init /\ [][Next]_vars /\ Fairness

--------------------------------------------------------------------------------
(* Properties.                                                             *)

\* The queue keeps to maxsize_ and no notify_one is lost.  While workers sleep, there are
\* no more tasks queued than workers woken for them or notifies still to come
\* (ThreadPool.cc:62, 79 against the wait at 87).  While threads sleep in run(), there is
\* no more room than threads woken for it (ThreadPool.cc:95 against 59 and 75).  However
\* many wait, a running pool's queue is never longer than maxsize_ (ThreadPool.cc:57, 73);
\* what was queued before start() does not count.
QueueKept ==
    /\ At("waitTask") # {} =>
         Len(queue_) <= Cardinality(At("gotTask")) + Cardinality(At("notify"))
    /\ At("waitRoom") # {} => MaxSize <= Len(queue_) + Cardinality(At("gotRoom"))
    /\ isRunning_ /\ MaxSize > 0 =>
         Cardinality({i \in 1..Len(queue_) : queue_[i] \notin doubled}) <= MaxSize

\* Every task handed over is in one place: run, queued, or still in its run()
\* call; none is lost or run twice.  The exception is a task given to run(Task&&)
\* when there are no threads, which is run on the spot and queued as well
\* (ThreadPool.cc:69-80 has no else).
TaskInOnePlace ==
    \A x \in submitted \ doubled :
        runs[x] + Cardinality({i \in 1..Len(queue_) : queue_[i] = x})
                + Cardinality({t \in Threads : run[t].task = x}) = 1

\* Every task handed over is run, unless the pool is stopped, or its threads have
\* all been ended by tasks that throw or sleep in a run() their tasks made on a
\* full queue (ThreadPool.cc:100-127).
TasksRun ==
    \A x \in Tasks :
        x \in submitted ~> (runs[x] > 0 \/ owner \in {"stopping", "stopped"}
                            \/ \A w \in threads_ : pc[w] \in {"ended", "waitRoom"})

\* stop() returns and no run() sleeps on, whatever the workers and the threads in
\* run() were waiting for (ThreadPool.cc:34-48).
StopReturns == owner = "stopping" ~> (owner = "stopped" /\ At("waitRoom") = {})
================================================================================
