------------------------------- MODULE WorkerQueue -------------------------------
(***************************************************************************)
(* The queues and the latch used together, as their unit tests use them:   *)
(* workers that wait for a latch take values until they get "quit"; when   *)
(* every task has been put, the owner puts one "quit" per worker and joins *)
(* them.                                                                   *)
(***************************************************************************)
EXTENDS BlockingQueue, CountDownLatch

CONSTANTS Producers, Owner, Quit

Workers == Waiters
Tasks == Values \ {Quit}

ASSUME RolesAssumption ==
    /\ Threads = Workers \cup Producers /\ Workers \cap Producers = {}
    /\ Owner \in Producers /\ Quit \in Values

VARIABLES handed,  \* the tasks put() has been called with
          quits    \* how many times it was called with "quit"

vars == <<queueVars, latchVars, handed, quits>>

Init == QueueInit /\ LatchInit /\ handed = {} /\ quits = 0

\* The test's run() makes its tasks in order; a producer puts the next one.
NextTask == CHOOSE v \in Tasks \ handed : TRUE

PutTask(p, v) ==
    /\ v \notin handed /\ v = NextTask
    /\ handed' = handed \cup {v}
    /\ CallPut(p, v)
    /\ UNCHANGED <<latchVars, quits>>

\* joinAll() puts "quit" for each worker, when run() is over.
PutQuit ==
    /\ handed = Tasks /\ \A p \in Producers : pc[p] = "out"
    /\ quits < Cardinality(Workers)
    /\ quits' = quits + 1
    /\ CallPut(Owner, Quit)
    /\ UNCHANGED <<latchVars, handed>>

\* threadFunc: past the latch, the worker takes until it has "quit".
TakeNext(w) ==
    /\ lpc[w] = "passed" /\ item[w] # Quit
    /\ CallTake(w)
    /\ UNCHANGED <<latchVars, handed, quits>>

QueueMoves(t) == QueueStep(t) /\ UNCHANGED <<latchVars, handed, quits>>
LatchMoves(w) == Wait(w) /\ UNCHANGED <<queueVars, handed, quits>>
CounterMoves(t) == CounterStep(t) /\ UNCHANGED <<queueVars, handed, quits>>
Spurious(t) ==
    \/ SpuriousWakeup(t) /\ UNCHANGED <<latchVars, handed, quits>>
    \/ t \in Workers /\ WaitSpurious(t) /\ UNCHANGED <<queueVars, handed, quits>>

WorkerStep(w) == QueueMoves(w) \/ LatchMoves(w) \/ TakeNext(w)
ProducerStep(p) == QueueMoves(p) \/ \E v \in Tasks : PutTask(p, v)

Next ==
    \/ \E w \in Workers : WorkerStep(w)
    \/ \E p \in Producers : ProducerStep(p)
    \/ PutQuit
    \/ \E t \in Counters : CounterMoves(t)
    \/ \E t \in Threads : Spurious(t)

\* A thread that is not asleep gets mutex_ in the end and takes its next step.
Fairness ==
    /\ \A w \in Workers : WF_vars(WorkerStep(w))
    /\ \A p \in Producers : WF_vars(ProducerStep(p))
    /\ WF_vars(PutQuit)
    /\ \A t \in Counters : WF_vars(CounterMoves(t))

Spec == Init /\ [][Next]_vars /\ Fairness

--------------------------------------------------------------------------------
\* The joins of joinAll() return.
Joined ==
    /\ quits = Cardinality(Workers) /\ \A p \in Producers : pc[p] = "out"
    /\ \A w \in Workers : pc[w] = "out" /\ item[w] = Quit

\* joinAll() returns, and by then every task has been taken: no thread sleeps on in
\* take(), in put() or at the latch.  The exceptions are a latch counted down again
\* before the countdown that opened it looked (CountDownLatch.cc:22), and a bounded queue
\* of capacity 0, whose put() waits for good (BoundedBlockingQueue.h:56).
JoinReturns == <>((Joined /\ queue_ = << >> /\ handed = Tasks) \/ missed \/ capacity = 0)
================================================================================
