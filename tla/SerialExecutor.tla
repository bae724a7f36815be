---------------------------- MODULE SerialExecutor ----------------------------
(***************************************************************************)
(* What an EventLoop promises the threads that hand it functors: one       *)
(* serial executor with a FIFO queue.  A functor handed over is queued;    *)
(* the executor runs the oldest queued functor; only the loop's own thread *)
(* may run one at once, ahead of the queue.                                *)
(***************************************************************************)
EXTENDS Sequences

CONSTANT Functors

VARIABLES queue,     \* functors handed over and not yet started, oldest first
          executed   \* functors started, in the order they were started

Init == queue = << >> /\ executed = << >>

Submit(f) == queue' = Append(queue, f) /\ UNCHANGED executed

RunNow(f) == executed' = Append(executed, f) /\ UNCHANGED queue

RunOldest ==
    /\ queue # << >>
    /\ executed' = Append(executed, Head(queue))
    /\ queue' = Tail(queue)

Next == \/ \E f \in Functors : Submit(f) \/ RunNow(f)
        \/ RunOldest

Spec == Init /\ [][Next]_<<queue, executed>>
===============================================================================
