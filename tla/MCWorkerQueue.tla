------------------------------ MODULE MCWorkerQueue ------------------------------
(* WorkerQueue for TLC: both queues, capacities 0 and 1, and a latch of 1 or 2. *)
EXTENDS WorkerQueue

CONSTANTS p1, p2, w1, w2, k1, k2, t1, t2, quit

AllCapacities == {Unbounded, 0, 1}
================================================================================
