------------------------------ MODULE MCThreadPool ------------------------------
(* ThreadPool for TLC: two clients, two workers, a queue of one. *)
EXTENDS ThreadPool

CONSTANTS c1, c2, w1, w2, t1, t2, t3

AllThreads == {c1, c2, w1, w2}
BothOverloads == {"copy", "move"}
================================================================================
