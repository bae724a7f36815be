----------------------------- MODULE MCTimerQueue -----------------------------
(* TimerQueue for TLC: two timers that fire once and one that repeats. *)
EXTENDS TimerQueue, TLC

CONSTANTS once1, once2, every

MCTimers == {once1, once2, every}
MCInterval == (once1 :> 0) @@ (once2 :> 0) @@ (every :> 2)
Symmetry == Permutations({once1, once2})
===============================================================================
