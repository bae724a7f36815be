----------------------------- MODULE CountDownLatch -----------------------------
(***************************************************************************)
(* ham/base/CountDownLatch.{h,cc}.  countdown() decrements under mutex_    *)
(* but reads the count for its notify_all after the unlock: that read is a *)
(* step of its own.                                                        *)
(***************************************************************************)
EXTENDS Integers

CONSTANTS Waiters,   \* threads that call wait()
          Counters,  \* threads that call countdown(), once each
          Counts     \* what the latch may be constructed with

ASSUME LatchAssumption == Waiters \cap Counters = {} /\ Counts \subseteq Nat

VARIABLES count_,
          lpc,      \* where each thread is
          lowered,  \* per counter: what its decrement left
          missed    \* history: the one that left 0 read something else

latchVars == <<count_, lpc, lowered, missed>>

LatchInit ==
    /\ count_ \in Counts
    /\ lpc = [t \in Waiters \cup Counters |-> IF t \in Waiters THEN "wait" ELSE "count"]
    /\ lowered = [t \in Counters |-> 1]
    /\ missed = FALSE

\* wait() with mutex_, at the head of its loop.
Wait(t) ==
    /\ lpc[t] \in {"wait", "woken"}
    /\ lpc' = [lpc EXCEPT ![t] = IF count_ > 0 THEN "asleep" ELSE "passed"]
    /\ UNCHANGED <<count_, lowered, missed>>

WaitSpurious(t) ==
    /\ lpc[t] = "asleep"
    /\ lpc' = [lpc EXCEPT ![t] = "woken"]
    /\ UNCHANGED <<count_, lowered, missed>>

\* Seeded fault: a guard against counting below 0 is off by one.
Lower_Guarded(t) ==
    /\ lpc[t] = "count"
    /\ count_' = IF count_ > 1 THEN count_ - 1 ELSE count_
    /\ lowered' = [lowered EXCEPT ![t] = count_']
    /\ lpc' = [lpc EXCEPT ![t] = "notify"]
    /\ UNCHANGED missed

\* countdown() up to the unlock.
Lower(t) ==
    /\ lpc[t] = "count"
    /\ count_' = count_ - 1
    /\ lowered' = [lowered EXCEPT ![t] = count_']
    /\ lpc' = [lpc EXCEPT ![t] = "notify"]
    /\ UNCHANGED missed

\* Seeded fault: notify_one for notify_all.
Roused_One == {s \in Waiters : /\ lpc[s] = "asleep"
                               /\ s = CHOOSE w \in Waiters : lpc[w] = "asleep"}

\* Whom notify_all wakes.
Roused == {w \in Waiters : lpc[w] = "asleep"}

\* The rest of countdown().
NotifyAtZero(t) ==
    /\ lpc[t] = "notify"
    /\ lpc' = [s \in DOMAIN lpc |-> IF s = t THEN "passed"
                                    ELSE IF count_ = 0 /\ s \in Roused THEN "woken" ELSE lpc[s]]
    /\ missed' = (missed \/ (lowered[t] = 0 /\ count_ # 0))
    /\ UNCHANGED <<count_, lowered>>

CounterStep(t) == Lower(t) \/ NotifyAtZero(t)

LatchNext ==
    \/ \E t \in Waiters : Wait(t) \/ WaitSpurious(t)
    \/ \E t \in Counters : CounterStep(t)

LatchSpec == LatchInit /\ [][LatchNext]_latchVars

--------------------------------------------------------------------------------
\* The latch is never open to a sleeper that nobody is going to wake: the countdown that
\* left 0 has its notify_all still to come, unless another countdown got in before it
\* read the count (CountDownLatch.cc:20-23).
OpeningAnnounced ==
    count_ <= 0 /\ (\E w \in Waiters : lpc[w] = "asleep") =>
        missed \/ \E t \in Counters : lpc[t] = "notify" /\ lowered[t] = 0
================================================================================
