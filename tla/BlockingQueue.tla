------------------------------ MODULE BlockingQueue ------------------------------
(***************************************************************************)
(* ham/base/BlockingQueue.h and BoundedBlockingQueue.h: a queue between    *)
(* threads.  What a thread does under mutex_, up to a wait or the unlock,  *)
(* is one step; the notify of BlockingQueue::put comes after the unlock    *)
(* and is a step of its own.  A thread in wait() sleeps until it is        *)
(* notified or wakes for no reason, and then has to get mutex_ again.      *)
(***************************************************************************)
EXTENDS Integers, Sequences, FiniteSets

CONSTANTS Threads, Values,
          Capacities  \* what the bounded queue may be constructed with; Unbounded
                      \* stands for the other class

Unbounded == -1
NoValue == "no value"

ASSUME ThreadsAssumption == IsFiniteSet(Threads)
ASSUME CapacitiesAssumption == Capacities \subseteq Nat \cup {Unbounded}
ASSUME NoValueAssumption == NoValue \notin Values

VARIABLES capacity,  \* chosen by the constructor
          queue_,
          pc,        \* where each thread is in put() or take(); "out" when in neither
          item,      \* what its put() was given, or its take() returned
          given,     \* history: the values put, in the order of their push_back
          taken      \* history: the values taken, in the order of their pop_front

queueVars == <<capacity, queue_, pc, item, given, taken>>

bounded == capacity # Unbounded

At(p) == {t \in Threads : pc[t] = p}

QueueInit ==
    /\ capacity \in Capacities
    /\ queue_ = << >>
    /\ pc = [t \in Threads |-> "out"]
    /\ item = [t \in Threads |-> NoValue]
    /\ given = << >> /\ taken = << >>

--------------------------------------------------------------------------------
(* Condition variables: the sleepers are the threads at "waitTask"         *)
(* (notEmpty_) and at "waitRoom" (notFull_).                               *)

Woken(p) == IF p = "waitTask" THEN "gotTask" ELSE "gotRoom"

\* notify_one to the sleepers at p, by a thread that thereby moves to pcs.
NotifyOne(p, pcs) ==
    \/ At(p) = {} /\ pc' = pcs
    \/ \E t \in At(p) : pc' = [pcs EXCEPT ![t] = Woken(p)]

\* A wait() may return without a notify.
SpuriousWakeup(t) ==
    /\ pc[t] \in {"waitTask", "waitRoom"}
    /\ pc' = [pc EXCEPT ![t] = Woken(@)]
    /\ UNCHANGED <<capacity, queue_, item, given, taken>>

--------------------------------------------------------------------------------
(* put() and take().                                                       *)

\* circular_buffer::full; a deque is never full.
full == bounded /\ Len(queue_) = capacity

\* circular_buffer::push_back overwrites the front of a full buffer.
PushBack(q, v) == Append(IF full /\ q # << >> THEN Tail(q) ELSE q, v)

CallPut(t, v) ==
    /\ pc[t] = "out"
    /\ pc' = [pc EXCEPT ![t] = "put"]
    /\ item' = [item EXCEPT ![t] = v]
    /\ UNCHANGED <<capacity, queue_, given, taken>>

\* Seeded fault: `if' for `while', a thread that was woken does not look again.
PutWaits_Once(t) == pc[t] = "put" /\ full

\* The condition of put()'s while, also tested after a wait.
PutWaits(t) == full

\* put() with mutex_, at the head of its loop.  The bounded queue notifies before it
\* unlocks, the other one after.
Put(t) ==
    /\ pc[t] \in {"put", "gotRoom"}
    /\ \/ /\ PutWaits(t)
          /\ pc' = [pc EXCEPT ![t] = "waitRoom"]
          /\ UNCHANGED <<queue_, given>>
       \/ /\ ~PutWaits(t)
          /\ queue_' = PushBack(queue_, item[t])
          /\ given' = Append(given, item[t])
          /\ IF bounded THEN NotifyOne("waitTask", [pc EXCEPT ![t] = "out"])
                        ELSE pc' = [pc EXCEPT ![t] = "notify"]
    /\ UNCHANGED <<capacity, item, taken>>

\* BlockingQueue::put after its unlock.
NotifyNotEmpty(t) ==
    /\ pc[t] = "notify"
    /\ NotifyOne("waitTask", [pc EXCEPT ![t] = "out"])
    /\ UNCHANGED <<capacity, queue_, item, given, taken>>

CallTake(t) ==
    /\ pc[t] = "out"
    /\ pc' = [pc EXCEPT ![t] = "take"]
    /\ UNCHANGED <<capacity, queue_, item, given, taken>>

\* Seeded fault: take() does not tell the threads that wait for room.
RoomNotify_Never(pcs) == pc' = pcs

\* take()'s notify: only the bounded queue has one.
RoomNotify(pcs) == IF bounded THEN NotifyOne("waitRoom", pcs) ELSE pc' = pcs

\* take() with mutex_, at the head of its loop.
Take(t) ==
    /\ pc[t] \in {"take", "gotTask"}
    /\ \/ /\ queue_ = << >>
          /\ pc' = [pc EXCEPT ![t] = "waitTask"]
          /\ UNCHANGED <<queue_, item, taken>>
       \/ /\ queue_ # << >>
          /\ item' = [item EXCEPT ![t] = Head(queue_)]
          /\ queue_' = Tail(queue_)
          /\ taken' = Append(taken, Head(queue_))
          /\ RoomNotify([pc EXCEPT ![t] = "out"])
    /\ UNCHANGED <<capacity, given>>

QueueStep(t) == Put(t) \/ NotifyNotEmpty(t) \/ Take(t)

\* Threads that call put() and take() as they like.
QueueNext ==
    \E t \in Threads :
        \/ QueueStep(t)
        \/ SpuriousWakeup(t)
        \/ CallTake(t)
        \/ \E v \in Values : CallPut(t, v)

QueueSpec == QueueInit /\ [][QueueNext]_queueVars

--------------------------------------------------------------------------------
(* Properties.                                                             *)

\* The types; the bounded queue keeps to its capacity.
QueueTypeOK ==
    /\ capacity \in Capacities
    /\ queue_ \in Seq(Values)
    /\ pc \in [Threads -> {"out", "put", "waitRoom", "gotRoom", "notify",
                           "take", "waitTask", "gotTask"}]
    /\ item \in [Threads -> Values \cup {NoValue}]
    /\ \A t \in Threads : pc[t] \in {"put", "waitRoom", "gotRoom"} => item[t] \in Values
    /\ given \in Seq(Values) /\ taken \in Seq(Values)
    /\ bounded => Len(queue_) <= capacity

\* No notify_one is lost.  While threads sleep in take(), there are no more values in the
\* queue than threads woken for them or notifies still to come (BlockingQueue.h:36,
\* BoundedBlockingQueue.h:61 against the waits in take()); while threads sleep in put(),
\* there is no more room than threads woken for it (BoundedBlockingQueue.h:74 against 58).
NotifiesKept ==
    /\ At("waitTask") # {} =>
         Len(queue_) <= Cardinality(At("gotTask")) + Cardinality(At("notify"))
    /\ At("waitRoom") # {} => capacity <= Len(queue_) + Cardinality(At("gotRoom"))

\* What was put is what was taken and then what is queued, in order: nothing is lost,
\* doubled or overwritten in the circular buffer, whoever waited for room
\* (BoundedBlockingQueue.h:53-76, BlockingQueue.h:40-60).
FirstInFirstOut == given = taken \o queue_
================================================================================
