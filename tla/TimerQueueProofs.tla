---------------------------- MODULE TimerQueueProofs ----------------------------
(***************************************************************************)
(* The timer queue's properties for any number of timers, any intervals,   *)
(* times and delay, and any number of functors waiting.                    *)
(***************************************************************************)
EXTENDS TimerQueue, FiniteSetTheorems, SequenceTheorems, TLAPS

\* Where a timer can be.  What is being called is out of the list, and only handleRead
\* calls; a timer whose addTimerInLoop waits is nowhere else and waits only once.
Places ==
    /\ expired # {} => handling
    /\ timerList_ \cap expired = {}
    /\ \A i \in 1..Len(pending) :
         pending[i].op = "add" =>
             pending[i].timer \notin timerList_ \cup expired \cup done \cup cancelled
    /\ \A i, j \in 1..Len(pending) :
         i # j /\ pending[i].op = "add" /\ pending[j].op = "add" =>
             pending[i].timer # pending[j].timer

\* What has happened to it: a cancelled timer that is being called is remembered, and the
\* timers being called were due when handleRead read the clock.
Past ==
    /\ \A t \in cancelled : t \in expired => t \in cancelingTimers_
    /\ now <= clock
    /\ \A t \in toRun : expiration_[t] <= now
    /\ aborted => asserts /\ \E t \in timerList_, u \in expired :
                               expiration_[t] = now /\ expiration_[u] = now

\* While handleRead runs, timers that reset() would not arm for are covered already.
ZeroCovered ==
    handling => \A t \in timerList_ :
                    expiration_[t] = 0 => alarm # Never /\ alarm <= clock + MinDelay

IInv == TypeOK /\ Places /\ Past /\ ZeroCovered /\ AlarmCovers /\ NotRevived

USE TimersAssumption, TimeAssumption

\* The inductive invariant holds at the start.
LEMMA InitIInv == Init => IInv
<1> SUFFICES ASSUME Init PROVE IInv
  OBVIOUS
<1>1. TypeOK
  <2>1. asserts \in BOOLEAN
    BY DEF Init
  <2>2. clock \in Nat \ {0} /\ now \in Nat /\ expiration_ \in [Timers -> Nat]
    BY DEF Init
  <2>3. pending \in Seq([op : {"add", "cancel"}, timer : Timers]) /\ 1..Len(pending) = {}
    BY DEF Init
  <2>4. QED
    BY <2>1, <2>2, <2>3 DEF Init, TypeOK
<1>2. Places /\ Past
  BY DEF Init, Places, Past
<1>3. ZeroCovered /\ AlarmCovers /\ NotRevived
  BY DEF Init, ZeroCovered, AlarmCovers, NotRevived
<1>4. QED
  BY <1>1, <1>2, <1>3 DEF IInv

\* What AlarmFor gives (howMuchTimeFromNow and resetAlarmFd).
LEMMA AlarmForIs ==
  ASSUME TypeOK, NEW when \in Nat
  PROVE  AlarmFor(when) \in Nat /\ AlarmFor(when) = Later(when, clock + MinDelay)
  BY DEF AlarmFor, Later, TypeOK

\* A set of at most one element has no second one.
LEMMA TwoElements ==
  ASSUME NEW S, IsFiniteSet(S), NEW t \in S, Cardinality(S) > 1
  PROVE  \E u \in S : u # t
<1>1. SUFFICES ASSUME \A u \in S : u = t PROVE FALSE
  OBVIOUS
<1>2. S = {t}
  BY <1>1
<1>3. QED
  BY <1>2, FS_Singleton

\* A timer that goes into the list is covered by the alarm as it was, if another comes
\* first, or as addTimerInLoop sets it (TimerQueue.cc:117-125).
LEMMA AddCovers ==
  ASSUME TypeOK, ZeroCovered, AlarmCovers, NEW t \in Timers, expiration_' \in [Timers -> Nat],
         \A u \in timerList_ : expiration_'[u] = expiration_[u],
         addTimerInLoop(t), UNCHANGED <<clock, handling, polled>>
  PROVE  alarm' \in Nat \cup {Never} /\ ZeroCovered' /\ AlarmCovers'
<1>1. /\ timerList_' = timerList_ \cup {t} /\ timerList_ \subseteq Timers
      /\ clock \in Nat \ {0} /\ clock' = clock /\ expiration_'[t] \in Nat
      /\ \A u \in timerList_ : expiration_'[u] \in Nat
      /\ handling' = handling /\ polled' = polled
  BY DEF TypeOK, addTimerInLoop
<1>2. CASE \A u \in timerList_ : expiration_'[t] < expiration_'[u]
  <2>1. alarm' \in Nat /\ alarm' = Later(expiration_'[t], clock + MinDelay)
    BY <1>1, <1>2, AlarmForIs DEF addTimerInLoop
  <2>2. \A u \in timerList_' : expiration_'[t] <= expiration_'[u]
    BY <1>1, <1>2
  <2>3. \A u \in timerList_' : alarm' <= Later(expiration_'[u], clock + MinDelay)
    BY <1>1, <2>1, <2>2 DEF Later
  <2>4. \A u \in timerList_' : expiration_'[u] = 0 => alarm' <= clock' + MinDelay
    BY <1>1, <2>1, <2>2 DEF Later
  <2>5. QED
    BY <1>1, <2>1, <2>3, <2>4 DEF ZeroCovered, AlarmCovers
<1>3. CASE ~\A u \in timerList_ : expiration_'[t] < expiration_'[u]
  <2>1. alarm' = alarm /\ alarm \in Nat \cup {Never}
    BY <1>3 DEF addTimerInLoop, TypeOK
  <2>2. PICK v \in timerList_ : expiration_'[v] <= expiration_'[t]
    BY <1>1, <1>3
  <2>3. expiration_[v] \in Nat /\ expiration_[v] <= expiration_'[t]
    BY <1>1, <2>2
  <2>4. ZeroCovered'
    BY <1>1, <2>1, <2>2, <2>3 DEF ZeroCovered
  <2>5. AlarmCovers'
    BY <1>1, <2>1, <2>2, <2>3 DEF AlarmCovers, Later
  <2>6. QED
    BY <2>1, <2>4, <2>5
<1>4. QED
  BY <1>2, <1>3

\* A step that leaves alarm, clock and handleRead alone and the list no larger keeps it
\* covered.
LEMMA FewerCovered ==
  ASSUME TypeOK, ZeroCovered, AlarmCovers, timerList_' \subseteq timerList_,
         \A u \in timerList_ : expiration_'[u] = expiration_[u],
         UNCHANGED <<alarm, clock, handling, polled>>
  PROVE  ZeroCovered' /\ AlarmCovers'
  BY DEF ZeroCovered, AlarmCovers

\* handleRead takes the timers that are due (TimerQueue.cc:67-88, 160-173).
LEMMA HandleReadStep ==
  ASSUME IInv, NEW t \in Timers, HandleRead(t)
  PROVE  IInv'
<1> DEFINE at == {u \in timerList_ : expiration_[u] = clock}
<1>1. /\ expired' = Overdue \cup (at \cap {t}) /\ toRun' = expired'
      /\ timerList_' = timerList_ \ expired'
      /\ at # {} => t \in at
      /\ aborted' = (asserts /\ Cardinality(at) > 1)
      /\ handling' /\ ~polled' /\ now' = clock /\ clock' = clock /\ cancelingTimers_' = {}
      /\ ~aborted /\ ~handling
      /\ UNCHANGED <<expiration_, cancelled, pending, created, done, asserts>>
  BY DEF HandleRead, GetExpired, Running, IInv, TypeOK
<1>2. /\ expired' \subseteq timerList_ /\ expired = {} /\ toRun = {}
      /\ \A u \in expired' : expiration_[u] <= clock
      /\ \A u \in timerList_' : expiration_[u] >= clock
  BY <1>1 DEF Overdue, IInv, TypeOK, Places
<1>3. TypeOK'
  BY <1>1, <1>2 DEF IInv, TypeOK, HandleRead
<1>4. Places'
  BY <1>1, <1>2 DEF IInv, Places
<1>5. aborted' => \E v \in timerList_', u \in expired' : expiration_'[v] = now' /\ expiration_'[u] = now'
  <2> SUFFICES ASSUME aborted'
               PROVE  \E v \in timerList_', u \in expired' : expiration_'[v] = now' /\ expiration_'[u] = now'
    OBVIOUS
  <2>1. IsFiniteSet(at) /\ Cardinality(at) > 1
    <3>1. at \subseteq Timers
      BY DEF IInv, TypeOK
    <3>2. QED
      BY <1>1, <3>1, FS_Subset
  <2>2. t \in at
    BY <1>1, <2>1, FS_EmptySet
  <2>3. PICK v \in at : v # t
    BY <2>1, <2>2, TwoElements
  <2>4. v \in timerList_' /\ t \in expired'
    BY <1>1, <2>2, <2>3 DEF Overdue, IInv, TypeOK
  <2>5. QED
    BY <1>1, <2>2, <2>3, <2>4
<1>6. Past'
  BY <1>1, <1>2, <1>5 DEF IInv, TypeOK, Past, NotRevived
<1>7. ZeroCovered' /\ AlarmCovers'
  BY <1>1, <1>2 DEF IInv, TypeOK, ZeroCovered, AlarmCovers
<1>8. NotRevived'
  BY <1>1, <1>2 DEF IInv, NotRevived
<1>9. QED
  BY <1>3, <1>4, <1>6, <1>7, <1>8 DEF IInv

\* A timer's callback begins.
LEMMA RunTimerStep ==
  ASSUME IInv, NEW t \in Timers, RunTimer(t)
  PROVE  IInv'
<1>1. /\ t \in toRun /\ toRun' = toRun \ {t} /\ done' = done \cup {t} /\ ~aborted
      /\ UNCHANGED <<clock, queueVars, polled, handling, now, expired, pending, created, asserts,
                     aborted>>
  BY DEF RunTimer, IsEarliest, Running
<1>2. t \in expired /\ t \notin timerList_ /\ t \in created
  BY <1>1 DEF IInv, TypeOK, Places
<1>3. TypeOK'
  BY <1>1, <1>2 DEF IInv, TypeOK, queueVars
<1>4. Places' /\ Past'
  BY <1>1, <1>2 DEF IInv, Places, Past, queueVars
<1>5. ZeroCovered' /\ AlarmCovers'
  BY <1>1, FewerCovered DEF IInv, queueVars
<1>6. NotRevived'
  BY <1>1, <1>2 DEF IInv, NotRevived, queueVars
<1>7. QED
  BY <1>3, <1>4, <1>5, <1>6 DEF IInv

\* reset() puts the repeating timers back and arms for the first (TimerQueue.cc:175-193).
LEMMA ResetStep ==
  ASSUME IInv, Reset
  PROVE  IInv'
<1>1. /\ ~aborted /\ handling /\ toRun = {} /\ handling' = FALSE /\ expired' = {}
      /\ expiration_' = [t \in Timers |-> IF t \in Again THEN restart(t) ELSE expiration_[t]]
      /\ timerList_' = timerList_ \cup Again
      /\ UNCHANGED <<clock, polled, now, toRun, cancelingTimers_, cancelled, done, pending,
                     created, asserts, aborted>>
  BY DEF Reset, Running
<1>2. /\ Again \subseteq expired /\ Again \subseteq created /\ Again \cap timerList_ = {}
      /\ Again \cap cancelled = {} /\ \A t \in Again : Interval[t] > 0 /\ restart(t) \in Nat \ {0}
  BY DEF IInv, TypeOK, Places, Past, Again, restart
<1>3. /\ expiration_' \in [Timers -> Nat]
      /\ \A t \in timerList_ : expiration_'[t] = expiration_[t]
      /\ \A t \in Again : expiration_'[t] > 0
  BY <1>1, <1>2 DEF IInv, TypeOK
<1>4. alarm' \in Nat \cup {Never} /\ AlarmCovers'
  <2>1. CASE \E t \in timerList_' : /\ IsEarliest(t, timerList_', expiration_')
                                    /\ alarm' = AlarmFor(expiration_'[t])
    <3>1. PICK t \in timerList_' : /\ IsEarliest(t, timerList_', expiration_')
                                   /\ alarm' = AlarmFor(expiration_'[t])
      BY <2>1
    <3>2. timerList_' \subseteq Timers
      BY <1>1, <1>2 DEF IInv, TypeOK
    <3>3. alarm' \in Nat /\ alarm' = Later(expiration_'[t], clock + MinDelay)
      BY <1>3, <3>1, <3>2, AlarmForIs DEF IInv
    <3>4. \A u \in timerList_' : alarm' <= Later(expiration_'[u], clock + MinDelay)
      BY <1>3, <3>1, <3>2, <3>3 DEF IsEarliest, Later, IInv, TypeOK
    <3>5. QED
      BY <1>1, <3>3, <3>4 DEF AlarmCovers
  <2>2. CASE timerList_' = {} /\ alarm' = alarm
    BY <2>2 DEF AlarmCovers, IInv, TypeOK
  <2>3. CASE (\E t \in timerList_' : expiration_'[t] = 0) /\ alarm' = alarm
    <3>1. PICK t \in timerList_ : expiration_[t] = 0
      BY <1>1, <1>3, <2>3
    <3>2. alarm # Never /\ alarm <= clock + MinDelay /\ alarm \in Nat
      BY <1>1, <3>1 DEF IInv, ZeroCovered, TypeOK
    <3>3. \A u \in timerList_' : expiration_'[u] \in Nat
      BY <1>1, <1>2, <1>3 DEF IInv, TypeOK
    <3>4. clock \in Nat /\ clock' = clock
      BY <1>1 DEF IInv, TypeOK
    <3>5. \A u \in timerList_' : alarm' <= Later(expiration_'[u], clock' + MinDelay)
      BY <2>3, <3>2, <3>3, <3>4 DEF Later
    <3>6. QED
      BY <2>3, <3>2, <3>5 DEF AlarmCovers
  <2>4. QED
    BY <2>1, <2>2, <2>3 DEF Reset
<1>5. TypeOK'
  BY <1>1, <1>2, <1>3, <1>4 DEF IInv, TypeOK
<1>6. Places'
  BY <1>1, <1>2 DEF IInv, Places
<1>7. Past' /\ ZeroCovered'
  BY <1>1 DEF IInv, Past, ZeroCovered
<1>8. NotRevived'
  BY <1>1, <1>2 DEF IInv, NotRevived
<1>9. QED
  BY <1>4, <1>5, <1>6, <1>7, <1>8 DEF IInv

\* The queue of functors loses its first d.
Drops(d) ==
    /\ pending' \in Seq([op : {"add", "cancel"}, timer : Timers])
    /\ Len(pending') + d = Len(pending)
    /\ \A i \in 1..Len(pending') : pending'[i] = pending[i + d]

\* None of the functors then left adds t.
NotQueued(t) == \A i \in 1..Len(pending') : pending'[i].op = "add" => pending'[i].timer # t

\* cancelTimerInLoop, called in place or from a functor (TimerQueue.cc:127-140): the rest
\* of the step may shorten the queue of functors by its head.
LEMMA CancelStep ==
  ASSUME IInv, NEW t \in created, cancelTimerInLoop(t), ~aborted,
         NEW d \in Nat, Drops(d),
         UNCHANGED <<clock, handlerVars, polled, created, asserts, aborted>>
  PROVE  IInv'
<1>0. /\ pending' \in Seq([op : {"add", "cancel"}, timer : Timers])
      /\ Len(pending') + d = Len(pending)
      /\ \A i \in 1..Len(pending') : pending'[i] = pending[i + d]
  BY DEF Drops
<1>1. /\ timerList_' = timerList_ \ {t} /\ UNCHANGED <<expiration_, alarm>>
      /\ cancelingTimers_' = IF t \notin timerList_ /\ handling
                             THEN cancelingTimers_ \cup {t} ELSE cancelingTimers_
      /\ cancelled' = IF t \in timerList_ \cup expired THEN cancelled \cup {t} ELSE cancelled
      /\ UNCHANGED <<handling, now, expired, toRun, done>>
  BY DEF cancelTimerInLoop, handlerVars
<1>2. \A i \in 1..Len(pending') : i + d \in 1..Len(pending)
  <2>1. Len(pending') \in Nat /\ Len(pending) \in Nat
    BY <1>0, LenProperties DEF IInv, TypeOK
  <2>2. QED
    BY <1>0, <2>1
<1>3. TypeOK'
  <2>1. \A i \in 1..Len(pending') : pending'[i].timer \in created
    BY <1>0, <1>2 DEF IInv, TypeOK
  <2>2. QED
    BY <1>0, <1>1, <2>1 DEF IInv, TypeOK
<1>4. Places'
  <2>1. \A i \in 1..Len(pending') :
          pending'[i].op = "add" =>
            pending'[i].timer \notin timerList_' \cup expired' \cup done' \cup cancelled'
    <3> SUFFICES ASSUME NEW i \in 1..Len(pending'), pending'[i].op = "add"
                 PROVE  pending'[i].timer \notin timerList_' \cup expired' \cup done' \cup cancelled'
      OBVIOUS
    <3>1. pending'[i].timer \notin timerList_ \cup expired \cup done \cup cancelled
      BY <1>0, <1>2 DEF IInv, Places
    <3>2. QED
      BY <1>1, <3>1
  <2>2. \A i, j \in 1..Len(pending') :
          i # j /\ pending'[i].op = "add" /\ pending'[j].op = "add" =>
            pending'[i].timer # pending'[j].timer
    <3> SUFFICES ASSUME NEW i \in 1..Len(pending'), NEW j \in 1..Len(pending'), i # j,
                        pending'[i].op = "add", pending'[j].op = "add"
                 PROVE  pending'[i].timer # pending'[j].timer
      OBVIOUS
    <3> DEFINE k == i + d
               l == j + d
    <3>1. /\ k \in 1..Len(pending) /\ l \in 1..Len(pending) /\ k # l
          /\ pending'[i] = pending[k] /\ pending'[j] = pending[l]
      BY <1>0, <1>2, SMTT(30)
    <3> HIDE DEF k, l
    <3>2. QED
      BY <3>1 DEF IInv, Places
  <2>3. QED
    BY <1>1, <2>1, <2>2 DEF IInv, Places
<1>5. Past'
  BY <1>1 DEF IInv, Past, Places
<1>6. ZeroCovered' /\ AlarmCovers'
  BY <1>1, FewerCovered DEF IInv
<1>7. NotRevived'
  BY <1>1 DEF IInv, NotRevived, Places, TypeOK
<1>8. QED
  BY <1>3, <1>4, <1>5, <1>6, <1>7 DEF IInv

\* addTimerInLoop, called in place with a new timer or from a functor
\* (TimerQueue.cc:117-125, 142-158); in the second case its functor leaves the queue.
LEMMA AddStep ==
  ASSUME IInv, NEW t \in Timers, addTimerInLoop(t), ~aborted,
         t \notin timerList_ \cup expired \cup done \cup cancelled,
         created' = created \cup {t}, expiration_' \in [Timers -> Nat],
         \A u \in created \ {t} : expiration_'[u] = expiration_[u],
         NEW d \in Nat, Drops(d), NotQueued(t),
         UNCHANGED <<clock, handlerVars, polled, asserts, aborted>>
  PROVE  IInv'
<1>0. /\ pending' \in Seq([op : {"add", "cancel"}, timer : Timers])
      /\ Len(pending') + d = Len(pending)
      /\ \A i \in 1..Len(pending') : pending'[i] = pending[i + d]
  BY DEF Drops
<1>1. /\ timerList_' = timerList_ \cup {t} /\ UNCHANGED <<cancelingTimers_, cancelled>>
      /\ UNCHANGED <<handling, now, expired, toRun, done>>
  BY DEF addTimerInLoop, handlerVars
<1>2. \A i \in 1..Len(pending') : i + d \in 1..Len(pending)
  <2>1. Len(pending') \in Nat /\ Len(pending) \in Nat
    BY <1>0, LenProperties DEF IInv, TypeOK
  <2>2. Len(pending') + d = Len(pending)
    BY <1>0
  <2>3. QED
    BY ONLY <2>1, <2>2, d \in Nat
<1>3. \A u \in timerList_ \cup expired : expiration_'[u] = expiration_[u]
  BY DEF IInv, TypeOK
<1>4. alarm' \in Nat \cup {Never} /\ ZeroCovered' /\ AlarmCovers'
  BY <1>1, <1>3, AddCovers DEF IInv
<1>5. TypeOK'
  <2>1. \A i \in 1..Len(pending') : pending'[i].timer \in created'
    BY <1>0, <1>2 DEF IInv, TypeOK
  <2>2. QED
    BY <1>0, <1>1, <1>4, <2>1 DEF IInv, TypeOK
<1>6. Places'
  <2>1. \A i \in 1..Len(pending') :
          pending'[i].op = "add" =>
            pending'[i].timer \notin timerList_' \cup expired' \cup done' \cup cancelled'
    <3> SUFFICES ASSUME NEW i \in 1..Len(pending'), pending'[i].op = "add"
                 PROVE  pending'[i].timer \notin timerList_' \cup expired' \cup done' \cup cancelled'
      OBVIOUS
    <3>1. pending'[i].timer \notin timerList_ \cup expired \cup done \cup cancelled
      BY <1>0, <1>2 DEF IInv, Places
    <3>2. QED
      BY <1>1, <3>1 DEF NotQueued
  <2>2. \A i, j \in 1..Len(pending') :
          i # j /\ pending'[i].op = "add" /\ pending'[j].op = "add" =>
            pending'[i].timer # pending'[j].timer
    <3> SUFFICES ASSUME NEW i \in 1..Len(pending'), NEW j \in 1..Len(pending'), i # j,
                        pending'[i].op = "add", pending'[j].op = "add"
                 PROVE  pending'[i].timer # pending'[j].timer
      OBVIOUS
    <3> DEFINE k == i + d
               l == j + d
    <3>1. /\ k \in 1..Len(pending) /\ l \in 1..Len(pending) /\ k # l
          /\ pending'[i] = pending[k] /\ pending'[j] = pending[l]
      <4>1. pending'[i] = pending[k] /\ pending'[j] = pending[l]
        BY <1>0
      <4>2. k \in 1..Len(pending) /\ l \in 1..Len(pending)
        BY <1>0, <1>2
      <4>3. QED
        BY <4>1, <4>2
    <3> HIDE DEF k, l
    <3>2. \A a, b \in 1..Len(pending) :
            a # b /\ pending[a].op = "add" /\ pending[b].op = "add" =>
              pending[a].timer # pending[b].timer
      BY DEF IInv, Places
    <3>3. QED
      BY ONLY <3>1, <3>2, pending'[i].op = "add", pending'[j].op = "add"
  <2>3. QED
    BY <1>1, <2>1, <2>2 DEF IInv, Places
<1>7. Past'
  BY <1>1, <1>3 DEF IInv, Past, TypeOK
<1>8. NotRevived'
  BY <1>1 DEF IInv, NotRevived
<1>9. QED
  BY <1>4, <1>5, <1>6, <1>7, <1>8 DEF IInv

\* A functor runs: the two operations, queued by other threads.
LEMMA RunFunctorStep ==
  ASSUME IInv, RunFunctor
  PROVE  IInv'
<1> DEFINE F == [op : {"add", "cancel"}, timer : Timers]
<1>1. /\ ~aborted /\ pending # << >> /\ pending \in Seq(F) /\ pending' = Tail(pending)
      /\ UNCHANGED <<clock, handlerVars, polled, created, asserts, aborted>>
  BY DEF RunFunctor, Running, IInv, TypeOK
<1>2. /\ pending' \in Seq(F) /\ Len(pending') + 1 = Len(pending)
      /\ \A i \in 1..Len(pending') : pending'[i] = pending[i + 1]
      /\ Head(pending) = pending[1] /\ 1 \in 1..Len(pending) /\ pending[1] \in F
  <2> HIDE DEF F
  <2>1. pending' \in Seq(F) /\ Len(pending') + 1 = Len(pending) /\ Len(pending') \in Nat
    BY <1>1
  <2>2. \A i \in 1..Len(pending') : pending'[i] = pending[i + 1]
    BY <1>1
  <2>3. Head(pending) = pending[1] /\ 1 \in 1..Len(pending) /\ pending[1] \in F
    BY <1>1, <2>1
  <2>4. QED
    BY <2>1, <2>2, <2>3
<1>3. Drops(1) /\ pending[1].timer \in created /\ created \subseteq Timers
  BY <1>2 DEF IInv, TypeOK, Drops
<1>4. CASE Head(pending).op = "cancel" /\ cancelTimerInLoop(Head(pending).timer)
  BY <1>1, <1>2, <1>3, <1>4, CancelStep
<1>5. CASE /\ Head(pending).op = "add" /\ UNCHANGED expiration_
           /\ addTimerInLoop(Head(pending).timer)
  <2>0. PICK t \in Timers : t = pending[1].timer
    BY <1>3
  <2>1. t \notin timerList_ \cup expired \cup done \cup cancelled
    BY <1>2, <1>5, <2>0 DEF IInv, Places
  <2>2. NotQueued(t)
    <3> SUFFICES ASSUME NEW i \in 1..Len(pending'), pending'[i].op = "add"
                 PROVE  pending'[i].timer # t
      BY DEF NotQueued
    <3> DEFINE k == i + 1
    <3>1. /\ k \in 1..Len(pending) /\ k # 1 /\ 1 \in 1..Len(pending)
          /\ pending'[i] = pending[k] /\ pending[1].op = "add"
      BY <1>1, <1>2, <1>5
    <3> HIDE DEF k
    <3>2. QED
      BY <2>0, <3>1 DEF IInv, Places
  <2>3. created' = created \cup {t} /\ expiration_' \in [Timers -> Nat] /\ expiration_' = expiration_
    BY <1>1, <1>3, <1>5, <2>0 DEF IInv, TypeOK
  <2>4. addTimerInLoop(t) /\ t \in Timers
    BY <1>2, <1>3, <1>5, <2>0
  <2>5. \A u \in created \ {t} : expiration_'[u] = expiration_[u]
    BY <2>3
  <2>6. UNCHANGED <<clock, handlerVars, polled, asserts, aborted>>
    BY <1>1
  <2>7. QED
    BY <1>1, <1>3, <2>1, <2>2, <2>3, <2>4, <2>5, <2>6, AddStep
<1>6. QED
  BY <1>4, <1>5 DEF RunFunctor

\* A call from another thread queues its functor (TimerQueue.cc:30-50): a functor that
\* adds is the first to mention its timer.
LEMMA QueueStep ==
  ASSUME IInv, ~aborted, NEW f \in [op : {"add", "cancel"}, timer : Timers],
         pending' = Append(pending, f), created' = created \cup {f.timer},
         f.op = "add" => f.timer \notin created, expiration_' \in [Timers -> Nat],
         \A u \in created : expiration_'[u] = expiration_[u],
         UNCHANGED <<clock, timerList_, alarm, cancelingTimers_, cancelled, handlerVars,
                     polled, asserts, aborted>>
  PROVE  IInv'
<1> DEFINE n == Len(pending)
<1>1. /\ n \in Nat /\ Len(pending') = n + 1 /\ pending'[n + 1] = f
      /\ \A i \in 1..n : pending'[i] = pending[i]
      /\ pending' \in Seq([op : {"add", "cancel"}, timer : Timers])
  <2>1. pending \in Seq([op : {"add", "cancel"}, timer : Timers])
    BY DEF IInv, TypeOK
  <2>2. QED
    BY <2>1, AppendProperties, LenProperties
<1>2. \A i \in 1..Len(pending') : i = n + 1 \/ i \in 1..n
  BY <1>1
<1>3. UNCHANGED <<handling, now, expired, toRun, done>>
  BY DEF handlerVars
<1> HIDE DEF n
<1>4. \A i \in 1..n : pending[i].timer \in created
  BY DEF IInv, TypeOK, n
<1>5. TypeOK'
  <2>1. \A i \in 1..Len(pending') : pending'[i].timer \in created'
    BY <1>1, <1>2, <1>4
  <2>2. QED
    BY <1>1, <1>3, <2>1 DEF IInv, TypeOK
<1>6. Places'
  <2>1. \A i \in 1..Len(pending') :
          pending'[i].op = "add" =>
            pending'[i].timer \notin timerList_' \cup expired' \cup done' \cup cancelled'
    <3> SUFFICES ASSUME NEW i \in 1..Len(pending'), pending'[i].op = "add"
                 PROVE  pending'[i].timer \notin timerList_' \cup expired' \cup done' \cup cancelled'
      OBVIOUS
    <3>1. CASE i = n + 1
      BY <1>1, <1>3, <3>1 DEF IInv, TypeOK
    <3>2. CASE i \in 1..n
      <4>1. pending[i].timer \notin timerList_ \cup expired \cup done \cup cancelled
        BY <1>1, <3>2 DEF IInv, Places, n
      <4>2. QED
        BY <1>1, <1>3, <3>2, <4>1
    <3>3. QED
      BY <1>2, <3>1, <3>2
  <2>2. \A i, j \in 1..Len(pending') :
          i # j /\ pending'[i].op = "add" /\ pending'[j].op = "add" =>
            pending'[i].timer # pending'[j].timer
    <3> SUFFICES ASSUME NEW i \in 1..Len(pending'), NEW j \in 1..Len(pending'), i # j,
                        pending'[i].op = "add", pending'[j].op = "add"
                 PROVE  pending'[i].timer # pending'[j].timer
      OBVIOUS
    <3>1. CASE i \in 1..n /\ j \in 1..n
      <4>1. pending'[i] = pending[i] /\ pending'[j] = pending[j]
        BY <1>1, <3>1
      <4>2. QED
        BY <3>1, <4>1, SMTT(30) DEF IInv, Places, n
    <3>2. CASE i = n + 1 /\ j \in 1..n
      BY <1>1, <1>4, <3>2
    <3>3. CASE i \in 1..n /\ j = n + 1
      BY <1>1, <1>4, <3>3
    <3>4. QED
      BY <1>2, <3>1, <3>2, <3>3
  <2>3. QED
    BY <1>3, <2>1, <2>2 DEF IInv, Places
<1>7. \A u \in timerList_ \cup expired \cup toRun : expiration_'[u] = expiration_[u]
  BY DEF IInv, TypeOK
<1>8. Past'
  BY <1>3, <1>7 DEF IInv, Past
<1>9. ZeroCovered' /\ AlarmCovers'
  BY <1>3, <1>7 DEF IInv, ZeroCovered, AlarmCovers, Later
<1>10. NotRevived'
  BY <1>3 DEF IInv, NotRevived
<1>11. QED
  BY <1>5, <1>6, <1>8, <1>9, <1>10 DEF IInv

\* A deadline that is met at one time is met at a later one.
LEMMA LaterClock ==
  ASSUME NEW a \in Nat, NEW b \in Nat, a <= b, NEW n \in Nat, NEW e \in Nat
  PROVE  /\ n <= a + MinDelay => n <= b + MinDelay
         /\ n <= Later(e, a + MinDelay) => n <= Later(e, b + MinDelay)
<1>1. MinDelay \in Nat
  OBVIOUS
<1>2. a + MinDelay <= b + MinDelay
  BY <1>1
<1>3. QED
  BY <1>1, <1>2 DEF Later

\* The clock moves on and epoll reports the timerfd: only the deadlines come nearer.
LEMMA TimeStep ==
  ASSUME IInv, Poll \/ Tick
  PROVE  IInv'
<1>1. /\ clock' \in Nat \ {0} /\ clock' >= clock /\ polled' \in BOOLEAN /\ (polled => polled')
      /\ UNCHANGED <<expiration_, timerList_, alarm, cancelingTimers_, cancelled, handling, now,
                     expired, toRun, done, pending, created, asserts, aborted>>
  <2>1. clock \in Nat \ {0} /\ polled \in BOOLEAN
    BY DEF IInv, TypeOK
  <2>2. CASE Poll
    BY <2>1, <2>2 DEF Poll, queueVars, handlerVars
  <2>3. CASE Tick
    BY <2>1, <2>3 DEF Tick, queueVars, handlerVars
  <2>4. QED
    BY <2>2, <2>3
<1>2. TypeOK'
  BY <1>1 DEF IInv, TypeOK
<1>3. Places' /\ NotRevived'
  BY <1>1 DEF IInv, Places, NotRevived
<1>4. Past'
  BY <1>1 DEF IInv, Past, TypeOK
<1>5. \A n \in Nat : n <= clock + MinDelay => n <= clock' + MinDelay
  <2>1. clock \in Nat /\ clock' \in Nat /\ clock <= clock'
    BY <1>1 DEF IInv, TypeOK
  <2>2. QED
    BY <2>1, LaterClock
<1>6. ZeroCovered'
  <2>1. alarm \in Nat \cup {Never}
    BY DEF IInv, TypeOK
  <2>2. QED
    BY <1>1, <1>5, <2>1 DEF IInv, ZeroCovered
<1>7. AlarmCovers'
  <2> SUFFICES ASSUME timerList_ # {}, ~handling, ~polled
               PROVE  /\ alarm # Never
                      /\ \A t \in timerList_ : alarm <= Later(expiration_[t], clock' + MinDelay)
    BY <1>1 DEF AlarmCovers
  <2>1. alarm # Never /\ \A t \in timerList_ : alarm <= Later(expiration_[t], clock + MinDelay)
    BY DEF IInv, AlarmCovers
  <2>2. alarm \in Nat \cup {Never} /\ clock \in Nat /\ clock' \in Nat
    BY <1>1 DEF IInv, TypeOK
  <2>3. \A t \in timerList_ : expiration_[t] \in Nat
    BY DEF IInv, TypeOK
  <2>4. clock <= clock'
    BY <1>1
  <2>5. QED
    BY <2>1, <2>2, <2>3, <2>4, LaterClock
<1>8. QED
  BY <1>2, <1>3, <1>4, <1>6, <1>7 DEF IInv

\* Every step keeps the inductive invariant.
LEMMA Inductive == IInv /\ [Next]_vars => IInv'
<1> SUFFICES ASSUME IInv, [Next]_vars PROVE IInv'
  OBVIOUS
<1>1. ASSUME NEW t \in Timers, HandleRead(t) PROVE IInv'
  BY <1>1, HandleReadStep
<1>2. ASSUME NEW t \in Timers, RunTimer(t) PROVE IInv'
  BY <1>2, RunTimerStep
<1>3. ASSUME NEW t \in Timers, CancelTimerHere(t) PROVE IInv'
  <2>1. Drops(0)
    <3>1. pending' = pending /\ pending \in Seq([op : {"add", "cancel"}, timer : Timers])
      BY <1>3 DEF CancelTimerHere, IInv, TypeOK
    <3>2. Len(pending) \in Nat
      BY <3>1, LenProperties
    <3>3. QED
      BY <3>1, <3>2 DEF Drops
  <2>2. QED
    BY <1>3, <2>1, CancelStep DEF CancelTimerHere, UserCode, Running
<1>4. ASSUME NEW t \in Timers, CancelTimer(t) PROVE IInv'
  <2> DEFINE f == [op |-> "cancel", timer |-> t]
  <2>1. /\ f \in [op : {"add", "cancel"}, timer : Timers] /\ f.op = "cancel" /\ f.timer = t
        /\ pending' = Append(pending, f) /\ ~aborted
    BY <1>4 DEF CancelTimer, Running
  <2>2. /\ created' = created \cup {t} /\ expiration_' \in [Timers -> Nat]
        /\ \A u \in created : expiration_'[u] = expiration_[u]
    BY <1>4 DEF CancelTimer, IInv, TypeOK, queueVars
  <2>3. UNCHANGED <<clock, timerList_, alarm, cancelingTimers_, cancelled, handlerVars, polled,
                    asserts, aborted>>
    BY <1>4 DEF CancelTimer, queueVars
  <2> HIDE DEF f
  <2>4. QED
    BY <2>1, <2>2, <2>3, QueueStep
<1>5. ASSUME NEW t \in Timers, NEW when \in Times, AddTimerHere(t, when) PROVE IInv'
  <2>1. pending' = pending /\ pending \in Seq([op : {"add", "cancel"}, timer : Timers])
    BY <1>5 DEF AddTimerHere, IInv, TypeOK
  <2>2. Len(pending) \in Nat
    BY <2>1, LenProperties
  <2>3. Drops(0)
    BY <2>1, <2>2 DEF Drops
  <2>4. t \notin created /\ created' = created \cup {t}
    BY <1>5 DEF AddTimerHere, NewTimer
  <2>5. NotQueued(t) /\ t \notin timerList_ \cup expired \cup done \cup cancelled
    BY <2>1, <2>4 DEF IInv, TypeOK, NotQueued
  <2>6. /\ expiration_' \in [Timers -> Nat]
        /\ \A u \in created \ {t} : expiration_'[u] = expiration_[u]
    BY <1>5 DEF AddTimerHere, NewTimer, IInv, TypeOK
  <2>7. /\ addTimerInLoop(t) /\ ~aborted
        /\ UNCHANGED <<clock, handlerVars, polled, asserts, aborted>>
    BY <1>5 DEF AddTimerHere, UserCode, Running
  <2>8. QED
    BY <2>3, <2>4, <2>5, <2>6, <2>7, AddStep
<1>6. ASSUME NEW t \in Timers, NEW when \in Times, AddTimer(t, when) PROVE IInv'
  <2> DEFINE f == [op |-> "add", timer |-> t]
  <2>1. /\ f \in [op : {"add", "cancel"}, timer : Timers] /\ f.timer = t
        /\ pending' = Append(pending, f) /\ ~aborted
    BY <1>6 DEF AddTimer, Running
  <2>2. /\ created' = created \cup {t} /\ t \notin created /\ expiration_' \in [Timers -> Nat]
        /\ \A u \in created : expiration_'[u] = expiration_[u]
    BY <1>6 DEF AddTimer, NewTimer, IInv, TypeOK
  <2>3. UNCHANGED <<clock, timerList_, alarm, cancelingTimers_, cancelled, handlerVars, polled,
                    asserts, aborted>>
    BY <1>6 DEF AddTimer
  <2> HIDE DEF f
  <2>4. QED
    BY <2>1, <2>2, <2>3, QueueStep
<1>7. CASE Reset
  BY <1>7, ResetStep
<1>8. CASE Poll \/ Tick
  BY <1>8, TimeStep
<1>9. CASE RunFunctor
  BY <1>9, RunFunctorStep
<1>10. CASE UNCHANGED vars
  <2>1. TypeOK' /\ Places' /\ Past'
    BY <1>10 DEF vars, queueVars, handlerVars, IInv, TypeOK, Places, Past
  <2>2. ZeroCovered' /\ AlarmCovers' /\ NotRevived'
    BY <1>10 DEF vars, queueVars, handlerVars, IInv, ZeroCovered, AlarmCovers, NotRevived
  <2>3. QED
    BY <2>1, <2>2, Zenon DEF IInv
<1>11. QED
  BY <1>1, <1>2, <1>3, <1>4, <1>5, <1>6, <1>7, <1>8, <1>9, <1>10 DEF Next

\* The inductive invariant holds throughout.
LEMMA Invariant == Spec => []IInv
  BY InitIInv, Inductive, PTL DEF Spec

\* Outside handleRead the timerfd is armed for the first listed timer
\* (TimerQueue.cc:52-65, 117-125, 187-192).
THEOREM AlarmAlwaysCovers == Spec => []AlarmCovers
<1>1. IInv => AlarmCovers
  BY DEF IInv
<1>2. QED
  BY <1>1, Invariant, PTL

\* A cancelled timer, and a one-shot timer that has run, do not come back
\* (TimerQueue.cc:127-140, 175-193).
THEOREM TimersStayGone == Spec => []NotRevived
<1>1. IInv => NotRevived
  BY DEF IInv
<1>2. QED
  BY <1>1, Invariant, PTL

\* insert's assertion never fails, and getExpired's fails only on a tie at now
\* (TimerQueue.cc:155, 166).
THEOREM OnlyTiesAbort == Spec => []AssertionsExplained
<1>1. IInv => AssertionsExplained
  BY DEF IInv, Places, Past, AssertionsExplained
<1>2. QED
  BY <1>1, Invariant, PTL

\* A timer's callback is never called before its expiration (TimerQueue.cc:52-65, 160-173).
THEOREM TimersNeverEarly == Spec => NeverEarly
<1>1. ASSUME IInv, [Next]_vars
      PROVE  [\A t \in toRun \ toRun' : expiration_[t] <= clock]_vars
  <2>1. \A t \in toRun : expiration_[t] <= clock
    <3> SUFFICES ASSUME NEW t \in toRun PROVE expiration_[t] <= clock
      OBVIOUS
    <3>1. expiration_[t] \in Nat /\ clock \in Nat /\ now \in Nat
      BY <1>1 DEF IInv, TypeOK
    <3>2. expiration_[t] <= now /\ now <= clock
      BY <1>1 DEF IInv, Past
    <3>3. QED
      BY <3>1, <3>2
  <2>2. QED
    BY <2>1
<1>2. QED
  BY <1>1, Invariant, PTL DEF Spec, NeverEarly
================================================================================
