------------------------------ MODULE TimerQueue ------------------------------
(***************************************************************************)
(* ham/net/TimerQueue.{h,cc}, Timer.{h,cc}: timers of an EventLoop, served *)
(* by one timerfd.  timerList_ is the set of timers in the std::set; a     *)
(* timer's key there is its expiration, which only changes (restart) while *)
(* it is out of the list.  addTimer and cancelTimer run in place on the    *)
(* loop's thread and are queued as functors from other threads.            *)
(*                                                                         *)
(* Time is discrete; MinDelay stands for the 100 microseconds of           *)
(* howMuchTimeFromNow.  Every timer is added at most once.                 *)
(***************************************************************************)
EXTENDS Integers, Sequences, FiniteSets

CONSTANTS Timers,
          Interval,    \* Interval[t]: its period; 0 if it does not repeat
          Times,       \* the expirations asked for
          MinDelay,
          MaxTime,     \* bound: the clock stops here
          MaxPending,  \* bound: functors waiting
          Builds,      \* TRUE: assertions abort (Debug); FALSE: compiled out (Release)
          Never        \* the timerfd is disarmed

ASSUME TimersAssumption == IsFiniteSet(Timers) /\ Interval \in [Timers -> Nat]
ASSUME TimeAssumption ==
    /\ Times \subseteq Nat /\ MinDelay \in Nat \ {0} /\ MaxTime \in Nat
    /\ MaxPending \in Nat /\ Builds \subseteq BOOLEAN /\ Never \notin Nat

VARIABLES clock,
          expiration_,       \* per timer
          timerList_,
          alarm,             \* when alarmFd_ becomes readable, or Never
          polled,            \* epoll has reported alarmFd_: handleRead is due
          handling,          \* handleRead is calling the expired timers
          now, expired,      \* its locals: the time it read, the timers it took
          toRun,             \* those of expired still to be run
          cancelingTimers_,
          pending,           \* the loop's functors
          created, cancelled, done,   \* history: timers made, cancelled while known, run
          asserts, aborted   \* the build; an assertion failed

queueVars == <<expiration_, timerList_, alarm, cancelingTimers_, cancelled>>
handlerVars == <<handling, now, expired, toRun, done>>
vars == <<clock, queueVars, handlerVars, polled, pending, created, asserts, aborted>>

Init ==
    /\ clock = 1
    /\ expiration_ = [t \in Timers |-> 0]
    /\ timerList_ = {} /\ alarm = Never /\ polled = FALSE
    /\ handling = FALSE /\ now = 0 /\ expired = {} /\ toRun = {}
    /\ cancelingTimers_ = {}
    /\ pending = << >>
    /\ created = {} /\ cancelled = {} /\ done = {}
    /\ asserts \in Builds /\ aborted = FALSE

Later(a, b) == IF a > b THEN a ELSE b

\* howMuchTimeFromNow and resetAlarmFd: armed for a relative time of at least
\* MinDelay.  timerfd_settime also forgets an expiry that was not read.
AlarmFor(when) == clock + Later(when - clock, MinDelay)

\* t is a first entry of the set of timers s, for expirations e.
IsEarliest(t, s, e) == t \in s /\ \A u \in s : e[t] <= e[u]

Running == ~aborted

--------------------------------------------------------------------------------
(* The operations that run on the loop's thread.                           *)

\* Seeded fault: the new earliest timer does not re-arm the alarm.
addTimerInLoop_NoRearm(t) ==
    /\ timerList_' = timerList_ \cup {t}
    /\ UNCHANGED <<alarm, cancelingTimers_, cancelled>>

\* addTimerInLoop and insert: re-arm when t becomes the earliest entry.
addTimerInLoop(t) ==
    /\ timerList_' = timerList_ \cup {t}
    /\ alarm' = IF \A u \in timerList_ : expiration_'[t] < expiration_'[u]
                THEN AlarmFor(expiration_'[t]) ELSE alarm
    /\ UNCHANGED <<cancelingTimers_, cancelled>>

\* Seeded fault: a timer that is being called is not remembered.
cancelTimerInLoop_ListedOnly(t) ==
    /\ timerList_' = timerList_ \ {t}
    /\ cancelled' = IF t \in timerList_ \cup expired THEN cancelled \cup {t} ELSE cancelled
    /\ UNCHANGED <<expiration_, alarm, cancelingTimers_>>

\* cancelTimerInLoop: out of the list, or remembered if it is being called now.
cancelTimerInLoop(t) ==
    /\ timerList_' = timerList_ \ {t}
    /\ cancelingTimers_' = IF t \notin timerList_ /\ handling
                           THEN cancelingTimers_ \cup {t} ELSE cancelingTimers_
    /\ cancelled' = IF t \in timerList_ \cup expired THEN cancelled \cup {t} ELSE cancelled
    /\ UNCHANGED <<expiration_, alarm>>

\* Seeded fault: a rounded-up now.
Overdue_TooSoon == {u \in timerList_ : expiration_[u] <= clock + 1}

\* The entries before now.
Overdue == {u \in timerList_ : expiration_[u] < clock}

\* Seeded fault: the expired entries are not erased from the list.
GetExpired_NoErase(t) ==
    LET at == {u \in timerList_ : expiration_[u] = clock}
    IN /\ at # {} => t \in at
       /\ expired' = Overdue \cup (at \cap {t})
       /\ toRun' = expired'
       /\ UNCHANGED <<timerList_, aborted>>

\* getExpired: the entries before now, and one of those at now exactly (the
\* one with the smallest pointer); the assertion wants no other left there.
GetExpired(t) ==
    LET at == {u \in timerList_ : expiration_[u] = clock}
    IN /\ at # {} => t \in at
       /\ expired' = Overdue \cup (at \cap {t})
       /\ toRun' = expired'
       /\ timerList_' = timerList_ \ expired'
       /\ aborted' = (asserts /\ Cardinality(at) > 1)

\* handleRead up to the loop over the expired timers; reading alarmFd_ clears it
\* if it had expired.
HandleRead(t) ==
    /\ Running /\ polled /\ ~handling
    /\ polled' = FALSE
    /\ now' = clock
    /\ alarm' = IF alarm # Never /\ alarm <= clock THEN Never ELSE alarm
    /\ GetExpired(t)
    /\ cancelingTimers_' = {}
    /\ handling' = TRUE
    /\ UNCHANGED <<clock, expiration_, cancelled, pending, created, done, asserts>>

RunTimer(t) ==
    /\ Running /\ handling
    /\ IsEarliest(t, toRun, expiration_)
    /\ toRun' = toRun \ {t}
    /\ done' = done \cup {t}
    /\ UNCHANGED <<clock, queueVars, polled, handling, now, expired, pending, created, asserts,
                   aborted>>

\* The timers reset restarts.
Again == {t \in expired : Interval[t] > 0 /\ t \notin cancelingTimers_}

\* A repeating timer's next expiration, counted from when handleRead began.
restart(t) == now + Interval[t]

\* The end of handleRead: reset re-inserts the repeating timers that were not
\* cancelled meanwhile and re-arms for the first entry, if its time is valid.
Reset ==
    /\ Running /\ handling /\ toRun = {}
    /\ expiration_' = [t \in Timers |-> IF t \in Again THEN restart(t) ELSE expiration_[t]]
    /\ timerList_' = timerList_ \cup Again
    /\ \/ \E t \in timerList_' : /\ IsEarliest(t, timerList_', expiration_')
                                 /\ expiration_'[t] > 0
                                 /\ alarm' = AlarmFor(expiration_'[t])
       \/ /\ timerList_' = {} \/ \E t \in timerList_' : expiration_'[t] = 0
          /\ UNCHANGED alarm
    /\ handling' = FALSE
    /\ expired' = {}
    /\ UNCHANGED <<clock, polled, now, toRun, cancelingTimers_, cancelled, done, pending, created,
                   asserts, aborted>>

Poll ==
    /\ Running /\ ~handling /\ ~polled
    /\ alarm # Never /\ alarm <= clock
    /\ polled' = TRUE
    /\ UNCHANGED <<clock, queueVars, handlerVars, pending, created, asserts, aborted>>

RunFunctor ==
    /\ Running /\ ~handling /\ ~polled /\ pending # << >>
    /\ pending' = Tail(pending)
    /\ \/ /\ Head(pending).op = "add" /\ UNCHANGED expiration_
          /\ addTimerInLoop(Head(pending).timer)
       \/ /\ Head(pending).op = "cancel"
          /\ cancelTimerInLoop(Head(pending).timer)
    /\ UNCHANGED <<clock, handlerVars, polled, created, asserts, aborted>>

--------------------------------------------------------------------------------
(* Users.  Code on the loop's thread is a timer's callback or another      *)
(* channel's; inside handleRead it runs only once a timer has been called. *)

UserCode == Running /\ (handling => toRun # expired)

\* make_shared<Timer>.
NewTimer(t, when) ==
    /\ t \notin created
    /\ created' = created \cup {t}
    /\ expiration_' = [expiration_ EXCEPT ![t] = when]

AddTimerHere(t, when) ==
    /\ UserCode
    /\ NewTimer(t, when)
    /\ addTimerInLoop(t)
    /\ UNCHANGED <<clock, handlerVars, polled, pending, asserts, aborted>>

CancelTimerHere(t) ==
    /\ UserCode /\ t \in created
    /\ cancelTimerInLoop(t)
    /\ UNCHANGED <<clock, handlerVars, polled, pending, created, asserts, aborted>>

AddTimer(t, when) ==
    /\ Running /\ Len(pending) < MaxPending
    /\ NewTimer(t, when)
    /\ pending' = Append(pending, [op |-> "add", timer |-> t])
    /\ UNCHANGED <<clock, timerList_, alarm, cancelingTimers_, cancelled, handlerVars, polled,
                   asserts, aborted>>

CancelTimer(t) ==
    /\ Running /\ t \in created /\ Len(pending) < MaxPending
    /\ pending' = Append(pending, [op |-> "cancel", timer |-> t])
    /\ UNCHANGED <<clock, queueVars, handlerVars, polled, created, asserts, aborted>>

Tick ==
    /\ Running /\ clock < MaxTime
    /\ clock' = clock + 1
    /\ UNCHANGED <<queueVars, handlerVars, polled, pending, created, asserts, aborted>>

Next ==
    \/ \E t \in Timers : HandleRead(t) \/ RunTimer(t) \/ CancelTimerHere(t) \/ CancelTimer(t)
    \/ \E t \in Timers, when \in Times : AddTimerHere(t, when) \/ AddTimer(t, when)
    \/ Reset \/ Poll \/ RunFunctor \/ Tick

Spec == Init /\ [][Next]_vars

--------------------------------------------------------------------------------
(* Properties.                                                             *)

\* The types; whatever is listed, being called or cancelled was made by addTimer.
TypeOK ==
    /\ clock \in Nat \ {0} /\ now \in Nat
    /\ expiration_ \in [Timers -> Nat]
    /\ timerList_ \subseteq created /\ expired \subseteq created /\ toRun \subseteq expired
    /\ created \subseteq Timers /\ cancelled \subseteq created /\ done \subseteq created
    /\ cancelingTimers_ \subseteq created
    /\ alarm \in Nat \cup {Never}
    /\ polled \in BOOLEAN /\ handling \in BOOLEAN
    /\ asserts \in BOOLEAN /\ aborted \in BOOLEAN
    /\ pending \in Seq([op : {"add", "cancel"}, timer : Timers])
    /\ \A i \in 1..Len(pending) : pending[i].timer \in created

\* No timer is forgotten: outside handleRead, while a timer is listed, alarmFd_ is
\* armed (or has fired) for no later than the first expiration, or than the
\* minimal delay from now; so neither cancelling the earliest timer, nor adding
\* timers from a callback, nor re-arming over an unread expiry
\* (TimerQueue.cc:52-65, 117-125, 187-192) leaves the list unserved.
AlarmCovers ==
    timerList_ # {} /\ ~handling /\ ~polled =>
        /\ alarm # Never
        /\ \A t \in timerList_ : alarm <= Later(expiration_[t], clock + MinDelay)

\* No timer runs before its time (getExpired, TimerQueue.cc:160-173).
NeverEarly == [][\A t \in toRun \ toRun' : expiration_[t] <= clock]_vars

\* No timer comes back: one that was cancelled while listed, or while its batch was being
\* called (by itself or by another callback), is not listed again; one that does not
\* repeat is not listed or due again once it has run (TimerQueue.cc:127-140, 179).
NotRevived ==
    /\ \A t \in cancelled : t \notin timerList_
    /\ \A t \in done : Interval[t] = 0 => t \notin timerList_ \cup toRun

\* insert's assertion that the timer is new to the list always holds (TimerQueue.cc:155):
\* it is not listed while it is being called, nor while its addTimerInLoop waits.
\* getExpired's, that nothing at or before now is left (TimerQueue.cc:166), fails only when
\* two timers expire in the very microsecond that is now.
AssertionsExplained ==
    /\ timerList_ \cap expired = {}
    /\ \A i \in 1..Len(pending) : pending[i].op = "add" => pending[i].timer \notin timerList_ \cup expired
    /\ aborted => asserts /\ \E t \in timerList_, u \in expired :
                               expiration_[t] = now /\ expiration_[u] = now
===============================================================================
