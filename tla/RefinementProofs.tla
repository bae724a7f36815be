-------------------------- MODULE RefinementProofs --------------------------
(***************************************************************************)
(* Proofs that two parts of ham/net keep the promises of their abstract    *)
(* specifications: an EventLoop is a SerialExecutor, for any sets of       *)
(* threads, channels and functors, and a Buffer is a ByteQueue, for every  *)
(* initial size, prepend area, extraBuf size, bound and alphabet.          *)
(***************************************************************************)
EXTENDS EventLoop, Buffer, SequenceTheorems, TLAPS

------------------------------------------------------------------------------
(* EventLoop.                                                               *)

\* The disjuncts of Next, for the case splits below.
LEMMA NextCases ==
    ASSUME Next
    PROVE  \/ \E t \in AllThreads, f \in Functors : queueInLoop(t, f)
           \/ \E f \in Functors : runInLoop(f)
           \/ \E t \in AllThreads : quit(t)
           \/ \E t \in AllThreads : wakeup(t)
           \/ EnterLoop
           \/ \E ready \in SUBSET Channels : Poll(ready)
           \/ TestQuit
           \/ handleWakeupFd
           \/ \E c \in Channels : handleEvent(c)
           \/ CallbackReturns
           \/ BeginPendingFunctors
           \/ SwapPendingFunctors
           \/ RunFunctor
           \/ FunctorReturns
           \/ EndPendingFunctors
BY DEF Next, LoopStep

\* Every step of the loop and of its callers keeps the types, and keeps
\* callingPendingFunctors_ up exactly during doPendingFunctors (EventLoop.cc:231-244).
LEMMA TypeStep ==
    ASSUME TypeOK, [Next]_vars
    PROVE  TypeOK'
<1> USE DEF TypeOK
<1>1. CASE \E t \in AllThreads, f \in Functors : queueInLoop(t, f)
  BY <1>1 DEF queueInLoop, CanCall
<1>2. CASE \E f \in Functors : runInLoop(f)
  BY <1>2 DEF runInLoop
<1>3. CASE \E t \in AllThreads : quit(t)
  BY <1>3 DEF quit
<1>4. CASE \E t \in AllThreads : wakeup(t)
  BY <1>4 DEF wakeup
<1>5. CASE EnterLoop
  BY <1>5 DEF EnterLoop, Goto
<1>6. CASE \E ready \in SUBSET Channels : Poll(ready)
  BY <1>6 DEF Poll, Goto
<1>7. CASE TestQuit
  BY <1>7 DEF TestQuit, Goto
<1>8. CASE handleWakeupFd
  BY <1>8 DEF handleWakeupFd, Goto
<1>9. CASE \E c \in Channels : handleEvent(c)
  BY <1>9 DEF handleEvent, Goto
<1>10. CASE CallbackReturns
  BY <1>10 DEF CallbackReturns, Goto
<1>11. CASE BeginPendingFunctors
  BY <1>11 DEF BeginPendingFunctors, Goto
<1>12. CASE SwapPendingFunctors
  BY <1>12 DEF SwapPendingFunctors, Goto
<1>13. CASE RunFunctor
  BY <1>13, HeadTailProperties DEF RunFunctor, Goto
<1>14. CASE FunctorReturns
  BY <1>14 DEF FunctorReturns, Goto
<1>15. CASE EndPendingFunctors
  BY <1>15, Zenon DEF EndPendingFunctors, Goto
<1>16. CASE UNCHANGED vars
  BY <1>16 DEF vars
<1> QED
  BY <1>1, <1>2, <1>3, <1>4, <1>5, <1>6, <1>7, <1>8, <1>9, <1>10, <1>11, <1>12, <1>13,
     <1>14, <1>15, <1>16, NextCases

\* The types hold initially.
LEMMA TypeInit == Init => TypeOK
<1> SUFFICES ASSUME Init PROVE TypeOK
  OBVIOUS
<1>1. << >> \in Seq(Functors)
  BY EmptySeq
<1>2. ~callingPendingFunctors_ /\ pc \notin {"swap", "next", "functor"}
  BY DEF Init
<1> QED
  BY <1>1, <1>2, Zenon DEF Init, TypeOK

\* TypeOK is an invariant of the loop.
THEOREM TypeCorrect == Spec => []TypeOK
BY TypeInit, TypeStep, PTL DEF Spec

--------------------------------------------------------------------------------
(* No lost wakeup.  In every phase but the three between the dispatch of   *)
(* events and the swap, where the swap is still to come, whatever is queued *)
(* has a wakeup on its way.                                                *)

Covered ==
    \A i \in 1..Len(pendingFunctors_) : pendingFunctors_[i] \notin early => WakeupComing

WakeupInv == pc \notin {"dispatch", "callback", "swap"} => Covered

\* A wakeup on its way stays so until the loop reads the eventfd.
LEMMA WakeupStays ==
    ASSUME TypeOK, WakeupComing, [Next]_vars, ~handleWakeupFd
    PROVE  WakeupComing'
<1> USE DEF TypeOK, WakeupComing
<1>1. CASE \E t \in AllThreads, f \in Functors : queueInLoop(t, f)
  BY <1>1 DEF queueInLoop, CanCall
<1>2. CASE \E t \in AllThreads : quit(t)
  BY <1>2 DEF quit, CanCall
<1>3. CASE \E t \in AllThreads : wakeup(t)
  BY <1>3 DEF wakeup
<1>4. CASE UNCHANGED <<wakeupFd, call>>
  BY <1>4
<1> QED
  BY <1>1, <1>2, <1>3, <1>4, NextCases, Zenon DEF vars, runInLoop, EnterLoop, Poll, TestQuit,
     handleEvent, CallbackReturns, BeginPendingFunctors, SwapPendingFunctors, RunFunctor,
     FunctorReturns, EndPendingFunctors

\* A functor pushed by queueInLoop outside those phases is early or has its caller
\* about to write the eventfd: the condition at EventLoop.cc:204 is enough.
LEMMA PushCovered ==
    ASSUME TypeOK, pc \notin {"dispatch", "callback", "swap"}, Covered,
           NEW t \in AllThreads, NEW f \in Functors, queueInLoop(t, f)
    PROVE  Covered'
<1>1. CASE call'[t] = "wakeup"
  BY <1>1 DEF Covered, WakeupComing, TypeOK
<1>2. CASE call'[t] # "wakeup"
  <2>1. t = LoopThread /\ ~callingPendingFunctors_
    BY <1>2 DEF queueInLoop, MustWakeup, TypeOK
  <2>2. early' = early \cup {f}
    BY <2>1 DEF queueInLoop, CanCall, TypeOK
  <2>3. pendingFunctors_' = Append(pendingFunctors_, f) /\ UNCHANGED wakeupFd
    BY DEF queueInLoop
  <2>4. WakeupComing => WakeupComing'
    BY WakeupStays, Zenon DEF Next, queueInLoop, handleWakeupFd, Goto, CanCall
  <2> QED
    BY <2>2, <2>3, <2>4 DEF Covered, TypeOK
<1> QED
  BY <1>1, <1>2

\* WakeupInv is preserved by every step.
LEMMA WakeupStep ==
    ASSUME TypeOK, WakeupInv, [Next]_vars
    PROVE  WakeupInv'
<1> SUFFICES ASSUME pc' \notin {"dispatch", "callback", "swap"} PROVE Covered'
  BY DEF WakeupInv
<1>1. CASE \E t \in AllThreads, f \in Functors : queueInLoop(t, f)
  <2>1. UNCHANGED pc
    BY <1>1 DEF queueInLoop
  <2> QED
    BY <1>1, <2>1, PushCovered DEF WakeupInv
<1>2. CASE SwapPendingFunctors
  BY <1>2 DEF SwapPendingFunctors, Covered
<1>3. CASE UNCHANGED <<pendingFunctors_, early>> /\ Covered /\ ~handleWakeupFd
  BY <1>3, WakeupStays DEF Covered
<1>4. ~handleWakeupFd
  BY DEF handleWakeupFd, Goto
<1>5. CASE UNCHANGED <<pendingFunctors_, early>> /\ ~SwapPendingFunctors
  <2>1. pc \notin {"dispatch", "callback", "swap"}
    BY <1>5, NextCases, Zenon DEF vars, runInLoop, quit, wakeup, EnterLoop, TestQuit, Poll, handleEvent,
       handleWakeupFd, CallbackReturns, BeginPendingFunctors, RunFunctor, FunctorReturns,
       EndPendingFunctors, queueInLoop, Goto, TypeOK
  <2> QED
    BY <1>3, <1>4, <1>5, <2>1 DEF WakeupInv
<1> QED
  BY <1>1, <1>2, <1>5, NextCases, Zenon DEF vars, runInLoop, quit, wakeup, EnterLoop, TestQuit, Poll,
     handleEvent, handleWakeupFd, CallbackReturns, BeginPendingFunctors, RunFunctor,
     FunctorReturns, EndPendingFunctors

\* The loop never waits in epoll_wait over a queued functor, other than one queued
\* from its own thread outside loop(), without a wakeup coming (EventLoop.cc:198-220).
THEOREM NoLostWakeupHolds == Spec => []NoLostWakeup
<1>1. Init => WakeupInv
  BY DEF Init, WakeupInv, Covered
<1>2. TypeOK /\ WakeupInv /\ [Next]_vars => WakeupInv'
  BY WakeupStep
<1>3. WakeupInv => NoLostWakeup
  BY DEF WakeupInv, Covered, NoLostWakeup
<1> QED
  BY <1>1, <1>2, <1>3, TypeCorrect, PTL DEF Spec

\* The loop never waits in epoll_wait with quit_ set without a wakeup coming, however
\* quit() falls between the test of quit_ and the wait (EventLoop.cc:105-128).
THEOREM QuitNoticedHolds == Spec => []QuitNoticed
<1>1. Init => QuitNoticed
  BY DEF Init, QuitNoticed
<1>2. TypeOK /\ QuitNoticed /\ [Next]_vars => QuitNoticed'
  <2> SUFFICES ASSUME TypeOK, QuitNoticed, [Next]_vars, pc' = "wait", quit_'
               PROVE  WakeupComing'
    BY DEF QuitNoticed
  <2>1. CASE \E t \in AllThreads : quit(t)
    BY <2>1 DEF quit, QuitWakeup, CanCall, WakeupComing, TypeOK
  <2>2. CASE pc = "wait" /\ quit_
    <3>1. ~handleWakeupFd
      BY <2>2 DEF handleWakeupFd, Goto
    <3> QED
      BY <2>2, <3>1, WakeupStays DEF QuitNoticed
  <2>3. CASE ~(\E t \in AllThreads : quit(t)) /\ ~(pc = "wait" /\ quit_)
    <3>1. UNCHANGED quit_
      BY <2>3, NextCases, Zenon DEF vars, queueInLoop, runInLoop, wakeup, EnterLoop, TestQuit, Poll,
         handleEvent, handleWakeupFd, CallbackReturns, BeginPendingFunctors,
         SwapPendingFunctors, RunFunctor, FunctorReturns, EndPendingFunctors
    <3>2. pc # "wait" /\ ~TestQuit
      BY <2>3, <3>1, Zenon DEF TestQuit, Goto
    <3> QED
      BY <2>3, <3>2, NextCases, Zenon DEF vars, queueInLoop, runInLoop, wakeup, EnterLoop, Poll,
         handleEvent, handleWakeupFd, CallbackReturns, BeginPendingFunctors,
         SwapPendingFunctors, RunFunctor, FunctorReturns, EndPendingFunctors, Goto
  <2> QED
    BY <2>1, <2>2, <2>3
<1> QED
  BY <1>1, <1>2, TypeCorrect, PTL DEF Spec

--------------------------------------------------------------------------------
(* The loop implements a serial executor.                                  *)

\* Every step of the loop and of its callers is a step of the executor, or leaves
\* its queue and its history alone.
LEMMA ExecutorStep ==
    ASSUME TypeOK, [Next]_vars
    PROVE  [Executor!Next]_<<functors \o pendingFunctors_, executed>>
<1> DEFINE queue == functors \o pendingFunctors_
<1>1. functors \in Seq(Functors) /\ pendingFunctors_ \in Seq(Functors)
  BY DEF TypeOK
<1>2. CASE \E t \in AllThreads, f \in Functors : queueInLoop(t, f)
  <2>1. PICK t \in AllThreads, f \in Functors : queueInLoop(t, f)
    BY <1>2
  <2>2. UNCHANGED <<functors, executed>> /\ pendingFunctors_' = Append(pendingFunctors_, f)
    BY <2>1 DEF queueInLoop
  <2>3. functors \o Append(pendingFunctors_, f) = Append(functors \o pendingFunctors_, f)
    BY <1>1
  <2>4. Executor!Submit(f)
    BY <2>2, <2>3 DEF Executor!Submit
  <2> QED
    BY <2>4 DEF Executor!Next
<1>3. CASE \E f \in Functors : runInLoop(f)
  BY <1>3 DEF runInLoop, Executor!Next, Executor!RunNow
<1>4. CASE SwapPendingFunctors
  <2>1. functors = << >>
    BY <1>4 DEF SwapPendingFunctors, Goto, TypeOK
  <2>2. << >> \o pendingFunctors_ = pendingFunctors_ \o << >>
    BY <1>1, ConcatEmptySeq
  <2> QED
    BY <1>4, <2>1, <2>2 DEF SwapPendingFunctors
<1>5. CASE RunFunctor
  <2>1. functors # << >>
    BY <1>5 DEF RunFunctor
  <2>2. queue # << >> /\ Head(queue) = Head(functors) /\ Tail(queue) = Tail(functors) \o pendingFunctors_
    BY <1>1, <2>1
  <2>3. Executor!RunOldest
    BY <1>5, <2>2 DEF RunFunctor, Executor!RunOldest
  <2> QED
    BY <2>3 DEF Executor!Next
<1>6. CASE UNCHANGED <<functors, pendingFunctors_, executed>>
  BY <1>6
<1> QED
  BY <1>2, <1>3, <1>4, <1>5, <1>6, NextCases, Zenon DEF vars, quit, wakeup, EnterLoop, TestQuit, Poll,
     handleEvent, handleWakeupFd, CallbackReturns, BeginPendingFunctors, FunctorReturns,
     EndPendingFunctors

\* EventLoop implements SerialExecutor: functors handed over are run once each, in
\* the order they were handed over, and only the loop's own thread can jump the queue
\* (EventLoop.cc:164-174, 198-210, 231-244).
THEOREM ExecutorImplemented == Spec => ImplementsExecutor
<1>1. Init => Executor!Init
  BY ConcatEmptySeq, EmptySeq DEF Init, Executor!Init
<1>2. TypeOK /\ [Next]_vars => [Executor!Next]_<<functors \o pendingFunctors_, executed>>
  BY ExecutorStep
<1> QED
  BY <1>1, <1>2, TypeCorrect, PTL DEF Spec, ImplementsExecutor, Executor!Spec

--------------------------------------------------------------------------------
(* Each functor is in exactly one place.                                   *)

Elements(s) == {s[i] : i \in 1..Len(s)}
Distinct(s) == \A i, j \in 1..Len(s) : s[i] = s[j] => i = j
Regrouped(s, t, u) == (s \o t) \o u = s \o (t \o u)

\* Concatenation is associative.
LEMMA Regroup ==
    ASSUME NEW S, NEW s \in Seq(S), NEW t \in Seq(S), NEW u \in Seq(S)
    PROVE  Regrouped(s, t, u)
BY ConcatAssociative DEF Regrouped

\* A new element put anywhere in a sequence of distinct elements keeps them distinct.
LEMMA InsertDistinct ==
    ASSUME NEW S, NEW a \in Seq(S), NEW b \in Seq(S), NEW f \in S,
           f \notin Elements(a \o b), Distinct(a \o b)
    PROVE  /\ Distinct(Append(a, f) \o b)
           /\ Elements(Append(a, f) \o b) = Elements(a \o b) \cup {f}
<1> DEFINE old == a \o b
           new == Append(a, f) \o b
           Old(i) == IF i <= Len(a) THEN i ELSE i - 1
<1>1. old \in Seq(S) /\ new \in Seq(S) /\ Len(old) = Len(a) + Len(b) /\ Len(new) = Len(old) + 1
  OBVIOUS
<1>2. Len(a) \in Nat /\ Len(b) \in Nat
  OBVIOUS
<1>3. new[Len(a) + 1] = f
  OBVIOUS
<1>4. ASSUME NEW i \in 1..Len(new), i # Len(a) + 1
      PROVE  Old(i) \in 1..Len(old) /\ new[i] = old[Old(i)]
  BY <1>1, <1>2, <1>4
<1>5. ASSUME NEW i \in 1..Len(old)
      PROVE  \E k \in 1..Len(new) : k # Len(a) + 1 /\ Old(k) = i /\ new[k] = old[i]
  <2>1. CASE i <= Len(a)
    BY <1>1, <1>2, <1>4, <1>5, <2>1
  <2>2. CASE i > Len(a)
    <3>1. i + 1 \in 1..Len(new) /\ i + 1 # Len(a) + 1 /\ Old(i + 1) = i
      BY <1>1, <1>2, <1>5, <2>2
    <3> QED
      BY <1>4, <3>1, Zenon
  <2> QED
    BY <1>2, <1>5, <2>1, <2>2
<1>6. \A i \in 1..Len(old) : old[i] # f
  BY DEF Elements
<1> HIDE DEF old, new
<1>7. Distinct(new)
  <2> SUFFICES ASSUME NEW i \in 1..Len(new), NEW j \in 1..Len(new), new[i] = new[j] PROVE i = j
    BY DEF Distinct
  <2>1. Distinct(old)
    BY DEF old
  <2>2. CASE i = Len(a) + 1 \/ j = Len(a) + 1
    BY <1>3, <1>4, <1>6, <2>2
  <2>3. CASE i # Len(a) + 1 /\ j # Len(a) + 1
    <3>1. Old(i) \in 1..Len(old) /\ Old(j) \in 1..Len(old) /\ old[Old(i)] = old[Old(j)]
      BY <1>4, <2>3
    <3>2. Old(i) = Old(j)
      BY <2>1, <3>1 DEF Distinct
    <3> QED
      BY <1>1, <1>2, <2>3, <3>2
  <2> QED
    BY <2>2, <2>3
<1>8. Elements(new) = Elements(old) \cup {f}
  <2>1. Len(a) + 1 \in 1..Len(new)
    BY <1>1, <1>2
  <2>2. ASSUME NEW x PROVE x \in Elements(new) => x \in Elements(old) \cup {f}
    BY <1>3, <1>4 DEF Elements
  <2>3. ASSUME NEW x PROVE x \in Elements(old) \cup {f} => x \in Elements(new)
    BY <1>3, <1>5, <2>1 DEF Elements
  <2> QED
    BY <2>2, <2>3
<1> QED
  BY <1>7, <1>8 DEF old, new

\* The same for a new element at the end.
LEMMA AppendDistinct ==
    ASSUME NEW S, NEW a \in Seq(S), NEW f \in S, f \notin Elements(a), Distinct(a)
    PROVE  Distinct(Append(a, f)) /\ Elements(Append(a, f)) = Elements(a) \cup {f}
<1> DEFINE new == Append(a, f)
<1>1. /\ Len(a) \in Nat /\ Len(new) = Len(a) + 1 /\ new[Len(a) + 1] = f
      /\ \A i \in 1..Len(a) : new[i] = a[i]
  BY AppendProperties
<1>2. \A i \in 1..Len(a) : a[i] # f
  BY DEF Elements
<1> HIDE DEF new
<1>3. \A i \in 1..Len(new) : i \in 1..Len(a) \/ i = Len(a) + 1
  BY <1>1
<1>4. 1..Len(a) \subseteq 1..Len(new) /\ Len(a) + 1 \in 1..Len(new)
  BY <1>1
<1>5. Distinct(new)
  <2> SUFFICES ASSUME NEW i \in 1..Len(new), NEW j \in 1..Len(new), new[i] = new[j] PROVE i = j
    BY DEF Distinct
  <2>1. CASE i = Len(a) + 1 \/ j = Len(a) + 1
    BY <1>1, <1>2, <1>3, <2>1
  <2>2. CASE i \in 1..Len(a) /\ j \in 1..Len(a)
    BY <1>1, <2>2 DEF Distinct
  <2> QED
    BY <1>3, <2>1, <2>2
<1>6. Elements(new) = Elements(a) \cup {f}
  <2>1. ASSUME NEW x PROVE x \in Elements(new) => x \in Elements(a) \cup {f}
    BY <1>1, <1>3 DEF Elements
  <2>2. ASSUME NEW x PROVE x \in Elements(a) \cup {f} => x \in Elements(new)
    BY <1>1, <1>4 DEF Elements
  <2> QED
    BY <2>1, <2>2
<1> QED
  BY <1>5, <1>6 DEF new

\* A functor handed over is, at every moment, queued, taken or started, and only one
\* of these: none is lost or run twice (EventLoop.cc:198-210, 231-244).
THEOREM ExactlyOnePlaceHolds == Spec => []ExactlyOnePlace
<1> DEFINE all == executed \o functors \o pendingFunctors_
<1>0. ExactlyOnePlace <=> submitted = Elements(all) /\ Distinct(all)
  BY DEF ExactlyOnePlace, Elements, Distinct
<1>1. Init => ExactlyOnePlace
  BY DEF Init, ExactlyOnePlace
<1>2. TypeOK /\ ExactlyOnePlace /\ [Next]_vars => ExactlyOnePlace'
  <2> SUFFICES ASSUME TypeOK, ExactlyOnePlace, [Next]_vars PROVE ExactlyOnePlace'
    OBVIOUS
  <2>1. executed \in Seq(Functors) /\ functors \in Seq(Functors) /\ pendingFunctors_ \in Seq(Functors)
    BY DEF TypeOK
  <2>2. ExactlyOnePlace' <=> submitted' = Elements(all') /\ Distinct(all')
    BY DEF ExactlyOnePlace, Elements, Distinct
  <2>3. CASE UNCHANGED submitted /\ all' = all
    BY <1>0, <2>2, <2>3 DEF Elements, Distinct
  <2>4. CASE \E t \in AllThreads, f \in Functors : queueInLoop(t, f)
    <3>1. PICK f \in Functors : /\ f \notin submitted /\ submitted' = submitted \cup {f}
                                /\ pendingFunctors_' = Append(pendingFunctors_, f)
                                /\ UNCHANGED <<executed, functors>>
      BY <2>4 DEF queueInLoop
    <3>2. all \in Seq(Functors) /\ all' = Append(all, f)
      BY <2>1, <3>1
    <3> HIDE DEF all
    <3>3. Distinct(Append(all, f)) /\ Elements(Append(all, f)) = Elements(all) \cup {f}
      BY <1>0, <3>1, <3>2, AppendDistinct
    <3> QED
      BY <1>0, <2>2, <3>1, <3>2, <3>3
  <2>5. CASE \E f \in Functors : runInLoop(f)
    <3> DEFINE queue == functors \o pendingFunctors_
    <3>1. PICK f \in Functors : /\ f \notin submitted /\ submitted' = submitted \cup {f}
                                /\ executed' = Append(executed, f)
                                /\ UNCHANGED <<functors, pendingFunctors_>>
      BY <2>5 DEF runInLoop
    <3>2. queue \in Seq(Functors) /\ all = executed \o queue
      <4>1. queue \in Seq(Functors)
        BY <2>1, ConcatProperties
      <4>2. all = executed \o queue
        <5>1. Regrouped(executed, functors, pendingFunctors_)
          BY <2>1, Regroup, Zenon
        <5> QED
          BY <5>1, Zenon DEF Regrouped
      <4> QED
        BY <4>1, <4>2
    <3>3. all' = Append(executed, f) \o queue
      <4>1. Append(executed, f) \in Seq(Functors)
        BY <2>1
      <4>2. Regrouped(Append(executed, f), functors, pendingFunctors_)
        BY <2>1, <4>1, Regroup, Zenon
      <4> QED
        BY <3>1, <4>2, Zenon DEF Regrouped
    <3>4. f \notin Elements(executed \o queue) /\ Distinct(executed \o queue)
      BY <1>0, <3>1, <3>2
    <3> HIDE DEF all, queue
    <3>5. /\ Distinct(Append(executed, f) \o queue)
          /\ Elements(Append(executed, f) \o queue) = Elements(executed \o queue) \cup {f}
      BY <2>1, <3>2, <3>4, InsertDistinct
    <3> QED
      BY <1>0, <2>2, <3>1, <3>2, <3>3, <3>5
  <2>6. CASE SwapPendingFunctors
    <3>1. functors = << >> /\ functors' = pendingFunctors_ /\ pendingFunctors_' = << >>
      BY <2>6 DEF SwapPendingFunctors, Goto, TypeOK
    <3>2. all' = all /\ UNCHANGED submitted
      BY <2>1, <2>6, <3>1 DEF SwapPendingFunctors
    <3> QED
      BY <2>3, <3>2
  <2>7. CASE RunFunctor
    <3>1. Append(executed, Head(functors)) \o Tail(functors) = executed \o functors
      BY <2>1, <2>7 DEF RunFunctor
    <3>2. all' = all /\ UNCHANGED submitted
      BY <2>7, <3>1 DEF RunFunctor
    <3> QED
      BY <2>3, <3>2
  <2>8. CASE UNCHANGED <<executed, functors, pendingFunctors_, submitted>>
    BY <2>3, <2>8
  <2> QED
    BY <2>4, <2>5, <2>6, <2>7, <2>8, NextCases, Zenon DEF vars, quit, wakeup, EnterLoop, TestQuit, Poll,
       handleEvent, handleWakeupFd, CallbackReturns, BeginPendingFunctors, FunctorReturns,
       EndPendingFunctors
<1> QED
  BY <1>1, <1>2, TypeCorrect, PTL DEF Spec

------------------------------------------------------------------------------
(* Buffer.                                                                  *)

Cells == Bytes \cup {Zero}

\* The vector data with indices r and w holds the string q.
Holds(data, r, w, q) ==
    /\ data \in Seq(Cells) /\ r \in Nat /\ w \in Nat
    /\ r <= w /\ w <= Len(data) /\ kCheapPrepend <= w
    /\ q \in Seq(Bytes) /\ Len(q) = w - r
    /\ \A i \in 1..Len(q) : data[r + i] = q[i]

\* A buffer is a vector that holds its readable bytes.
LEMMA BufferHolds ==
    ASSUME NEW b, IsBuffer(b)
    PROVE  Holds(b.data, b.r, b.w, Readable(b)) /\ b = [data |-> b.data, r |-> b.r, w |-> b.w]
<1>1. /\ b.data \in Seq(Cells) /\ Len(b.data) \in Nat /\ b.r \in Nat /\ b.w \in Nat
      /\ b.r <= b.w /\ b.w <= Len(b.data) /\ kCheapPrepend <= b.w
      /\ b = [data |-> b.data, r |-> b.r, w |-> b.w]
      /\ Readable(b) \in Seq(Bytes)
  BY DEF IsBuffer, Cells
<1>2. Readable(b) = [i \in 1..(b.w - b.r) |-> b.data[b.r + i]]
  BY DEF Readable, readableBytes
<1>3. Len(Readable(b)) = b.w - b.r
  BY <1>1, <1>2
<1> QED
  BY <1>1, <1>2, <1>3 DEF Holds

\* Conversely, a vector that holds a string makes a buffer with that string.
LEMMA HoldsBuffer ==
    ASSUME NEW data, NEW r, NEW w, NEW q, Holds(data, r, w, q)
    PROVE  /\ IsBuffer([data |-> data, r |-> r, w |-> w])
           /\ Readable([data |-> data, r |-> r, w |-> w]) = q
<1> DEFINE b == [data |-> data, r |-> r, w |-> w]
<1>1. Readable(b) = [i \in 1..(w - r) |-> data[r + i]]
  BY DEF Readable, readableBytes
<1>2. q = [i \in 1..(w - r) |-> q[i]]
  BY DEF Holds
<1>3. [i \in 1..(w - r) |-> data[r + i]] = [i \in 1..(w - r) |-> q[i]]
  BY DEF Holds
<1>4. Readable(b) = q
  BY <1>1, <1>2, <1>3, Zenon
<1>5. b \in [data : Seq(Cells), r : Nat, w : Nat]
  BY DEF Holds
<1> QED
  BY <1>4, <1>5 DEF IsBuffer, Cells, Holds

\* writableBytes is what the vector has past writeIndex_ (Buffer.h's accessors).
LEMMA WritableOf ==
    ASSUME NEW data, NEW r, NEW w
    PROVE  writableBytes([data |-> data, r |-> r, w |-> w]) = Len(data) - w
BY DEF writableBytes

--------------------------------------------------------------------------------
(* The vector operations.                                                  *)

\* resize keeps what the vector holds.
LEMMA ResizeHolds ==
    ASSUME NEW data, NEW r, NEW w, NEW q, Holds(data, r, w, q), NEW n \in Nat, Len(data) <= n
    PROVE  Len(Resize(data, n)) = n /\ Holds(Resize(data, n), r, w, q)
<1> DEFINE new == Resize(data, n)
<1>1. Len(data) \in Nat /\ \A i \in 1..Len(data) : data[i] \in Cells
  BY DEF Holds
<1>2. new = [i \in 1..n |-> IF i <= Len(data) THEN data[i] ELSE Zero]
  BY DEF Resize
<1>3. \A i \in 1..n : new[i] \in Cells
  BY <1>1, <1>2 DEF Cells
<1>4. new \in Seq(Cells) /\ Len(new) = n
  BY <1>2, <1>3
<1>5. \A i \in 1..Len(data) : new[i] = data[i]
  BY <1>1, <1>2
<1> HIDE DEF new
<1>6. Holds(new, r, w, q)
  BY <1>1, <1>4, <1>5 DEF Holds
<1> QED
  BY <1>4, <1>6, Zenon DEF new

\* std::copy of d to index `at', inside the vector.
LEMMA CopyFacts ==
    ASSUME NEW data \in Seq(Cells), NEW at \in Nat, NEW d \in Seq(Bytes), at + Len(d) <= Len(data)
    PROVE  /\ Copy(data, at, d) \in Seq(Cells) /\ Len(Copy(data, at, d)) = Len(data)
           /\ \A i \in 1..Len(d) : Copy(data, at, d)[at + i] = d[i]
           /\ \A i \in 1..Len(data) : i <= at \/ i > at + Len(d) => Copy(data, at, d)[i] = data[i]
<1> DEFINE new == Copy(data, at, d)
<1>1. new = [i \in 1..Len(data) |-> IF at < i /\ i <= at + Len(d) THEN d[i - at] ELSE data[i]]
  BY DEF Copy
<1>2. Len(data) \in Nat /\ Len(d) \in Nat
  OBVIOUS
<1>3. \A i \in 1..Len(data) : new[i] \in Cells
  BY <1>1, <1>2 DEF Cells
<1>4. new \in Seq(Cells) /\ Len(new) = Len(data)
  BY <1>1, <1>2, <1>3
<1>5. \A i \in 1..Len(d) : new[at + i] = d[i]
  BY <1>1, <1>2
<1>6. \A i \in 1..Len(data) : i <= at \/ i > at + Len(d) => new[i] = data[i]
  BY <1>1, <1>2
<1> QED
  BY <1>4, <1>5, <1>6

--------------------------------------------------------------------------------
(* The member functions.                                                   *)

\* The constructor makes an empty buffer.
LEMMA NewBufferOK == IsBuffer(NewBuffer) /\ Readable(NewBuffer) = << >>
<1> DEFINE data == [i \in 1..(kInitialSize + kCheapPrepend) |-> Zero]
<1>1. data \in Seq(Cells) /\ Len(data) = kInitialSize + kCheapPrepend
  BY SizeAssumption DEF Cells
<1>2. << >> \in Seq(Bytes) /\ Len(<< >>) = 0
  BY EmptySeq
<1> HIDE DEF data
<1>3. Holds(data, kCheapPrepend, kCheapPrepend, << >>)
  BY <1>1, <1>2, SizeAssumption DEF Holds
<1> QED
  BY <1>3, HoldsBuffer, Zenon DEF NewBuffer, data

\* retrieve takes len bytes off the front, and resets the indices when none is left.
LEMMA RetrieveOK ==
    ASSUME NEW b, IsBuffer(b), NEW len \in Nat, len <= readableBytes(b)
    PROVE  /\ IsBuffer(retrieve(b, len))
           /\ Readable(retrieve(b, len)) = SubSeq(Readable(b), len + 1, Len(Readable(b)))
<1> DEFINE rest(q) == SubSeq(q, len + 1, Len(q))
<1>1. ASSUME NEW data, NEW r, NEW w, NEW q, Holds(data, r, w, q), len < w - r
      PROVE  Holds(data, r + len, w, rest(q))
  <2>1. /\ rest(q) \in Seq(Bytes) /\ Len(rest(q)) = Len(q) - len
        /\ \A i \in 1..(Len(q) - len) : rest(q)[i] = q[len + i]
    BY <1>1 DEF Holds
  <2> HIDE DEF rest
  <2> QED
    BY <1>1, <2>1 DEF Holds
<1>2. ASSUME NEW data, NEW r, NEW w, NEW q, Holds(data, r, w, q), len = w - r
      PROVE  Holds(data, kCheapPrepend, kCheapPrepend, rest(q))
  <2>1. rest(q) \in Seq(Bytes) /\ Len(rest(q)) = 0
    BY <1>2 DEF Holds
  <2> HIDE DEF rest
  <2> QED
    BY <1>2, <2>1, SizeAssumption DEF Holds
<1>3. Holds(b.data, b.r, b.w, Readable(b)) /\ b = [data |-> b.data, r |-> b.r, w |-> b.w]
  BY BufferHolds
<1>4. b.r \in Nat /\ b.w \in Nat
  BY <1>3 DEF Holds
<1> HIDE DEF rest
<1>5. CASE len < b.w - b.r
  <2>1. retrieve(b, len) = [data |-> b.data, r |-> b.r + len, w |-> b.w]
    BY <1>3, <1>5 DEF retrieve, readableBytes
  <2>2. Holds(b.data, b.r + len, b.w, rest(Readable(b)))
    BY <1>1, <1>3, <1>5
  <2> QED
    BY <2>1, <2>2, HoldsBuffer, Zenon DEF rest
<1>6. CASE len = b.w - b.r
  <2>1. retrieve(b, len) = [data |-> b.data, r |-> kCheapPrepend, w |-> kCheapPrepend]
    <3>1. ~(len < readableBytes(b))
      BY <1>4, <1>6 DEF readableBytes
    <3>2. retrieve(b, len) = [b EXCEPT !.r = kCheapPrepend, !.w = kCheapPrepend]
      BY <3>1 DEF retrieve, retrieveAll
    <3> QED
      BY <1>3, <3>2, Zenon
  <2>2. Holds(b.data, kCheapPrepend, kCheapPrepend, rest(Readable(b)))
    BY <1>2, <1>3, <1>6
  <2> QED
    BY <2>1, <2>2, HoldsBuffer, Zenon DEF rest
<1> QED
  BY <1>4, <1>5, <1>6 DEF readableBytes

\* The arithmetic of makeSpace's move: in a vector of the given size there is room for
\* len bytes behind the w - r readable ones once they start at k.
LEMMA MoveArithmetic ==
    ASSUME NEW size \in Nat, NEW r \in Nat, NEW w \in Nat, NEW k \in Nat, NEW len \in Nat,
           r <= w, w <= size, size - w < len, size - w + r >= len + k
    PROVE  k < r /\ k + (w - r) <= size /\ w - r \in Nat /\ size - (k + (w - r)) >= len
OBVIOUS

\* makeSpace keeps the bytes and makes the room, whether it grows the vector or moves
\* the bytes to the left; it moves them only when the target does not overlap the
\* source from the right.
LEMMA MakeSpaceOK ==
    ASSUME NEW b, IsBuffer(b), NEW len \in Nat, writableBytes(b) < len
    PROVE  /\ IsBuffer(makeSpace(b, len)) /\ Readable(makeSpace(b, len)) = Readable(b)
           /\ writableBytes(makeSpace(b, len)) >= len
           /\ ~MustGrow(b, len) => kCheapPrepend < b.r
<1>1. Holds(b.data, b.r, b.w, Readable(b)) /\ b = [data |-> b.data, r |-> b.r, w |-> b.w]
  BY BufferHolds
<1>2. /\ b.r \in Nat /\ b.w \in Nat /\ Len(b.data) \in Nat /\ b.r <= b.w /\ b.w <= Len(b.data)
      /\ Len(Readable(b)) = b.w - b.r /\ b.data \in Seq(Cells) /\ Readable(b) \in Seq(Bytes)
  BY <1>1 DEF Holds
<1>3. Len(b.data) - b.w < len
  BY DEF writableBytes
<1>4. CASE MustGrow(b, len)
  <2>1. makeSpace(b, len) = [data |-> Resize(b.data, b.w + len), r |-> b.r, w |-> b.w]
    BY <1>1, <1>4 DEF makeSpace
  <2>2. b.w + len \in Nat /\ Len(b.data) <= b.w + len
    BY <1>2, <1>3
  <2>3. Len(Resize(b.data, b.w + len)) = b.w + len /\ Holds(Resize(b.data, b.w + len), b.r, b.w, Readable(b))
    BY <1>1, <2>2, ResizeHolds
  <2>4. writableBytes(makeSpace(b, len)) = Len(Resize(b.data, b.w + len)) - b.w
    BY <2>1, WritableOf
  <2>5. writableBytes(makeSpace(b, len)) >= len
    BY <1>2, <2>3, <2>4
  <2> QED
    BY <1>4, <2>1, <2>3, <2>5, HoldsBuffer
<1>5. CASE ~MustGrow(b, len)
  <2> DEFINE n == b.w - b.r
             new == Copy(b.data, kCheapPrepend, Readable(b))
  <2>0. kCheapPrepend \in Nat
    BY SizeAssumption
  <2>1. Len(b.data) - b.w + b.r >= len + kCheapPrepend
    BY <1>2, <1>5, <2>0 DEF MustGrow, writableBytes, prependableBytes
  <2>2. /\ kCheapPrepend < b.r /\ kCheapPrepend + n <= Len(b.data) /\ n \in Nat
        /\ Len(b.data) - (kCheapPrepend + n) >= len
    BY <1>2, <1>3, <2>0, <2>1, MoveArithmetic
  <2>3. makeSpace(b, len) = [data |-> new, r |-> kCheapPrepend, w |-> kCheapPrepend + n]
    BY <1>5 DEF makeSpace, readableBytes
  <2>4. /\ new \in Seq(Cells) /\ Len(new) = Len(b.data)
        /\ \A i \in 1..Len(Readable(b)) : new[kCheapPrepend + i] = Readable(b)[i]
    <3>1. /\ b.data \in Seq(Cells) /\ kCheapPrepend \in Nat /\ Readable(b) \in Seq(Bytes)
          /\ kCheapPrepend + Len(Readable(b)) <= Len(b.data)
      BY <1>2, <2>2, SizeAssumption
    <3> QED
      BY <3>1, CopyFacts
  <2> HIDE DEF new
  <2>5. Holds(new, kCheapPrepend, kCheapPrepend + n, Readable(b))
    <3>1. Readable(b) \in Seq(Bytes) /\ Len(Readable(b)) = n
      BY <1>2
    <3> HIDE DEF n
    <3> QED
      BY <2>0, <2>2, <2>4, <3>1 DEF Holds
  <2>6. writableBytes(makeSpace(b, len)) = Len(b.data) - (kCheapPrepend + n)
    BY <2>3, <2>4, WritableOf
  <2>7. IsBuffer(makeSpace(b, len)) /\ Readable(makeSpace(b, len)) = Readable(b)
    BY <2>3, <2>5, HoldsBuffer
  <2> HIDE DEF n
  <2>8. writableBytes(makeSpace(b, len)) >= len
    BY <2>2, <2>6
  <2> QED
    BY <2>2, <2>7, <2>8
<1> QED
  BY <1>4, <1>5

\* ensureWritableBytes keeps the bytes and makes the room.
LEMMA EnsureOK ==
    ASSUME NEW b, IsBuffer(b), NEW len \in Nat
    PROVE  /\ IsBuffer(ensureWritableBytes(b, len))
           /\ Readable(ensureWritableBytes(b, len)) = Readable(b)
           /\ writableBytes(ensureWritableBytes(b, len)) >= len
<1>1. writableBytes(b) \in Nat
  <2>1. Holds(b.data, b.r, b.w, Readable(b))
    BY BufferHolds
  <2> QED
    BY <2>1 DEF Holds, writableBytes
<1> QED
  BY <1>1, MakeSpaceOK DEF ensureWritableBytes

\* Bytes copied to the writable space and counted by hasWritten come last.
LEMMA WriteAtEndOK ==
    ASSUME NEW b, IsBuffer(b), NEW d \in Seq(Bytes), Len(d) <= writableBytes(b)
    PROVE  /\ IsBuffer(WriteAtEnd(b, d))
           /\ Readable(WriteAtEnd(b, d)) = Readable(b) \o d
<1>1. Holds(b.data, b.r, b.w, Readable(b)) /\ b = [data |-> b.data, r |-> b.r, w |-> b.w]
  BY BufferHolds
<1>2. ASSUME NEW data, NEW r, NEW w, NEW q, Holds(data, r, w, q), w + Len(d) <= Len(data)
      PROVE  Holds(Copy(data, w, d), r, w + Len(d), q \o d)
  <2> DEFINE new == Copy(data, w, d)
             all == q \o d
  <2>1. /\ data \in Seq(Cells) /\ w \in Nat /\ r \in Nat /\ r <= w /\ w <= Len(data)
        /\ Len(data) \in Nat /\ Len(d) \in Nat /\ q \in Seq(Bytes) /\ Len(q) = w - r
        /\ kCheapPrepend <= w /\ \A i \in 1..Len(q) : data[r + i] = q[i]
    BY <1>2 DEF Holds
  <2>2. /\ new \in Seq(Cells) /\ Len(new) = Len(data)
        /\ \A i \in 1..Len(d) : new[w + i] = d[i]
        /\ \A i \in 1..Len(data) : i <= w \/ i > w + Len(d) => new[i] = data[i]
    BY <1>2, <2>1, CopyFacts
  <2>3. all \in Seq(Bytes) /\ Len(all) = Len(q) + Len(d)
    <3>1. q \in Seq(Bytes)
      BY <2>1
    <3> QED
      BY <3>1, ConcatProperties
  <2>4. ASSUME NEW i \in 1..Len(all) PROVE new[r + i] = all[i]
    <3>1. CASE i <= Len(q)
      <4>1. all[i] = q[i] /\ r + i \in 1..Len(data) /\ r + i <= w /\ i \in 1..Len(q)
        BY <2>1, <2>3, <2>4, <3>1
      <4> HIDE DEF new, all
      <4> QED
        BY <2>1, <2>2, <4>1
    <3>2. CASE i > Len(q)
      <4>1. all[i] = d[i - Len(q)] /\ i - Len(q) \in 1..Len(d) /\ r + i = w + (i - Len(q))
        BY <2>1, <2>3, <2>4, <3>2
      <4> HIDE DEF new, all
      <4> QED
        BY <2>2, <4>1
    <3> QED
      BY <2>1, <2>3, <2>4, <3>1, <3>2, SMTT(30)
  <2> HIDE DEF new, all
  <2>5. Holds(new, r, w + Len(d), all)
    BY <1>2, <2>1, <2>2, <2>3, <2>4, SizeAssumption DEF Holds
  <2> QED
    BY <2>5 DEF new, all
<1>3. b.w + Len(d) <= Len(b.data)
  BY <1>1 DEF writableBytes, Holds
<1>4. WriteAtEnd(b, d) = [data |-> Copy(b.data, b.w, d), r |-> b.r, w |-> b.w + Len(d)]
  BY DEF WriteAtEnd
<1>5. Holds(Copy(b.data, b.w, d), b.r, b.w + Len(d), Readable(b) \o d)
  BY <1>1, <1>2, <1>3
<1> QED
  BY <1>4, <1>5, HoldsBuffer, Zenon

\* append adds the bytes at the end.
LEMMA AppendOK ==
    ASSUME NEW b, IsBuffer(b), NEW d \in Seq(Bytes)
    PROVE  IsBuffer(append(b, d)) /\ Readable(append(b, d)) = Readable(b) \o d
<1>1. Len(d) \in Nat
  OBVIOUS
<1> QED
  BY <1>1, EnsureOK, WriteAtEndOK, Zenon DEF append

\* prepend puts the bytes in front.
LEMMA PrependOK ==
    ASSUME NEW b, IsBuffer(b), NEW d \in Seq(Bytes), Len(d) <= prependableBytes(b)
    PROVE  IsBuffer(prepend(b, d)) /\ Readable(prepend(b, d)) = d \o Readable(b)
<1>1. Holds(b.data, b.r, b.w, Readable(b))
  BY BufferHolds
<1>2. ASSUME NEW data, NEW r, NEW w, NEW q, Holds(data, r, w, q), Len(d) <= r
      PROVE  Holds(Copy(data, r - Len(d), d), r - Len(d), w, d \o q)
  <2> DEFINE at == r - Len(d)
             new == Copy(data, at, d)
             all == d \o q
  <2>1. /\ data \in Seq(Cells) /\ w \in Nat /\ r \in Nat /\ r <= w /\ w <= Len(data)
        /\ Len(data) \in Nat /\ Len(d) \in Nat /\ q \in Seq(Bytes) /\ Len(q) = w - r
        /\ kCheapPrepend <= w /\ at \in Nat /\ at + Len(d) = r
        /\ \A i \in 1..Len(q) : data[r + i] = q[i]
    BY <1>2 DEF Holds
  <2> HIDE DEF at
  <2>sizes. /\ at \in Nat /\ r \in Nat /\ w \in Nat /\ r <= w /\ Len(d) \in Nat
            /\ at + Len(d) = r /\ Len(q) \in Nat /\ Len(q) + r = w
    BY <2>1
  <2>2. /\ new \in Seq(Cells) /\ Len(new) = Len(data)
        /\ \A i \in 1..Len(d) : new[at + i] = d[i]
        /\ \A i \in 1..Len(data) : i <= at \/ i > at + Len(d) => new[i] = data[i]
    <3>1. data \in Seq(Cells) /\ at \in Nat /\ at + Len(d) <= Len(data)
      BY <2>1
    <3> QED
      BY <3>1, CopyFacts
  <2>3. all \in Seq(Bytes) /\ Len(all) = Len(d) + Len(q)
    <3>1. q \in Seq(Bytes)
      BY <2>1
    <3> QED
      BY <3>1, ConcatProperties
  <2>4. ASSUME NEW i \in 1..Len(all) PROVE new[at + i] = all[i]
    <3>1. CASE i <= Len(d)
      <4>1. all[i] = d[i] /\ i \in 1..Len(d)
        BY <2>1, <2>3, <2>4, <3>1
      <4> HIDE DEF new, all
      <4> QED
        BY <2>2, <4>1
    <3>2. CASE i > Len(d)
      <4> DEFINE j == i - Len(d)
      <4>0. i \in Nat /\ i <= Len(d) + Len(q)
        BY <2>1, <2>3, <2>4
      <4>1. all[i] = q[j] /\ j \in 1..Len(q) /\ at + i = r + j
        <5>1. j \in 1..Len(q) /\ at + i = r + j
          BY <2>sizes, <3>2, <4>0
        <5>2. i \in 1..Len(d) + Len(q)
          BY <2>1, <3>2, <4>0
        <5>3. q \in Seq(Bytes) /\ ~(i <= Len(d))
          BY <2>1, <3>2, <4>0
        <5>4. all[i] = q[i - Len(d)]
          BY <5>2, <5>3, ConcatProperties
        <5> HIDE DEF all
        <5> QED
          BY <5>1, <5>4
      <4> HIDE DEF new, all, j
      <4>2. r + j \in 1..Len(data) /\ r + j > at + Len(d)
        <5>1. j \in Nat /\ 1 <= j /\ j <= Len(q)
          BY <2>sizes, <4>1
        <5>2. Len(data) \in Nat /\ w <= Len(data)
          BY <2>1
        <5> QED
          BY <2>sizes, <5>1, <5>2
      <4>3. new[r + j] = data[r + j]
        BY <2>2, <4>2
      <4>4. data[r + j] = q[j]
        BY <2>1, <4>1
      <4> QED
        BY <4>1, <4>3, <4>4
    <3> QED
      BY <2>1, <2>3, <2>4, <3>1, <3>2, SMTT(30)
  <2> HIDE DEF new, all
  <2>5. at <= w /\ Len(all) = w - at
    BY <2>sizes, <2>3
  <2>6. Holds(new, at, w, all)
    BY <2>1, <2>2, <2>3, <2>4, <2>5, Zenon DEF Holds
  <2> QED
    BY <2>6 DEF new, all, at
<1>3. prepend(b, d) = [data |-> Copy(b.data, b.r - Len(d), d), r |-> b.r - Len(d), w |-> b.w]
  BY DEF prepend
<1>4. Holds(Copy(b.data, b.r - Len(d), d), b.r - Len(d), b.w, d \o Readable(b))
  BY <1>1, <1>2 DEF prependableBytes
<1> QED
  BY <1>3, <1>4, HoldsBuffer, Zenon

\* shrink keeps the bytes.
LEMMA ShrinkOK ==
    ASSUME NEW b, IsBuffer(b), NEW reserve \in Nat
    PROVE  IsBuffer(shrink(b, reserve)) /\ Readable(shrink(b, reserve)) = Readable(b)
<1> DEFINE other == ensureWritableBytes(NewBuffer, readableBytes(b) + reserve)
<1>1. readableBytes(b) + reserve \in Nat /\ Readable(b) \in Seq(Bytes)
  <2>1. Holds(b.data, b.r, b.w, Readable(b))
    BY BufferHolds
  <2> QED
    BY <2>1 DEF Holds, readableBytes
<1>2. IsBuffer(other) /\ Readable(other) = << >>
  BY <1>1, NewBufferOK, EnsureOK
<1>3. IsBuffer(append(other, Readable(b))) /\ Readable(append(other, Readable(b))) = << >> \o Readable(b)
  BY <1>1, <1>2, AppendOK, Zenon
<1>4. << >> \o Readable(b) = Readable(b)
  BY <1>1, ConcatEmptySeq
<1> QED
  BY <1>3, <1>4 DEF shrink

\* readFd adds what the kernel delivered, whether it fits the writable space or
\* spills into extraBuf.
LEMMA ReadFdOK ==
    ASSUME NEW b, IsBuffer(b), NEW d \in Seq(Bytes)
    PROVE  IsBuffer(readFd(b, d)) /\ Readable(readFd(b, d)) = Readable(b) \o d
<1>1. CASE Len(d) <= writableBytes(b)
  BY <1>1, WriteAtEndOK DEF readFd
<1>2. CASE ~(Len(d) <= writableBytes(b))
  <2> DEFINE n == writableBytes(b)
             first == SubSeq(d, 1, n)
             second == SubSeq(d, n + 1, Len(d))
  <2>1. n \in Nat /\ Readable(b) \in Seq(Bytes)
    <3>1. Holds(b.data, b.r, b.w, Readable(b))
      BY BufferHolds
    <3> QED
      BY <3>1 DEF Holds, writableBytes
  <2> HIDE DEF n
  <2>2. n < Len(d)
    BY <1>2, <2>1 DEF n
  <2>3. first \in Seq(Bytes) /\ Len(first) = n /\ second \in Seq(Bytes) /\ first \o second = d
    <3>1. Len(d) \in Nat /\ \A i \in 1..Len(d) : d[i] \in Bytes
      OBVIOUS
    <3>2. first \in Seq(Bytes) /\ Len(first) = n
      BY <2>1, <2>2, <3>1, SubSeqProperties
    <3>3. second \in Seq(Bytes)
      BY <2>1, <2>2, <3>1, SubSeqProperties
    <3>4. 1 \in 1..Len(d) + 1 /\ n \in 1 - 1..Len(d) /\ Len(d) \in n..Len(d)
      BY <2>1, <2>2, <3>1
    <3>5. first \o second = SubSeq(d, 1, Len(d))
      BY <3>4, ConcatAdjacentSubSeq, Zenon
    <3> QED
      BY <3>2, <3>3, <3>5, SubSeqFull, Zenon
  <2> HIDE DEF first, second
  <2>4. IsBuffer(WriteAtEnd(b, first)) /\ Readable(WriteAtEnd(b, first)) = Readable(b) \o first
    BY <2>1, <2>3, WriteAtEndOK DEF n
  <2>5. /\ IsBuffer(append(WriteAtEnd(b, first), second))
        /\ Readable(append(WriteAtEnd(b, first), second)) = (Readable(b) \o first) \o second
    BY <2>3, <2>4, AppendOK, Zenon
  <2>6. (Readable(b) \o first) \o second = Readable(b) \o d
    <3>1. Readable(b) \in Seq(Bytes) /\ first \in Seq(Bytes) /\ second \in Seq(Bytes)
      BY <2>1, <2>3
    <3>2. Regrouped(Readable(b), first, second)
      BY <3>1, Regroup, Zenon
    <3> QED
      BY <2>3, <3>2, Zenon DEF Regrouped
  <2> QED
    BY <1>2, <2>5, <2>6, Zenon DEF readFd, n, first, second
<1> QED
  BY <1>1, <1>2

--------------------------------------------------------------------------------
(* The specification.                                                      *)

\* Every operation keeps the buffer sound and is a step of the byte queue, or
\* leaves the readable bytes alone.
LEMMA Step ==
    ASSUME BufferOK, [BufferNext]_bufferVars
    PROVE  BufferOK' /\ [Queue!Next]_<<Readable(buf), returned>>
<1> USE DataAssumption
<1>1. IsBuffer(buf) /\ returned \in Seq(Bytes)
  BY DEF BufferOK
<1>2. Holds(buf.data, buf.r, buf.w, Readable(buf))
  BY <1>1, BufferHolds
<1>3. Readable(buf) \in Seq(Bytes) /\ Len(Readable(buf)) = readableBytes(buf)
  BY <1>2 DEF Holds, readableBytes
<1>4. ASSUME NEW d \in Chunks, Append_(d) \/ ReadFd(d)
      PROVE  BufferOK' /\ Queue!PutBack(d)
  <2>1. IsBuffer(buf') /\ Readable(buf') = Readable(buf) \o d /\ UNCHANGED returned
    BY <1>1, <1>4, AppendOK, ReadFdOK, Zenon DEF Append_, ReadFd
  <2> QED
    BY <1>1, <2>1 DEF BufferOK, Queue!PutBack
<1>5. ASSUME NEW d \in Chunks, Prepend(d)
      PROVE  BufferOK' /\ Queue!PutFront(d)
  <2>1. IsBuffer(buf') /\ Readable(buf') = d \o Readable(buf) /\ UNCHANGED returned
    BY <1>1, <1>5, PrependOK DEF Prepend
  <2> QED
    BY <1>1, <2>1 DEF BufferOK, Queue!PutFront
<1>6. ASSUME NEW n \in Lengths, Retrieve(n)
      PROVE  BufferOK' /\ Queue!Discard(n)
  <2>1. /\ IsBuffer(buf') /\ n <= readableBytes(buf) /\ UNCHANGED returned
        /\ Readable(buf') = SubSeq(Readable(buf), n + 1, Len(Readable(buf)))
    BY <1>1, <1>6, RetrieveOK DEF Retrieve
  <2> QED
    BY <1>1, <1>3, <2>1 DEF BufferOK, Queue!Discard
<1>7. ASSUME NEW n \in Lengths, RetrieveAsString(n)
      PROVE  BufferOK' /\ Queue!Take(n)
  <2>1. /\ IsBuffer(buf') /\ n <= readableBytes(buf) /\ returned' = SubSeq(Readable(buf), 1, n)
        /\ Readable(buf') = SubSeq(Readable(buf), n + 1, Len(Readable(buf)))
    BY <1>1, <1>7, RetrieveOK DEF RetrieveAsString
  <2>2. SubSeq(Readable(buf), 1, n) \in Seq(Bytes)
    BY <1>3, <2>1
  <2> QED
    BY <1>3, <2>1, <2>2 DEF BufferOK, Queue!Take
<1>8. ASSUME NEW n \in Lengths, EnsureWritableBytes(n) \/ Shrink(n)
      PROVE  BufferOK' /\ UNCHANGED <<Readable(buf), returned>>
  <2>1. IsBuffer(buf') /\ Readable(buf') = Readable(buf) /\ UNCHANGED returned
    BY <1>1, <1>8, EnsureOK, ShrinkOK DEF EnsureWritableBytes, Shrink
  <2> QED
    BY <1>1, <2>1 DEF BufferOK
<1>9. CASE UNCHANGED bufferVars
  BY <1>1, <1>9 DEF bufferVars, BufferOK
<1> QED
  BY <1>4, <1>5, <1>6, <1>7, <1>8, <1>9 DEF BufferNext, Queue!Next

\* The buffer starts sound and empty.
LEMMA StartsEmpty == BufferInit => BufferOK /\ Queue!Init
BY NewBufferOK, EmptySeq DEF BufferInit, BufferOK, Queue!Init

\* Whatever is done to a buffer, its indices stay ordered inside the vector and the
\* readable part holds only bytes put there (Buffer.h:31-36).
THEOREM BufferTypeCorrect == BufferSpec => []BufferOK
BY StartsEmpty, Step, PTL DEF BufferSpec

\* The assertions of makeSpace and ensureWritableBytes never fail and the move at
\* Buffer.cc:277 is always to the left.
THEOREM SpaceAssertionsAlwaysHold == BufferSpec => []SpaceAssertionsHold
<1>1. BufferOK => SpaceAssertionsHold
  BY DataAssumption, MakeSpaceOK, EnsureOK DEF BufferOK, SpaceAssertionsHold
<1> QED
  BY <1>1, BufferTypeCorrect, PTL

\* A buffer implements a byte queue: no operation loses, duplicates or reorders a
\* byte, whatever sizes and lengths meet (Buffer.cc:143-284).
THEOREM ByteQueueImplemented == BufferSpec => ImplementsByteQueue
BY StartsEmpty, Step, BufferTypeCorrect, PTL DEF BufferSpec, ImplementsByteQueue, Queue!Spec
==============================================================================
