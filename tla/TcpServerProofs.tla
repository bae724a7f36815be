---------------------------- MODULE TcpServerProofs ----------------------------
(***************************************************************************)
(* TcpServer for any threads, clients and descriptors: which connections   *)
(* the server keeps, in which ways its process ends, and what ~TcpServer   *)
(* leaves behind.                                                          *)
(*                                                                         *)
(* PInv says where the threads of the pool are, Conns where the shared_ptr *)
(* of each connection is, Shutdown how far ~TcpServer has got.             *)
(***************************************************************************)
EXTENDS TcpServer, TLAPS

USE ThreadsAssumption, BoundsAssumption

ThreadStates == {"none", "start", "init", "loop", "left", "cleared", "done"}
InStart == {"check", "asleep", "return"}
InStop == {"quit", "wakeup", "join"}
Ending == {"pool", "gone"} \cup InStop
Bases == {"free", "spawn", "listen", "acceptIdle", "closeIdle", "reopenIdle", "stopped", "destory"}
           \cup InStart \cup Ending

\* The base thread and the threads it has started so far.
PoolTypes ==
    /\ thread \in [IoThreads -> ThreadStates]
    /\ loop_ \in [IoThreads -> BOOLEAN] /\ quit_ \in [IoThreads -> BOOLEAN]
    /\ numOfThreads_ \in 0..MaxThreads /\ userQuit \subseteq IoThreads
    /\ loops_ \in Seq(Int) /\ nextLoopIdx_ \in Nat /\ joined \in Nat
    /\ base \in Bases

Spawned == IF base \in InStart THEN Len(loops_) + 1 ELSE Len(loops_)

Pool ==
    /\ Spawned <= numOfThreads_ /\ (base = "spawn" => Len(loops_) < numOfThreads_)
    /\ \A i \in IoThreads : thread[i] = "none" <=> i > Spawned
    /\ \A i \in 1..Len(loops_) :
         /\ thread[i] \notin {"none", "start", "init"}
         /\ loops_[i] = i \/ (loops_[i] = NullLoop /\ i \in userQuit)
    /\ nextLoopIdx_ = 0 \/ nextLoopIdx_ < Len(loops_)
    /\ base = "return" => thread[Starting] \notin {"none", "start", "init"}
    /\ \A i \in IoThreads : loop_[i] <=> thread[i] \in {"loop", "left"}
    /\ \A i \in IoThreads : thread[i] \in {"left", "cleared", "done"} => quit_[i]

\* Who has quit a loop, and which threads are joined.
Quits ==
    /\ joined <= Len(loops_) /\ (base \notin Ending => joined = 0)
    /\ base \in InStop => joined < Len(loops_)
    /\ base \in {"wakeup", "join"} => quit_[Joining]
    /\ base = "gone" => joined = Len(loops_)
    /\ \A i \in 1..joined : thread[i] = "done"
    /\ \A i \in IoThreads :
         quit_[i] => i \in userQuit \/ i <= joined \/ (i = Joining /\ base \in {"wakeup", "join"})

PInv == PoolTypes /\ Pool /\ Quits

--------------------------------------------------------------------------------
\* The empty sequence has elements of every kind.
LEMMA EmptySeq == ASSUME NEW S PROVE << >> \in Seq(S)
  OBVIOUS

\* Append adds at the end.
LEMMA AppendProperties ==
  ASSUME NEW S, NEW q \in Seq(S), NEW e \in S
  PROVE  /\ Append(q, e) \in Seq(S) /\ Len(Append(q, e)) = Len(q) + 1
         /\ \A i \in 1..Len(q) : Append(q, e)[i] = q[i]
         /\ Append(q, e)[Len(q) + 1] = e
  OBVIOUS

\* Head and Tail take from the front.
LEMMA HeadTailProperties ==
  ASSUME NEW S, NEW q \in Seq(S), q # << >>
  PROVE  /\ Head(q) \in S /\ Tail(q) \in Seq(S) /\ Len(Tail(q)) = Len(q) - 1
         /\ Len(q) # 0 /\ Head(q) = q[1]
         /\ \A i \in 1..Len(Tail(q)) : Tail(q)[i] = q[i + 1]
  OBVIOUS

\* SubSeq takes a part out.
LEMMA SubSeqProperties ==
  ASSUME NEW S, NEW q \in Seq(S), NEW m \in Nat \ {0}, NEW n \in 0..Len(q), m <= n + 1
  PROVE  /\ SubSeq(q, m, n) \in Seq(S) /\ Len(SubSeq(q, m, n)) = n - m + 1
         /\ \A i \in 1..(n - m + 1) : SubSeq(q, m, n)[i] = q[m + i - 1]
  OBVIOUS

\* Two sequences are joined.
LEMMA ConcatProperties ==
  ASSUME NEW S, NEW a \in Seq(S), NEW b \in Seq(S)
  PROVE  /\ a \o b \in Seq(S) /\ Len(a \o b) = Len(a) + Len(b)
         /\ \A i \in 1..Len(a) + Len(b) : (a \o b)[i] = IF i <= Len(a) THEN a[i] ELSE b[i - Len(a)]
  OBVIOUS

\* The constructors leave a pool without threads.
LEMMA PoolStarts == Init => PInv
  BY DEF Init, PoolInit, PInv, PoolTypes, Pool, Quits, Bases, InStart, InStop, Ending, ThreadStates,
         Spawned, IoThreads

\* A step of thread i that publishes nothing.
LEMMA ThreadMoves ==
  ASSUME PInv, NEW i \in IoThreads,
         ConstructLoop(i) \/ LeaveLoop(i) \/ ClearLoop(i) \/ EndThread(i)
  PROVE  PInv'
<1> USE DEF poolVars
<1>1. PoolTypes'
  BY Zenon DEF PInv, PoolTypes, ConstructLoop, LeaveLoop, ClearLoop, EndThread, Moves, ThreadStates
<1>2. /\ thread[i] \in {"start", "loop", "left", "cleared"} 
      /\ thread[i] = "start" => i > Len(loops_)
  BY DEF PInv, PoolTypes, Pool, ConstructLoop, LeaveLoop, ClearLoop, EndThread, Moves, IoThreads
<1>3. Spawned' = Spawned /\ Starting' = Starting /\ Joining' = Joining
  BY DEF ConstructLoop, LeaveLoop, ClearLoop, EndThread, Spawned, Starting, Joining
<1>4. Pool'
  <2>1. CASE ConstructLoop(i)
    BY <1>2, <1>3, <2>1 DEF PInv, PoolTypes, Pool, ConstructLoop, Moves, IoThreads, Spawned
  <2>2. CASE LeaveLoop(i)
    BY <1>2, <1>3, <2>2 DEF PInv, PoolTypes, Pool, LeaveLoop, Moves, IoThreads
  <2>3. CASE ClearLoop(i)
    BY <1>2, <1>3, <2>3 DEF PInv, PoolTypes, Pool, ClearLoop, Moves, IoThreads
  <2>4. CASE EndThread(i)
    BY <1>2, <1>3, <2>4 DEF PInv, PoolTypes, Pool, EndThread, Moves, IoThreads
  <2>5. QED
    BY <2>1, <2>2, <2>3, <2>4
<1>5. Quits'
  <2>1. \A k \in 1..joined : k # i
    BY <1>2 DEF PInv, Quits
  <2>2. UNCHANGED <<quit_, base, joined, loops_, userQuit>>
    BY DEF ConstructLoop, LeaveLoop, ClearLoop, EndThread
  <2>3. \A k \in IoThreads \ {i} : thread'[k] = thread[k]
    BY DEF PInv, PoolTypes, ConstructLoop, LeaveLoop, ClearLoop, EndThread, Moves
  <2>4. 1..joined \subseteq IoThreads
    BY DEF PInv, PoolTypes, Pool, Quits, Spawned, IoThreads
  <2>5. QED
    BY <1>3, <2>1, <2>2, <2>3, <2>4 DEF PInv, Quits
<1>6. QED
  BY <1>1, <1>4, <1>5 DEF PInv

\* It publishes its loop, and wakes the base thread if that waits for it.
LEMMA ThreadPublishes ==
  ASSUME PInv, NEW i \in IoThreads, PublishLoop(i)
  PROVE  PInv'
<1> USE DEF poolVars
<1>0. base' \in Bases /\ (base' = base \/ (base = "asleep" /\ base' = "check"))
  BY DEF PInv, PoolTypes, PublishLoop, Bases, InStart
<1>1. PoolTypes'
  BY <1>0 DEF PInv, PoolTypes, PublishLoop, Moves, ThreadStates
<1>2. thread[i] = "init" /\ ~(i \in 1..Len(loops_))
  BY DEF PInv, Pool, PublishLoop, Moves
<1>3. Spawned' = Spawned /\ Starting' = Starting /\ Joining' = Joining
  BY <1>0 DEF PublishLoop, Spawned, Starting, Joining, InStart
<1>4. Pool'
  BY <1>0, <1>2, <1>3 DEF PInv, PoolTypes, Pool, PublishLoop, Moves, IoThreads
<1>5. Quits'
  <2>1. \A k \in 1..joined : k # i
    BY <1>2 DEF PInv, Quits
  <2>2. QED
    BY <1>0, <1>3, <2>1 DEF PInv, PoolTypes, Quits, PublishLoop, Moves, InStop, Ending
<1>6. QED
  BY <1>1, <1>4, <1>5 DEF PInv

\* A callback that quits its loop.
LEMMA UserQuitsPool ==
  ASSUME PInv, NEW i \in IoThreads, UserQuits(i)
  PROVE  PInv'
<1> USE DEF poolVars
<1>3. Spawned' = Spawned /\ Starting' = Starting /\ Joining' = Joining
  BY DEF UserQuits, Spawned, Starting, Joining
<1>4. QED
  BY <1>3 DEF PInv, PoolTypes, Pool, Quits, UserQuits, IoThreads

\* start().
LEMMA StartsPool ==
  ASSUME PInv, StartStep \/ SpuriousWakeup
  PROVE  PInv'
<1> USE DEF poolVars, threadVars
<1>1. CASE SpawnThread
  <2>1. /\ base = "spawn" /\ base' = "check" /\ Starting \in IoThreads
        /\ Spawned = Len(loops_) /\ Spawned' = Len(loops_) + 1 /\ Starting' = Starting
    BY <1>1 DEF PInv, PoolTypes, Pool, SpawnThread, BaseMoves, Starting, Spawned, IoThreads, InStart
  <2>2. thread[Starting] = "none" /\ Joining' = Joining
    BY <1>1, <2>1 DEF PInv, Pool, Starting, SpawnThread, IoThreads, Joining, PoolTypes
  <2>3. PoolTypes'
    BY <1>1, <2>1 DEF PInv, PoolTypes, SpawnThread, ThreadStates, Bases, InStart
  <2>4. Pool'
    BY <1>1, <2>1, <2>2 DEF PInv, PoolTypes, Pool, SpawnThread, IoThreads, Starting
  <2>5. Quits'
    BY <1>1, <2>1, <2>2 DEF PInv, PoolTypes, Quits, SpawnThread, IoThreads, Starting, Ending, InStop
  <2>6. QED
    BY <2>3, <2>4, <2>5 DEF PInv
<1>2. CASE CheckLoop \/ SpuriousWakeup
  <2>1. /\ base \in InStart /\ base' \in InStart /\ Starting \in IoThreads
        /\ Spawned' = Spawned /\ Starting' = Starting /\ Joining' = Joining
        /\ base' = "return" => loop_[Starting]
        /\ UNCHANGED <<threadVars, poolVars>>
    BY <1>2
      DEF PInv, PoolTypes, Pool, CheckLoop, SpuriousWakeup, BaseMoves, Starting, Spawned, IoThreads, InStart, Joining
  <2>2. PoolTypes'
    BY <2>1 DEF PInv, PoolTypes, Bases
  <2>3. base # "spawn" /\ base' # "spawn" /\ base \notin Ending /\ base' \notin Ending
    BY <2>1 DEF InStart, InStop, Ending
  <2>4. Pool'
    BY <2>1, <2>3 DEF PInv, PoolTypes, Pool, IoThreads
  <2>5. Quits'
    BY <2>1, <2>3 DEF PInv, PoolTypes, Quits, Ending, InStop
  <2>6. QED
    BY <2>2, <2>4, <2>5 DEF PInv
<1>3. CASE ReturnLoop
  <2>1. /\ base = "return" /\ base' \in {"listen", "spawn"} /\ Starting \in IoThreads
        /\ Spawned = Len(loops_) + 1 /\ Len(loops_) + 1 <= numOfThreads_
        /\ loops_ \in Seq(Int) /\ Joining' = Joining
        /\ base' = "spawn" => Starting # numOfThreads_
    BY <1>3
      DEF PInv, PoolTypes, Pool, ReturnLoop, BaseMoves, Starting, Spawned, IoThreads, InStart, Joining
  <2> DEFINE l == IF loop_[Starting] THEN Starting ELSE NullLoop
  <2>2. l \in Int /\ loops_' = Append(loops_, l)
    BY <1>3, <2>1 DEF ReturnLoop, NullLoop, IoThreads
  <2>3. /\ loops_' \in Seq(Int) /\ Len(loops_') = Len(loops_) + 1
        /\ \A i \in 1..Len(loops_) : loops_'[i] = loops_[i]
        /\ loops_'[Len(loops_) + 1] = l
    BY <2>1, <2>2, AppendProperties
  <2>4. l = Starting \/ (l = NullLoop /\ Starting \in userQuit)
    <3>1. CASE loop_[Starting]
      BY <3>1
    <3>2. CASE ~loop_[Starting]
      <4>1. thread[Starting] \in {"cleared", "done"}
        BY <2>1, <3>2 DEF PInv, PoolTypes, Pool, ThreadStates
      <4>2. quit_[Starting] /\ Starting > joined /\ joined = 0
        BY <2>1, <4>1 DEF PInv, PoolTypes, Pool, Quits, Starting, Ending, InStop
      <4>3. QED
        BY <2>1, <3>2, <4>2 DEF PInv, Quits, IoThreads
    <3>3. QED
      BY <3>1, <3>2
  <2> HIDE DEF l
  <2>5. PoolTypes'
    BY <1>3, <2>1, <2>3 DEF PInv, PoolTypes, ReturnLoop, Bases
  <2>6. Spawned' = Spawned
    BY <2>1, <2>3 DEF Spawned, InStart
  <2>7. Pool'
    BY <1>3, <2>1, <2>3, <2>4, <2>6 DEF PInv, PoolTypes, Pool, ReturnLoop, Starting
  <2>8. Quits'
    BY <1>3, <2>1, <2>3 DEF PInv, PoolTypes, Quits, ReturnLoop, Ending, InStop
  <2>9. QED
    BY <2>5, <2>7, <2>8 DEF PInv
<1>4. QED
  BY <1>1, <1>2, <1>3 DEF StartStep

\* ~EventLoopThreadPool.
LEMMA StopsPool ==
  ASSUME PInv, StopStep
  PROVE  PInv'
<1> USE DEF poolVars, threadVars
<1>0. /\ base \in Ending /\ base' \in Ending /\ Spawned' = Spawned /\ Starting' = Starting
      /\ joined \in Nat /\ Len(loops_) \in Nat /\ Len(loops_) <= MaxThreads
      /\ UNCHANGED <<thread, loop_, userQuit, numOfThreads_, loops_, nextLoopIdx_>>
  BY
    DEF PInv, PoolTypes, Pool, StopStep, TestLoop, QuitLoop, WakeupLoop, JoinThread, BaseMoves, Ending, InStop,
         Spawned, InStart, Starting
<1>1. base \notin InStart \cup {"spawn"} /\ base' \notin InStart \cup {"spawn"}
  BY <1>0 DEF Ending, InStop, InStart
<1>2. CASE TestLoop \/ WakeupLoop
  <2>1. UNCHANGED <<threadVars, poolVars>> /\ Joining' = Joining
    BY <1>2 DEF TestLoop, WakeupLoop, Joining
  <2>2. \/ base' = base
        \/ base = "pool" /\ base' = "quit" /\ joined < Len(loops_)
        \/ base = "wakeup" /\ base' = "join"
    BY <1>2 DEF TestLoop, WakeupLoop
  <2>3. QED
    BY <1>0, <1>1, <2>1, <2>2 DEF PInv, PoolTypes, Pool, Quits, Ending, InStop, Bases, InStart
<1>3. CASE QuitLoop
  <2>1. UNCHANGED <<thread, loop_, userQuit, poolVars>> /\ Joining' = Joining /\ base = "quit"
    BY <1>3 DEF QuitLoop, Joining
  <2>2. \/ base' = base /\ quit_' = quit_
        \/ base' = "wakeup" /\ quit_' = [quit_ EXCEPT ![Joining] = TRUE]
    BY <1>3 DEF QuitLoop
  <2>3. Joining \in IoThreads
    BY <1>0, <2>1 DEF PInv, Quits, InStop, Joining, IoThreads
  <2>4. PoolTypes'
    BY <1>0, <2>1, <2>2, Zenon DEF PInv, PoolTypes, Bases
  <2>5. Pool'
    BY <1>0, <1>1, <2>1, <2>2 DEF PInv, PoolTypes, Pool
  <2>6. Quits'
    BY <1>0, <2>1, <2>2, <2>3 DEF PInv, PoolTypes, Quits, InStop
  <2>7. QED
    BY <2>4, <2>5, <2>6 DEF PInv
<1>4. CASE JoinThread
  <2>1. /\ base = "join" /\ base' = "pool" /\ joined' = joined + 1 /\ joined < Len(loops_)
        /\ UNCHANGED <<threadVars, numOfThreads_, loops_, nextLoopIdx_>>
        /\ thread[joined + 1] = "done"
    BY <1>4 DEF JoinThread, BaseMoves, Joining, PInv, Quits, InStop
  <2>2. PoolTypes' /\ Pool'
    BY <1>0, <1>1, <2>1 DEF PInv, PoolTypes, Pool, Bases
  <2>3. Quits'
    BY <1>0, <2>1 DEF PInv, PoolTypes, Quits, InStop, IoThreads, Joining
  <2>4. QED
    BY <2>2, <2>3 DEF PInv
<1>5. QED
  BY <1>2, <1>3, <1>4 DEF StopStep

\* Before start() there are no threads.
Fresh ==
    /\ starts \in Nat
    /\ starts = 0 => loops_ = << >> /\ base \notin InStart \cup {"spawn"}

\* The other moves of the base thread.
BaseStep ==
    \/ base' = base
    \/ /\ base \notin Ending \cup InStart /\ base' \in Bases \ (Ending \cup InStart)
       /\ base' = "spawn" => Len(loops_) < numOfThreads_
    \/ base = "destory" /\ base' = "pool"
    \/ base = "pool" /\ base' = "gone" /\ joined = Len(loops_)

\* The moves of the base thread outside the pool keep what is said of the threads.
LEMMA BaseStepPool ==
  ASSUME PInv, BaseStep, UNCHANGED <<threadVars, numOfThreads_, loops_, joined>>,
         nextLoopIdx_' \in {nextLoopIdx_, NextIdx}
  PROVE  PInv'
<1> USE DEF threadVars
<1>1. base' \in Bases
  BY DEF PInv, PoolTypes, BaseStep, Bases, Ending
<1>2. nextLoopIdx_' \in Nat /\ (nextLoopIdx_' = 0 \/ nextLoopIdx_' < Len(loops_))
  BY DEF PInv, PoolTypes, Pool, NextIdx
<1>3. Spawned' = Spawned /\ Starting' = Starting /\ Joining' = Joining
  BY DEF BaseStep, Spawned, Starting, Joining, InStart, Ending, InStop
<1>4. /\ base' = "return" => base = "return"
      /\ base' = "spawn" => base = "spawn" \/ Len(loops_) < numOfThreads_
      /\ base' \notin Ending => base \notin Ending
      /\ base' \in InStop => base' = base
      /\ base' = "gone" => base = "gone" \/ joined = Len(loops_)
      /\ base \in {"wakeup", "join"} => base' = base
  BY DEF BaseStep, InStart, Ending, InStop
<1>5. PoolTypes' /\ Pool'
  BY <1>1, <1>2, <1>3, <1>4 DEF PInv, PoolTypes, Pool
<1>6. Quits'
  BY <1>3, <1>4 DEF PInv, Quits, InStop
<1>7. QED
  BY <1>5, <1>6 DEF PInv

\* Every step keeps what is said of the threads.
LEMMA PoolInductive == PInv /\ Fresh /\ [Next]_vars => PInv' /\ Fresh'
<1> SUFFICES ASSUME PInv, Fresh, [Next]_vars PROVE PInv' /\ Fresh'
  OBVIOUS
<1> USE DEF threadVars, poolVars, acceptorVars, connVars, clientVars, loopVars, otherVars, forceVars
<1> DEFINE Rest == UNCHANGED <<threadVars, numOfThreads_, loops_, joined>> /\ nextLoopIdx_' \in {nextLoopIdx_, NextIdx}
           Goes == BaseStep /\ Rest /\ UNCHANGED starts /\ base' # "spawn" /\ base' \notin InStart
<1>0. base \in Bases
  BY DEF PInv, PoolTypes
<1>1. ASSUME Goes PROVE PInv' /\ Fresh'
  <2>1. PInv'
    BY <1>1, BaseStepPool
  <2>2. QED
    BY <1>1, <2>1 DEF Fresh
<1>2. ASSUME Rest, UNCHANGED <<base, starts>> PROVE PInv' /\ Fresh'
  <2>1. PInv'
    BY <1>2, BaseStepPool DEF BaseStep
  <2>2. QED
    BY <1>2, <2>1 DEF Fresh
<1>3. CASE Start
  <2>1. Rest /\ base = "free" /\ starts' = starts + 1 /\ starts \in Nat
    BY <1>3 DEF Start, Fresh
  <2>2. BaseStep
    <3>1. CASE starts = 0
      <4>1. Len(loops_) = 0 /\ numOfThreads_ \in Nat /\ base' = IF numOfThreads_ = 0 THEN "listen" ELSE "spawn"
        BY <1>3, <3>1 DEF Start, Fresh, PInv, PoolTypes
      <4>2. QED
        BY <2>1, <4>1 DEF BaseStep, Bases, Ending, InStart, InStop
    <3>2. CASE starts # 0
      BY <1>3, <3>2 DEF Start, BaseStep
    <3>3. QED
      BY <3>1, <3>2
  <2>3. PInv'
    BY <2>1, <2>2, BaseStepPool
  <2>4. QED
    BY <2>1, <2>3 DEF Fresh
<1>4. CASE (StartStep \/ SpuriousWakeup) /\ OnlyThreads
  <2>1. PInv' /\ starts' = starts
    BY <1>4, StartsPool DEF OnlyThreads
  <2>2. base \in InStart \cup {"spawn"}
    BY <1>4 DEF StartStep, SpawnThread, CheckLoop, ReturnLoop, SpuriousWakeup, BaseMoves, InStart
  <2>3. QED
    BY <2>1, <2>2 DEF Fresh
<1>5. CASE Listen
  <2>1. Goes
    BY <1>5 DEF Listen, BaseMoves, BaseStep, Bases, Ending, InStart, InStop
  <2>2. QED
    BY <1>1, <2>1
<1>6. CASE Accept
  <2>1. Rest /\ UNCHANGED <<base, starts>>
    BY <1>6 DEF Accept, newConnectionCallback
  <2>2. QED
    BY <1>2, <2>1
<1>7. CASE CloseIdle \/ IdleStep
  <2>1. Goes
    BY <1>7
      DEF CloseIdle, AcceptEvent, IdleStep, AcceptIdle, CloseAccepted, ReopenIdle, BaseMoves, BaseStep, Bases, Ending, InStart, InStop
  <2>2. QED
    BY <1>1, <2>1
<1>8. ASSUME NEW l, LoopStep(l) PROVE PInv' /\ Fresh'
  <2>1. Rest /\ UNCHANGED <<base, starts>>
    BY <1>8 DEF LoopStep, RunFunctor, EndBatch
  <2>2. QED
    BY <1>2, <2>1
<1>9. CASE BaseStops \/ Destruct
  <2>1. Goes
    BY <1>9 DEF BaseStops, Destruct, BaseMoves, BaseStep, Bases, Ending, InStart, InStop
  <2>2. QED
    BY <1>1, <2>1
<1>10. CASE DestoryNext
  <2>1. Rest /\ UNCHANGED starts /\ base = "destory" /\ base' \in {base, "pool"}
    BY <1>10 DEF DestoryNext
  <2>2. Goes
    BY <2>1 DEF BaseStep, InStart
  <2>3. QED
    BY <1>1, <2>2
<1>11. CASE StopStep /\ OnlyThreads
  <2>1. PInv' /\ starts' = starts
    BY <1>11, StopsPool DEF OnlyThreads
  <2>2. base' \in Ending /\ loops_' = loops_
    BY <1>11 DEF StopStep, TestLoop, QuitLoop, WakeupLoop, JoinThread, BaseMoves, Ending, InStop
  <2>3. QED
    BY <2>1, <2>2 DEF Fresh, Ending, InStop, InStart
<1>12. CASE DestroyAcceptor
  <2>1. Goes
    BY <1>12 DEF DestroyAcceptor, BaseMoves, BaseStep, InStart
  <2>2. QED
    BY <1>1, <2>1
<1>13. ASSUME NEW i \in IoThreads, ThreadStep(i) /\ OnlyThreads PROVE PInv' /\ Fresh'
  <2>1. PInv'
    BY <1>13, ThreadMoves, ThreadPublishes DEF ThreadStep
  <2>2. UNCHANGED <<starts, loops_>> /\ (base' = base \/ (base \in InStart))
    BY <1>13 DEF ThreadStep, OnlyThreads, ConstructLoop, PublishLoop, LeaveLoop, ClearLoop, InStart
  <2>3. QED
    BY <2>1, <2>2 DEF Fresh
<1>14. ASSUME NEW i \in IoThreads, EndOfThread(i) PROVE PInv' /\ Fresh'
  <2>1. PInv'
    BY <1>14, ThreadMoves DEF EndOfThread
  <2>2. UNCHANGED <<starts, loops_, base>>
    BY <1>14 DEF EndOfThread, EndThread
  <2>3. QED
    BY <2>1, <2>2 DEF Fresh
<1>15. ASSUME NEW i \in IoThreads, UserQuits(i) /\ OnlyThreads PROVE PInv' /\ Fresh'
  <2>1. PInv'
    BY <1>15, UserQuitsPool
  <2>2. UNCHANGED <<starts, loops_, base>>
    BY <1>15 DEF UserQuits, OnlyThreads
  <2>3. QED
    BY <2>1, <2>2 DEF Fresh
<1>16. ASSUME NEW c, HandleClose(c) \/ UserEnds(c) PROVE PInv' /\ Fresh'
  <2>1. Rest /\ UNCHANGED <<base, starts>>
    BY <1>16, Zenon DEF HandleClose, UserEnds, UserShutdown, ForceClose, StoreDisconnecting
  <2>2. QED
    BY <1>2, <2>1
<1>17. CASE ClientComes \/ ClientGivesUp \/ OtherOpens \/ OtherCloses \/ UNCHANGED vars
  <2>1. Rest /\ UNCHANGED <<base, starts>>
    BY <1>17, Zenon DEF ClientComes, ClientGivesUp, OtherOpens, OtherCloses, vars
  <2>2. QED
    BY <1>2, <2>1
<1> HIDE DEF Rest, Goes
<1>18. QED
  BY <1>3, <1>4, <1>5, <1>6, <1>7, <1>8, <1>9, <1>10, <1>11, <1>12, <1>13, <1>14, <1>15, <1>16, <1>17
     DEF Next, StartCall, HandleRead, StopCall, IoThreadStep

--------------------------------------------------------------------------------
(* The connections.                                                        *)

Ops == {"establishConnection", "removeConnectionInLoop", "destoryConnection", "forceCloseInLoop"}
Ats == {"none", "connecting", "up", "shut", "closed", "destroyed"}
Functors == [op : Ops, conn : Clients]

ServerTypes ==
    /\ conn \in [Clients -> [at : Ats, fd : Int, loop : Int]]
    /\ connections_ \subseteq Clients /\ forcing \subseteq Clients
    /\ queue \in [Loops -> Seq(Functors)] /\ held \in [Loops -> SUBSET Clients]
    /\ come \in 0..MaxClients /\ backlog \in Seq(Clients)

\* A connection has one functor on its way, forceCloseInLoop aside, unless it is in the set
\* W of those that may be closed a second time.
Tracked(f, W) == f.op # "forceCloseInLoop" /\ f.conn \notin W
Alike(f, g, W) == f.conn = g.conn /\ Tracked(f, W) /\ Tracked(g, W)

\* What is in a queue; its tracked functors are for different connections, its clients are
\* different.
In(q) == {q[i] : i \in 1..Len(q)}
OnePer(q, W) == \A i, j \in 1..Len(q) : Alike(q[i], q[j], W) => i = j

Distinct(q) == \A i, j \in 1..Len(q) : q[i] = q[j] => i = j

\* The clients that wait have no connection yet.
Waiting ==
    /\ \A c \in In(backlog) : c <= come /\ conn[c].at = "none"
    /\ Distinct(backlog)
    /\ \A c \in Clients : c > come => conn[c].at = "none"

Removing(c) == Functor("removeConnectionInLoop", c) \in In(queue[0])
Destroying(c) == Functor("destoryConnection", c) \in In(queue[conn[c].loop])

\* Where a connection is, by what has been done with it.
Place(c) ==
    /\ conn[c].loop \in 0..Len(loops_)
    /\ conn[c].at = "none" => c \notin connections_
    /\ conn[c].at = "connecting" => conn[c].loop # 0
    /\ conn[c].at \in {"connecting", "up", "shut"} => c \in connections_
    /\ c \in forcing => conn[c].at \notin {"none", "connecting"}
    /\ c \in overwritten => conn[c].at \in {"closed", "destroyed"}
    /\ conn[c].at = "closed" =>
         \/ c \in connections_ \cup overwritten /\ conn[c].loop # 0 /\ Removing(c)
         \/ c \notin connections_ /\ (LoopAlive(conn[c].loop) => Destroying(c))
    /\ conn[c].at = "destroyed" => c \notin connections_ \/ base = "destory"

\* What a functor f in the queue of loop l is about.
Sent(l, f) ==
    \/ /\ f.op = "establishConnection"
       /\ l # 0 /\ conn[f.conn].loop = l /\ conn[f.conn].at = "connecting"
    \/ /\ f.op = "removeConnectionInLoop"
       /\ l = 0 /\ conn[f.conn].loop # 0 /\ conn[f.conn].at \in {"closed", "destroyed"}
       /\ f.conn \notin overwritten => conn[f.conn].at = "closed" /\ f.conn \in connections_
    \/ /\ f.op = "destoryConnection"
       /\ conn[f.conn].loop = l /\ conn[f.conn].at \in {"closed", "destroyed"}
       /\ f.conn \notin overwritten => conn[f.conn].at = "closed"
       /\ f.conn \notin connections_
    \/ /\ f.op = "forceCloseInLoop"
       /\ conn[f.conn].loop = l /\ conn[f.conn].at \notin {"none", "connecting"}

Queue(l) ==
    /\ \A f \in In(queue[l]) : Sent(l, f)
    /\ OnePer(queue[l], overwritten)
    /\ ~LoopAlive(l) => queue[l] = << >> /\ held[l] = {}

DistinctFds == \A c, d \in Alive : c # d => conn[c].fd # conn[d].fd

Places == (\A c \in Clients : Place(c)) /\ (\A l \in Loops : Queue(l))
Conns == Running => Waiting /\ Places /\ DistinctFds

\* What ~TcpServer has done so far.
Shutdown ==
    /\ base \in {"stopped", "destory"} \cup Ending => held[0] = {}
    /\ base \in Ending => connections_ = {}
    /\ base = "gone" => idleFd_ = NoFd

--------------------------------------------------------------------------------
(* Queues.                                                                 *)

\* Nothing is in an empty queue.
LEMMA InEmpty == In(<< >>) = {} /\ (\A W : OnePer(<< >>, W)) /\ Distinct(<< >>)
  BY EmptySeq DEF In, OnePer, Distinct

\* What is in a sequence over S is in S.
LEMMA InSeq ==
  ASSUME NEW S, NEW q \in Seq(S) PROVE In(q) \subseteq S
  BY DEF In

\* The record of a connection.
Record(at, fd, loop) == [at |-> at, fd |-> fd, loop |-> loop]

\* Its fields.
LEMMA RecordIs ==
  \A at, fd, loop : Record(at, fd, loop).at = at /\ Record(at, fd, loop).loop = loop
  BY DEF Record

\* A functor names its operation and its connection.
LEMMA FunctorIs ==
  /\ \A f \in Functors : f.conn \in Clients
  /\ \A c \in Clients, op \in Ops :
       Functor(op, c) \in Functors /\ Functor(op, c).conn = c /\ Functor(op, c).op = op
  BY DEF Functors, Functor

\* What is one functor per connection for W is that for more than W.
LEMMA StillOnePer ==
  ASSUME NEW q, NEW W, NEW V, W \subseteq V, OnePer(q, W)
  PROVE  OnePer(q, V)
  BY Zenon DEF OnePer, Alike, Tracked

\* r is the queue q with f put at its end.
Longer(r, q, f, S) ==
    /\ r \in Seq(S) /\ In(r) = In(q) \cup {f}
    /\ \A W : OnePer(q, W) /\ (\A g \in In(q) : ~Alike(g, f, W)) => OnePer(r, W)
    /\ Distinct(q) /\ f \notin In(q) => Distinct(r)

\* A queue grows at its end, by what is not in it yet.
LEMMA InAppend ==
  ASSUME NEW S, NEW q \in Seq(S), NEW f \in S
  PROVE  Longer(Append(q, f), q, f, S)
<1> DEFINE r == Append(q, f)
           n == Len(q)
<1>1. /\ n \in Nat /\ Len(r) = n + 1 /\ r \in Seq(S)
      /\ \A i \in 1..n : r[i] = q[i]
      /\ r[n + 1] = f
  BY AppendProperties
<1> HIDE DEF r
<1>2. In(r) = In(q) \cup {f}
  BY <1>1 DEF In
<1>3. ASSUME NEW W, OnePer(q, W), \A g \in In(q) : ~Alike(g, f, W) PROVE OnePer(r, W)
  <2>1. \A i \in 1..n : ~Alike(q[i], f, W) /\ ~Alike(f, q[i], W)
    BY <1>3, Zenon DEF In, Alike
  <2>2. \A i, j \in 1..n : Alike(q[i], q[j], W) => i = j
    BY <1>3, Zenon DEF OnePer
  <2>3. \A i \in 1..(n + 1) : i \in 1..n \/ i = n + 1
    BY ONLY n \in Nat
  <2>4. \A i, j \in 1..(n + 1) : Alike(r[i], r[j], W) => i = j
    BY ONLY <1>1, <2>1, <2>2, <2>3, Zenon
  <2>5. QED
    BY <1>1, <2>4, Zenon DEF OnePer
<1>4. ASSUME Distinct(q), f \notin In(q) PROVE Distinct(r)
  <2>1. \A i \in 1..n : q[i] # f
    BY <1>4 DEF In
  <2>2. QED
    BY <1>1, <1>4, <2>1 DEF Distinct
<1>5. Longer(r, q, f, S)
  BY <1>1, <1>2, <1>3, <1>4, Zenon DEF Longer
<1>6. QED
  BY <1>5 DEF r

\* r is the queue q without its first element.
Shorter(r, q, S) ==
    /\ Head(q) \in In(q) /\ Head(q) \in S /\ r \in Seq(S)
    /\ In(q) = In(r) \cup {Head(q)}
    /\ \A W : OnePer(q, W) => OnePer(r, W) /\ \A g \in In(r) : ~Alike(g, Head(q), W)
    /\ Distinct(q) => Distinct(r) /\ Head(q) \notin In(r)

\* It is taken from the front.
LEMMA InTail ==
  ASSUME NEW S, NEW q \in Seq(S), q # << >>
  PROVE  Shorter(Tail(q), q, S)
<1> DEFINE r == Tail(q)
           n == Len(q)
<1>1. /\ n \in Nat \ {0} /\ Len(r) = n - 1 /\ r \in Seq(S)
      /\ \A i \in 1..(n - 1) : r[i] = q[i + 1]
      /\ Head(q) = q[1] /\ Head(q) \in S
  BY HeadTailProperties, EmptySeq
<1> HIDE DEF r
<1>2. Head(q) \in In(q)
  BY <1>1 DEF In
<1>3. In(q) = In(r) \cup {Head(q)}
  <2>1. ASSUME NEW x \in In(q) PROVE x \in In(r) \cup {Head(q)}
    <3>1. PICK i \in 1..n : x = q[i]
      BY DEF In
    <3>2. CASE i = 1
      BY <1>1, <3>1, <3>2
    <3>3. CASE i # 1
      <4>1. i - 1 \in 1..(n - 1) /\ r[i - 1] = q[i]
        BY <1>1, <3>3
      <4>2. QED
        BY <1>1, <3>1, <4>1 DEF In
    <3>4. QED
      BY <3>2, <3>3
  <2>2. ASSUME NEW x \in In(r) PROVE x \in In(q)
    BY <1>1 DEF In
  <2>3. QED
    BY <1>2, <2>1, <2>2
<1>4. ASSUME NEW W, OnePer(q, W) PROVE OnePer(r, W) /\ \A g \in In(r) : ~Alike(g, Head(q), W)
  <2>1. \A i, j \in 1..(n - 1) : Alike(r[i], r[j], W) => i = j
    BY <1>1, <1>4 DEF OnePer
  <2>2. \A i \in 1..(n - 1) : ~Alike(r[i], q[1], W)
    BY <1>1, <1>4 DEF OnePer
  <2>3. QED
    BY <1>1, <2>1, <2>2 DEF OnePer, In
<1>5. ASSUME Distinct(q) PROVE Distinct(r) /\ Head(q) \notin In(r)
  <2>1. \A i, j \in 1..(n - 1) : r[i] = r[j] => i = j
    BY <1>1, <1>5 DEF Distinct
  <2>2. \A i \in 1..(n - 1) : r[i] # q[1]
    BY <1>1, <1>5 DEF Distinct
  <2>3. QED
    BY <1>1, <2>1, <2>2 DEF Distinct, In
<1>6. Shorter(r, q, S)
  BY <1>1, <1>2, <1>3, <1>4, <1>5, Zenon DEF Shorter
<1>7. QED
  BY <1>6 DEF r

\* The queue q without its k-th element.
Without(q, k) == SubSeq(q, 1, k - 1) \o SubSeq(q, k + 1, Len(q))

\* An element is taken out of the middle.
LEMMA InRemoved ==
  ASSUME NEW S, NEW q \in Seq(S), NEW k \in 1..Len(q)
  PROVE  /\ Without(q, k) \in Seq(S) /\ In(Without(q, k)) \subseteq In(q)
         /\ Distinct(q) => Distinct(Without(q, k))
<1> DEFINE a == SubSeq(q, 1, k - 1)
           b == SubSeq(q, k + 1, Len(q))
           r == Without(q, k)
           n == Len(q)
<1>1. n \in Nat /\ k \in Nat /\ 1 <= k /\ k <= n
  OBVIOUS
<1>2. a \in Seq(S) /\ Len(a) = k - 1 /\ \A i \in 1..(k - 1) : a[i] = q[i]
  BY <1>1, SubSeqProperties
<1>3. b \in Seq(S) /\ Len(b) = n - k /\ \A i \in 1..(n - k) : b[i] = q[k + i]
  BY <1>1, SubSeqProperties
<1>4. r = a \o b
  BY DEF Without
<1> HIDE DEF a, b, r
<1>5. /\ r \in Seq(S) /\ Len(r) = n - 1
      /\ \A i \in 1..(n - 1) : r[i] = IF i < k THEN q[i] ELSE q[i + 1]
  <2>1. r \in Seq(S) /\ Len(r) = (k - 1) + (n - k)
        /\ \A i \in 1..(k - 1) + (n - k) : r[i] = IF i <= k - 1 THEN a[i] ELSE b[i - (k - 1)]
    <3>1. /\ r \in Seq(S) /\ Len(r) = Len(a) + Len(b)
          /\ \A i \in 1..Len(a) + Len(b) : r[i] = IF i <= Len(a) THEN a[i] ELSE b[i - Len(a)]
      <4>1. a \in Seq(S) /\ b \in Seq(S)
        BY <1>2, <1>3
      <4>2. QED
        BY ONLY <1>4, <4>1, ConcatProperties, Zenon
    <3>2. QED
      BY <1>2, <1>3, <3>1, Zenon
  <2>2. ASSUME NEW i \in 1..(n - 1) PROVE r[i] = IF i < k THEN q[i] ELSE q[i + 1]
    <3>1. CASE i < k
      <4>1. i \in 1..(k - 1) /\ i \in 1..(k - 1) + (n - k) /\ i <= k - 1
        BY <1>1, <3>1
      <4>2. r[i] = a[i] /\ a[i] = q[i]
        BY <1>2, <2>1, <4>1, Zenon
      <4>3. QED
        BY <3>1, <4>2
    <3>2. CASE ~(i < k)
      <4>1. i - (k - 1) \in 1..(n - k) /\ k + (i - (k - 1)) = i + 1
        BY <1>1, <3>2
      <4>2. r[i] = b[i - (k - 1)]
        BY <1>1, <2>1, <3>2
      <4>3. QED
        BY <1>3, <3>2, <4>1, <4>2, Zenon
    <3>3. QED
      BY <3>1, <3>2
  <2>3. QED
    BY <1>1, <2>1, <2>2
<1>6. In(r) \subseteq In(q)
  BY <1>1, <1>5 DEF In
<1>7. ASSUME Distinct(q) PROVE Distinct(r)
  <2> SUFFICES ASSUME NEW i \in 1..(n - 1), NEW j \in 1..(n - 1), r[i] = r[j] PROVE i = j
    BY <1>5 DEF Distinct
  <2> DEFINE up(x) == IF x < k THEN x ELSE x + 1
  <2>1. r[i] = q[up(i)] /\ r[j] = q[up(j)] /\ up(i) \in 1..n /\ up(j) \in 1..n
    BY <1>1, <1>5
  <2>2. up(i) = up(j)
    BY <1>7, <2>1, Zenon DEF Distinct
  <2>3. QED
    BY <1>1, <2>2
<1>8. QED
  BY <1>5, <1>6, <1>7 DEF r

--------------------------------------------------------------------------------
(* Who is alive, and which descriptors are free.                           *)

\* The owners of a connection: connections_, a thread in forceClose(), a functor that waits, a
\* functor that has run.
LEMMA AliveIs ==
  ASSUME NEW c
  PROVE  c \in Alive <=> \/ c \in connections_ \/ c \in forcing
                         \/ \E l \in Loops : c \in held[l] \/ \E f \in In(queue[l]) : f.conn = c
  BY DEF Alive, Holds, In

\* The same after the step.
LEMMA AliveNext ==
  ASSUME NEW c
  PROVE  c \in Alive' <=> \/ c \in connections_' \/ c \in forcing'
                          \/ \E l \in Loops : c \in held'[l] \/ \E f \in In(queue'[l]) : f.conn = c
  BY DEF Alive, Holds, In

\* The loops of the pool are loops of the model, and the base loop lives.
LEMMA LoopsAre ==
  ASSUME PInv
  PROVE  /\ 0 \in Loops /\ 0..Len(loops_) \subseteq Loops
         /\ 1..Len(loops_) \subseteq IoThreads
         /\ \A i \in IoThreads : LoopAlive(i) <=> thread[i] \in {"init", "loop", "left", "cleared"}
         /\ LoopAlive(0)
  BY DEF PInv, PoolTypes, Pool, Spawned, Loops, IoThreads, LoopAlive

\* accept() returns a descriptor that nobody has.
LEMMA NewFdFree ==
  /\ NewFd \in Int
  /\ FreeFds # {} => NewFd \notin UsedFds
<1>1. FreeFds \in SUBSET Nat /\ FreeFds \cap UsedFds = {}
  BY DEF FreeFds, Fds
<1>3. CASE FreeFds = {}
  BY <1>3 DEF NewFd, NoFd
<1>4. CASE FreeFds # {}
  <2>1. NewFd \in FreeFds
    BY <1>4, Zenon DEF NewFd
  <2>2. NewFd \in Nat /\ NewFd \notin UsedFds
    BY <1>1, <2>1, Zenon
  <2>3. QED
    BY <2>2
<1>5. QED
  BY <1>3, <1>4

\* The loop a new connection gets: the base loop if there are no others; one that started,
\* or none in the place of one that user code quit while it started.
LEMMA NextLoop ==
  ASSUME PInv
  PROVE  /\ getNextLoop \in Int
         /\ \/ getNextLoop = 0
            \/ getNextLoop \in 1..Len(loops_)
            \/ ~LoopAlive(getNextLoop) /\ userQuit # {}
<1>1. CASE loops_ = << >>
  BY <1>1 DEF getNextLoop
<1>2. CASE loops_ # << >>
  <2>1. loops_ \in Seq(Int) /\ Len(loops_) \in Nat \ {0} /\ nextLoopIdx_ \in Nat
    BY <1>2, EmptySeq DEF PInv, PoolTypes
  <2> DEFINE i == nextLoopIdx_ + 1
  <2>2. i \in 1..Len(loops_) /\ getNextLoop = loops_[i]
    BY <1>2, <2>1 DEF PInv, Pool, getNextLoop
  <2>3. loops_[i] = i \/ (loops_[i] = NullLoop /\ i \in userQuit)
    BY <2>2 DEF PInv, Pool
  <2>4. ~LoopAlive(NullLoop) /\ NullLoop \in Int
    BY DEF LoopAlive, NullLoop, IoThreads
  <2>5. QED
    BY <2>2, <2>3, <2>4
<1>3. QED
  BY <1>1, <1>2

--------------------------------------------------------------------------------
(* The clients that wait.                                                  *)

\* Clients wait without a connection when the new queue and the new connections say so.
LEMMA WaitingKept ==
  ASSUME ServerTypes, Waiting, come' = come,
         In(backlog') \subseteq In(backlog), Distinct(backlog'),
         \A c \in In(backlog') \cup {d \in Clients : d > come} : conn'[c].at = "none"
  PROVE  Waiting'
  BY DEF Waiting

\* A step that accepts nobody.
LEMMA SameWaiting ==
  ASSUME ServerTypes, Waiting, UNCHANGED <<backlog, come>>,
         \A c \in Clients : conn[c].at = "none" => conn'[c].at = "none"
  PROVE  Waiting'
<1>1. In(backlog) \subseteq Clients
  BY DEF ServerTypes, In
<1>2. QED
  BY <1>1, WaitingKept DEF Waiting

\* A step that takes the first client away.
LEMMA FirstServed ==
  ASSUME ServerTypes, Waiting, come' = come, backlog # << >>, backlog' = Tail(backlog),
         \A c \in Clients \ {Head(backlog)} : conn[c].at = "none" => conn'[c].at = "none"
  PROVE  Waiting' /\ backlog' \in Seq(Clients)
<1>1. /\ Head(backlog) \in In(backlog) /\ backlog' \in Seq(Clients) /\ Head(backlog) \in Clients
      /\ In(backlog) = In(backlog') \cup {Head(backlog)}
      /\ Distinct(backlog') /\ Head(backlog) \notin In(backlog')
  <2>1. backlog \in Seq(Clients) /\ Distinct(backlog)
    BY Zenon DEF ServerTypes, Waiting
  <2>2. Shorter(backlog', backlog, Clients)
    BY <2>1, InTail, Zenon
  <2>3. QED
    BY <2>1, <2>2, Zenon DEF Shorter
<1>2. In(backlog') \subseteq Clients
  <2>1. \A i \in 1..Len(backlog') : backlog'[i] \in Clients
    BY ONLY <1>1
  <2>2. QED
    BY <2>1, Zenon DEF In
<1>3. Head(backlog) <= come
  BY <1>1 DEF Waiting
<1>4. \A c \in {d \in Clients : d > come} : c # Head(backlog)
  <2>1. come \in Int /\ Head(backlog) \in Int /\ \A d \in Clients : d \in Int
    BY <1>1 DEF ServerTypes, Clients
  <2>2. QED
    BY ONLY <1>3, <2>1
<1>5. \A c \in In(backlog') \cup {d \in Clients : d > come} : conn'[c].at = "none"
  BY <1>1, <1>2, <1>4 DEF Waiting
<1>6. QED
  BY <1>1, <1>5, WaitingKept

\* A client connects, or gives up.
LEMMA ComesAndGoes ==
  ASSUME ServerTypes, Waiting, ClientComes \/ ClientGivesUp
  PROVE  ServerTypes' /\ Waiting'
<1> USE DEF connVars, loopVars, forceVars
<1>1. CASE ClientComes
  <2>1. /\ come \in Nat /\ come + 1 \in Clients /\ come' = come + 1 /\ backlog' = Append(backlog, come + 1)
        /\ UNCHANGED <<conn, connections_, queue, held, forcing>> /\ come' \in 0..MaxClients
    BY <1>1 DEF ClientComes, ServerTypes, Clients
  <2>2. \A c \in In(backlog) : c \in Clients /\ c <= come /\ conn[c].at = "none"
    BY DEF ServerTypes, Waiting, In
  <2>3. come + 1 \notin In(backlog) /\ conn[come + 1].at = "none"
    <3>1. ~(come + 1 <= come) /\ come + 1 > come
      BY ONLY <2>1
    <3>2. QED
      BY <2>1, <2>2, <3>1, Zenon DEF Waiting
  <2>4. backlog' \in Seq(Clients) /\ In(backlog') = In(backlog) \cup {come + 1} /\ Distinct(backlog')
    <3>1. backlog \in Seq(Clients) /\ Distinct(backlog)
      BY Zenon DEF ServerTypes, Waiting
    <3>2. Longer(backlog', backlog, come + 1, Clients)
      BY <2>1, <3>1, InAppend, Zenon
    <3>3. QED
      BY <2>3, <3>1, <3>2, Zenon DEF Longer
  <2>5. ServerTypes'
    BY <2>1, <2>4 DEF ServerTypes
  <2>6. ASSUME NEW c \in In(backlog') PROVE c <= come' /\ conn'[c].at = "none"
    <3>1. CASE c = come + 1
      BY <2>1, <2>3, <3>1
    <3>2. CASE c \in In(backlog)
      <4>1. c \in Clients /\ c <= come /\ conn[c].at = "none"
        BY <2>2, <3>2, Zenon DEF Waiting
      <4>2. c <= come + 1
        BY ONLY <2>1, <4>1 DEF Clients
      <4>3. QED
        BY <2>1, <4>1, <4>2, Zenon
    <3>3. QED
      BY <2>4, <3>1, <3>2, Zenon
  <2>7. \A c \in Clients : c > come' => conn'[c].at = "none"
    BY <2>1 DEF Waiting, Clients
  <2>8. QED
    BY <2>4, <2>5, <2>6, <2>7 DEF Waiting
<1>2. CASE ClientGivesUp
  <2>1. PICK k \in 1..Len(backlog) : backlog' = Without(backlog, k)
    BY <1>2, Zenon DEF ClientGivesUp, Without
  <2>2. UNCHANGED <<conn, connections_, queue, held, come, forcing>>
    BY <1>2 DEF ClientGivesUp
  <2>3. backlog' \in Seq(Clients) /\ In(backlog') \subseteq In(backlog) /\ Distinct(backlog')
    BY <2>1, InRemoved DEF ServerTypes, Waiting
  <2>4. ServerTypes'
    BY <2>2, <2>3, Zenon DEF ServerTypes
  <2>5. \A c \in In(backlog') \cup {d \in Clients : d > come} : conn'[c].at = "none"
    BY <2>2, <2>3 DEF Waiting
  <2>6. QED
    BY <2>2, <2>3, <2>4, <2>5, WaitingKept
<1>3. QED
  BY <1>1, <1>2

--------------------------------------------------------------------------------
(* The connections and their functors.                                     *)

\* Only clients have connections.
LEMMA AliveClients ==
  ASSUME ServerTypes PROVE Alive \subseteq Clients
<1>1. \A l \in Loops : \A f \in In(queue[l]) : f.conn \in Clients
  <2>1. \A l \in Loops : queue[l] \in Seq(Functors)
    BY DEF ServerTypes
  <2>2. QED
    BY <2>1, InSeq, FunctorIs, Zenon
<1>2. /\ connections_ \subseteq Clients /\ forcing \subseteq Clients
      /\ \A l \in Loops : held[l] \subseteq Clients
  BY DEF ServerTypes
<1>3. QED
  BY <1>1, <1>2, AliveIs, Zenon

\* Descriptors stay different while no connection comes to life.
LEMMA FdsKept ==
  ASSUME DistinctFds, \A c \in Alive' : c \in Alive /\ conn'[c].fd = conn[c].fd
  PROVE  DistinctFds'
  BY Zenon DEF DistinctFds

\* A step that leaves the connections and their functors as they are.
LEMMA QuietStep ==
  ASSUME PInv, ServerTypes, Places, DistinctFds,
         UNCHANGED <<connections_, conn, queue, forcing, overwritten>>,
         Len(loops_) \in Nat, Len(loops_') \in Nat, Len(loops_) <= Len(loops_'),
         \A l \in Loops : held'[l] \subseteq held[l],
         \A l \in Loops : LoopAlive(l) => LoopAlive(l)',
         \A l \in 0..Len(loops_) : LoopAlive(l)' => LoopAlive(l),
         base = "destory" => base' = "destory"
  PROVE  Places' /\ DistinctFds'
<1>1. ASSUME NEW c \in Clients PROVE Place(c)'
  <2>1. Place(c) /\ Removing(c)' = Removing(c) /\ Destroying(c)' = Destroying(c)
    BY DEF Places, Removing, Destroying
  <2>2. conn[c].loop \in 0..Len(loops_) /\ conn[c].loop \in 0..Len(loops_')
    BY <2>1 DEF Place
  <2>3. LoopAlive(conn[c].loop)' => LoopAlive(conn[c].loop)
    BY <2>2
  <2>4. QED
    BY <2>1, <2>2, <2>3, Zenon DEF Place
<1>2. ASSUME NEW l \in Loops PROVE Queue(l)'
  <2>1. ASSUME NEW f, Sent(l, f) PROVE Sent(l, f)'
    BY <2>1, Zenon DEF Sent
  <2>2. Queue(l)
    BY DEF Places
  <2>3. QED
    BY <2>1, <2>2, Zenon DEF Queue
<1>3. \A c \in Alive' : c \in Alive /\ conn'[c].fd = conn[c].fd
  BY AliveIs, AliveNext, Zenon
<1>4. QED
  BY <1>1, <1>2, <1>3, FdsKept, Zenon DEF Places

\* Connection d stays where it is.
Alone(d) ==
    /\ d \in connections_' <=> d \in connections_
    /\ d \in forcing' <=> d \in forcing
    /\ d \in overwritten' <=> d \in overwritten

\* A step about connection c: the other connections' functors are left alone, and what c
\* is sent agrees with where c is.
Concerns(c) ==
    /\ \A d \in Clients \ {c} : conn'[d] = conn[d] /\ Alone(d)
    /\ UNCHANGED <<thread, loops_, base>> /\ overwritten \subseteq overwritten'
    /\ \A l \in Loops : \A f \in Functors : f.conn # c => (f \in In(queue'[l]) <=> f \in In(queue[l]))
    /\ \A l \in Loops : OnePer(queue'[l], overwritten)
    /\ \A l \in Loops : ~LoopAlive(l) => queue'[l] = << >> /\ held'[l] = {}
    /\ \A l \in Loops : \A f \in In(queue'[l]) : f.conn = c => Sent(l, f)'

\* A step that concerns connection c alone leaves the places of the others.
LEMMA OthersKept ==
  ASSUME PInv, ServerTypes, Places, ServerTypes', NEW c \in Clients, Concerns(c), Place(c)'
  PROVE  Places'
<1> USE DEF Concerns
<1>1. \A l : LoopAlive(l)' <=> LoopAlive(l)
  BY Zenon DEF LoopAlive
<1>2. ASSUME NEW d \in Clients \ {c} PROVE Place(d)'
  <2>1. Place(d) /\ conn'[d] = conn[d] /\ Alone(d)
    BY Zenon DEF Places
  <2>2. /\ Functor("removeConnectionInLoop", d) \in Functors /\ Functor("removeConnectionInLoop", d).conn = d
        /\ Functor("destoryConnection", d) \in Functors /\ Functor("destoryConnection", d).conn = d
    BY Zenon DEF Functor, Functors, Ops
  <2>3. conn[d].loop \in Loops /\ 0 \in Loops
    BY <2>1, LoopsAre, Zenon DEF Place
  <2>4. Removing(d)' <=> Removing(d)
    BY <2>2, <2>3, Zenon DEF Removing
  <2>5. Destroying(d)' <=> Destroying(d)
    BY <2>1, <2>2, <2>3, Zenon DEF Destroying
  <2>6. LoopAlive(conn[d].loop)' <=> LoopAlive(conn[d].loop)
    BY <1>1, <2>1, Zenon
  <2>7. (conn[d].at = "closed" =>
           \/ d \in connections_ \cup overwritten /\ conn[d].loop # 0 /\ Removing(d)
           \/ d \notin connections_ /\ (LoopAlive(conn[d].loop) => Destroying(d)))'
    BY <2>1, <2>4, <2>5, <2>6, Zenon DEF Place, Alone
  <2>8. QED
    BY <2>1, <2>7, Zenon DEF Place, Alone
<1>3. ASSUME NEW l \in Loops PROVE Queue(l)'
  <2>1. ASSUME NEW f \in In(queue'[l]), f.conn # c PROVE Sent(l, f)'
    <3>0. queue'[l] \in Seq(Functors)
      BY Zenon DEF ServerTypes
    <3>1. f \in Functors /\ f.conn \in Clients
      BY <3>0, InSeq, FunctorIs, Zenon
    <3>2. Sent(l, f)
      BY <2>1, <3>1, Zenon DEF Places, Queue
    <3>3. conn'[f.conn] = conn[f.conn] /\ Alone(f.conn)
      BY <2>1, <3>1, Zenon
    <3>4. QED
      BY <3>2, <3>3, Zenon DEF Sent, Alone
  <2>2. \A f \in In(queue'[l]) : Sent(l, f)'
    BY <2>1, Zenon
  <2>3. OnePer(queue'[l], overwritten')
    BY StillOnePer, Zenon
  <2>4. QED
    BY <1>1, <2>2, <2>3, Zenon DEF Queue
<1>4. QED
  BY <1>2, <1>3, Zenon DEF Places

\* A connection's functor is in one queue.
LEMMA OneQueue ==
  ASSUME Places, NEW l \in Loops, NEW k \in Loops, NEW f \in In(queue[l]), NEW g \in In(queue[k]),
         Alike(f, g, overwritten)
  PROVE  l = k
<1> USE DEF Alike, Tracked
<1>1. Sent(l, f) /\ Sent(k, g)
  BY Zenon DEF Places, Queue
<1>2. CASE conn[f.conn].at = "connecting"
  <2>1. l = conn[f.conn].loop
    BY <1>1, <1>2 DEF Sent
  <2>2. k = conn[f.conn].loop
    BY <1>1, <1>2 DEF Sent
  <2>3. QED
    BY <2>1, <2>2
<1>3. CASE conn[f.conn].at # "connecting" /\ f.conn \in connections_
  <2>1. l = 0
    BY <1>1, <1>3 DEF Sent
  <2>2. k = 0
    BY <1>1, <1>3, Zenon DEF Sent
  <2>3. QED
    BY <2>1, <2>2
<1>4. CASE conn[f.conn].at # "connecting" /\ f.conn \notin connections_
  <2>1. l = conn[f.conn].loop
    BY <1>1, <1>4, Zenon DEF Sent
  <2>2. k = conn[f.conn].loop
    BY <1>1, <1>4, Zenon DEF Sent
  <2>3. QED
    BY <2>1, <2>2
<1>5. QED
  BY <1>2, <1>3, <1>4, Zenon

\* A connection that nothing has been queued for by the server.
Idle(c) == conn[c].at \in {"none", "up", "shut"}

\* A connection that is not yet has no functor; one that is up has none but forceCloseInLoop.
LEMMA NoFunctor ==
  ASSUME Places, NEW c, Idle(c)
  PROVE  \A l \in Loops : \A f \in In(queue[l]) :
           f.conn = c => f.op = "forceCloseInLoop" /\ conn[c].at # "none"
<1>1. \A l \in Loops : \A f \in In(queue[l]) : Sent(l, f)
  BY Zenon DEF Places, Queue
<1>2. ASSUME NEW l \in Loops, NEW f \in In(queue[l]), f.conn = c
      PROVE  f.op = "forceCloseInLoop" /\ conn[c].at # "none"
  <2>1. Sent(l, f)
    BY <1>1, Zenon
  <2>2. QED
    BY ONLY <2>1, <1>2, Idle(c) DEF Idle, Sent
<1>3. QED
  BY <1>2, Zenon

\* The queues r and q differ in the functors of connection c only; the loops that are gone
\* have none.
Only(r, q, c) ==
    /\ r \in [Loops -> Seq(Functors)] /\ \A k \in Loops : OnePer(r[k], overwritten)
    /\ \A k \in Loops : \A h : h.conn # c => (h \in In(r[k]) <=> h \in In(q[k]))
    /\ \A k \in Loops : ~LoopAlive(k) => r[k] = << >>

\* A functor f for connection c is put into the queue of loop l.
Puts(r, q, l, f, c) ==
    /\ Only(q, queue, c) /\ l \in Loops /\ LoopAlive(l) /\ f \in Functors /\ f.conn = c
    /\ \A g \in In(q[l]) : ~Alike(g, f, overwritten)
    /\ r = [q EXCEPT ![l] = Append(@, f)]

Extends(r, q, l, f) ==
    /\ In(r[l]) = In(q[l]) \cup {f}
    /\ \A k \in Loops \ {l} : r[k] = q[k]

\* What queueing a functor does to the queues.
LEMMA Put ==
  ASSUME NEW q, NEW l, NEW f, NEW r, NEW c, Puts(r, q, l, f, c)
  PROVE  Only(r, queue, c) /\ Extends(r, q, l, f)
<1>0. Only(q, queue, c) /\ l \in Loops /\ LoopAlive(l) /\ f \in Functors /\ f.conn = c
  BY Zenon DEF Puts
<1>1. q \in [Loops -> Seq(Functors)] /\ r = [q EXCEPT ![l] = Append(@, f)]
  BY <1>0, Zenon DEF Puts, Only
<1>2. q[l] \in Seq(Functors) /\ r[l] = Append(q[l], f) /\ \A k \in Loops \ {l} : r[k] = q[k]
  BY <1>0, <1>1
<1>3. OnePer(q[l], overwritten) /\ \A g \in In(q[l]) : ~Alike(g, f, overwritten)
  BY <1>0, Zenon DEF Puts, Only
<1>4. r[l] \in Seq(Functors) /\ In(r[l]) = In(q[l]) \cup {f} /\ OnePer(r[l], overwritten)
  <2>1. Longer(r[l], q[l], f, Functors)
    BY <1>0, <1>2, InAppend, Zenon
  <2>2. QED
    BY <1>3, <2>1, Zenon DEF Longer
<1>5. r \in [Loops -> Seq(Functors)]
  BY <1>0, <1>1, <1>2, <1>4
<1>6. \A k \in Loops : OnePer(r[k], overwritten)
  BY <1>0, <1>2, <1>4, Zenon DEF Only
<1>7. \A k \in Loops : \A h : h.conn # c => (h \in In(r[k]) <=> h \in In(queue[k]))
  <2>1. \A k \in Loops : \A h : h.conn # c => (h \in In(r[k]) <=> h \in In(q[k]))
    BY <1>0, <1>2, <1>4, Zenon
  <2>2. QED
    BY <1>0, <2>1, Zenon DEF Only
<1>8. \A k \in Loops : ~LoopAlive(k) => r[k] = << >>
  BY <1>0, <1>2, Zenon DEF Only
<1>9. QED
  BY <1>2, <1>4, <1>5, <1>6, <1>7, <1>8, Zenon DEF Only, Extends

\* One is taken from it.
Takes(r, q, l) ==
    /\ q \in [Loops -> Seq(Functors)] /\ l \in Loops
    /\ \A k \in Loops : OnePer(q[k], overwritten)
    /\ q[l] # << >> /\ r = [q EXCEPT ![l] = Tail(@)]

Shrinks(r, q, l, f) ==
    /\ r \in [Loops -> Seq(Functors)] /\ \A k \in Loops : OnePer(r[k], overwritten)
    /\ f \in In(q[l]) /\ f \in Functors
    /\ In(q[l]) = In(r[l]) \cup {f}
    /\ \A g \in In(r[l]) : ~Alike(g, f, overwritten)
    /\ \A k \in Loops \ {l} : r[k] = q[k]

\* What taking a functor does to the queues.
LEMMA Took ==
  ASSUME NEW q, NEW l, NEW r, Takes(r, q, l)
  PROVE  Shrinks(r, q, l, Head(q[l]))
<1>1. q[l] \in Seq(Functors) /\ r[l] = Tail(q[l]) /\ q[l] # << >> /\ OnePer(q[l], overwritten)
  BY Zenon DEF Takes
<1>2. /\ r[l] \in Seq(Functors) /\ In(q[l]) = In(r[l]) \cup {Head(q[l])} /\ OnePer(r[l], overwritten)
      /\ Head(q[l]) \in In(q[l]) /\ Head(q[l]) \in Functors
      /\ \A g \in In(r[l]) : ~Alike(g, Head(q[l]), overwritten)
  <2>1. Shorter(r[l], q[l], Functors)
    BY <1>1, InTail, Zenon
  <2>2. QED
    BY <1>1, <2>1, Zenon DEF Shorter
<1>3. QED
  BY <1>1, <1>2, Zenon DEF Takes, Shrinks

\* What is assumed before a step of a running process, and shown after it.
Live == PInv /\ ServerTypes /\ Waiting /\ Places /\ DistinctFds
Kept == ServerTypes' /\ (Running' => Waiting' /\ Places' /\ DistinctFds')

\* What a running server is made of, in the form the steps use.
LEMMA LiveTypes ==
  ASSUME Live
  PROVE  /\ queue \in [Loops -> Seq(Functors)] /\ held \in [Loops -> SUBSET Clients]
         /\ conn \in [Clients -> [at : Ats, fd : Int, loop : Int]]
         /\ connections_ \subseteq Clients /\ forcing \subseteq Clients
         /\ \A k \in Loops : OnePer(queue[k], overwritten)
         /\ \A k \in Loops : ~LoopAlive(k) => queue[k] = << >> /\ held[k] = {}
         /\ \A k \in Loops : \A f \in In(queue[k]) : f \in Functors /\ f.conn \in Clients /\ Sent(k, f)
         /\ \A c \in Clients : Place(c) /\ conn[c].loop \in Loops
         /\ \A c : Only(queue, queue, c)
<1>1. /\ queue \in [Loops -> Seq(Functors)] /\ held \in [Loops -> SUBSET Clients]
      /\ conn \in [Clients -> [at : Ats, fd : Int, loop : Int]]
      /\ connections_ \subseteq Clients /\ forcing \subseteq Clients
  BY DEF Live, ServerTypes
<1>2. \A k \in Loops : Queue(k)
  BY Zenon DEF Live, Places
<1>3. \A c \in Clients : Place(c) /\ conn[c].loop \in Loops
  <2>1. \A c \in Clients : Place(c)
    BY DEF Live, Places
  <2>2. \A c \in Clients : conn[c].loop \in 0..Len(loops_)
    BY <2>1, Zenon DEF Place
  <2>3. QED
    BY <2>1, <2>2, LoopsAre DEF Live
<1>4. \A k \in Loops : \A f \in In(queue[k]) : f \in Functors /\ f.conn \in Clients /\ Sent(k, f)
  BY <1>1, <1>2, InSeq, FunctorIs DEF Queue
<1>5. /\ \A k \in Loops : OnePer(queue[k], overwritten)
      /\ \A k \in Loops : ~LoopAlive(k) => queue[k] = << >> /\ held[k] = {}
  BY <1>2, Zenon DEF Queue
<1>6. \A c : Only(queue, queue, c)
  BY <1>1, <1>5, Zenon DEF Only
<1>7. QED
  BY <1>1, <1>3, <1>4, <1>5, <1>6, Zenon

\* newConnectionCallback.
LEMMA AcceptKeeps ==
  ASSUME Live, Accept
  PROVE  Kept
<1> USE DEF threadVars, acceptorVars, forceVars
<1> PICK c : c = Head(backlog)
  OBVIOUS
<1> PICK g : g = getNextLoop
  OBVIOUS
<1> PICK f : f = Functor("establishConnection", c)
  OBVIOUS
<1> DEFINE at == IF g = 0 THEN "up" ELSE "connecting"
<1>1. /\ backlog # << >> /\ FreeFds # {} /\ backlog' = Tail(backlog) /\ come' = come
      /\ connections_' = connections_ \cup {c}
      /\ conn' = [conn EXCEPT ![c] = [at |-> at, fd |-> NewFd, loop |-> g]]
      /\ UNCHANGED <<thread, loops_, base, held, forcing, overwritten>>
  BY Zenon DEF Accept, newConnectionCallback, AcceptEvent
<1>2. /\ c \in Clients /\ c \in In(backlog) /\ conn[c].at = "none"
  <2>1. c \in Clients /\ c \in In(backlog)
    <3>1. backlog \in Seq(Clients)
      BY Zenon DEF Live, ServerTypes
    <3>2. Shorter(Tail(backlog), backlog, Clients)
      BY <1>1, <3>1, InTail, Zenon
    <3>3. QED
      BY <3>2, Zenon DEF Shorter
  <2>2. QED
    BY <2>1, Zenon DEF Live, Waiting
<1>3. g \in Int /\ (g = 0 \/ g \in 1..Len(loops_) \/ ~LoopAlive(g))
  BY NextLoop DEF Live
<1>4. /\ g = 0 => queue' = queue /\ aborted' = aborted
      /\ g # 0 => QueueInLoop(g, f)
  BY DEF Accept, newConnectionCallback
<1>5. NewFd \in Int /\ NewFd \notin UsedFds
  BY <1>1, NewFdFree
<1> HIDE DEF at
<1>6. f \in Functors /\ f.conn = c /\ f.op = "establishConnection"
  BY <1>2, FunctorIs, Zenon DEF Ops
<1>7. \A k \in Loops : \A h \in In(queue[k]) : h.conn # c
  <2>1. Idle(c) /\ Places
    BY <1>2 DEF Live, Idle
  <2>2. QED
    BY <1>2, <2>1, NoFunctor, Zenon
<1>8. \/ queue' = queue
      \/ /\ g \in 1..Len(loops_) /\ g \in Loops /\ LoopAlive(g)
         /\ queue' = [queue EXCEPT ![g] = Append(@, f)]
  BY <1>3, <1>4, LoopsAre DEF QueueInLoop, Live
<1>9. /\ queue' \in [Loops -> Seq(Functors)] /\ \A k \in Loops : OnePer(queue'[k], overwritten)
      /\ \A k \in Loops \ {g} : queue'[k] = queue[k]
      /\ g \in Loops => In(queue'[g]) = In(queue[g]) \/ In(queue'[g]) = In(queue[g]) \cup {f}
  <2>1. /\ queue \in [Loops -> Seq(Functors)] /\ \A k \in Loops : OnePer(queue[k], overwritten)
        /\ Only(queue, queue, c)
    BY LiveTypes, Zenon
  <2>2. CASE queue' = queue
    BY <2>1, <2>2, Zenon
  <2>3. CASE g \in Loops /\ LoopAlive(g) /\ queue' = [queue EXCEPT ![g] = Append(@, f)]
    <3>1. \A h \in In(queue[g]) : ~Alike(h, f, overwritten)
      BY <1>6, <1>7, <2>3, Zenon DEF Alike
    <3>2. Puts(queue', queue, g, f, c)
      BY <1>6, <2>1, <2>3, <3>1, Zenon DEF Puts
    <3>3. QED
      <4>1. Only(queue', queue, c) /\ Extends(queue', queue, g, f)
        BY <3>2, Put, Zenon
      <4>2. QED
        BY <4>1, Zenon DEF Only, Extends
  <2>4. QED
    BY <1>8, <2>2, <2>3, Zenon
<1>10. Waiting' /\ backlog' \in Seq(Clients)
  <2>1. \A d \in Clients \ {c} : conn'[d] = conn[d]
    BY <1>1, LiveTypes, Zenon
  <2>2. QED
    BY <1>1, <2>1, FirstServed DEF Live
<1>11. ServerTypes'
  <2>1. [at |-> at, fd |-> NewFd, loop |-> g] \in [at : Ats, fd : Int, loop : Int]
    BY <1>3, <1>5 DEF Ats, at
  <2>2. conn' \in [Clients -> [at : Ats, fd : Int, loop : Int]]
    BY <1>1, <1>2, <2>1, LiveTypes, Zenon
  <2>3. connections_' \subseteq Clients
    BY <1>1, <1>2, LiveTypes, Zenon
  <2>4. QED
    BY <1>1, <1>9, <1>10, <2>2, <2>3, Zenon DEF ServerTypes, Live
<1>12. ASSUME Running' PROVE Places'
  <2>1. g = 0 \/ (g \in 1..Len(loops_) /\ g # 0 /\ LoopAlive(g) /\ queue' = [queue EXCEPT ![g] = Append(@, f)])
    BY <1>3, <1>4, <1>12 DEF QueueInLoop, Running
  <2>2. conn'[c] = [at |-> at, fd |-> NewFd, loop |-> g] /\ c \in connections_'
    BY <1>1, <1>2, LiveTypes
  <2>a. conn'[c].at = at /\ conn'[c].loop = g
    <3>1. conn'[c] = Record(at, NewFd, g)
      BY <2>2, Zenon DEF Record
    <3>2. Record(at, NewFd, g).at = at /\ Record(at, NewFd, g).loop = g
      BY ONLY RecordIs
    <3>3. QED
      BY ONLY <3>1, <3>2, Zenon
  <2>3. Place(c)'
    <3>1. Len(loops_) \in Nat
      BY DEF Live, PInv, PoolTypes
    <3>2. conn'[c].at = at /\ conn'[c].loop = g /\ g \in 0..Len(loops_)
      <4>1. g \in 0..Len(loops_)
        BY ONLY <2>1, <3>1
      <4>2. QED
        BY <2>a, <4>1, Zenon
    <3>3. /\ conn'[c].at = "up" \/ (conn'[c].at = "connecting" /\ g # 0)
          /\ conn'[c].loop \in 0..Len(loops_')
      BY <1>1, <3>2, Zenon DEF at
    <3>4. conn'[c].at \notin {"none", "closed", "destroyed"}
      BY <3>3, Zenon
    <3>5. c \notin forcing' /\ c \notin overwritten'
      <4>1. Place(c)
        BY <1>2, LiveTypes, Zenon
      <4>2. QED
        BY <1>1, <1>2, <4>1, Zenon DEF Place
    <3>6. QED
      BY <2>2, <3>2, <3>3, <3>4, <3>5, Zenon DEF Place
  <2>4. ASSUME NEW k \in Loops, NEW h \in In(queue'[k]), h.conn = c PROVE Sent(k, h)'
    <3>1. k = g /\ g # 0 /\ h = f
      BY <1>4, <1>7, <1>9, <2>4, Zenon
    <3>2. at = "connecting"
      BY <3>1 DEF at
    <3>3. QED
      BY <1>6, <2>a, <3>1, <3>2, Zenon DEF Sent
  <2>5. \A k \in Loops : \A h \in Functors : h.conn # c => (h \in In(queue'[k]) <=> h \in In(queue[k]))
    BY <1>6, <1>9, Zenon
  <2>6. \A k \in Loops : ~LoopAlive(k) => queue'[k] = << >> /\ held'[k] = {}
    <3>1. \A k \in Loops : ~LoopAlive(k) => queue'[k] = queue[k]
      BY <1>4, <1>9, <2>1
    <3>2. QED
      BY <1>1, <3>1, LiveTypes, Zenon
  <2>7. \A d \in Clients \ {c} : conn'[d] = conn[d] /\ Alone(d)
    BY <1>1, LiveTypes, Zenon DEF Alone
  <2>8. PInv /\ ServerTypes /\ Places
    BY DEF Live
  <2>9. Concerns(c)
    BY <1>1, <1>9, <2>4, <2>5, <2>6, <2>7, Zenon DEF Concerns
  <2>10. QED
    BY <1>2, <1>11, <2>3, <2>8, <2>9, OthersKept, Zenon
<1>13. DistinctFds'
  <2>1. \A d \in Alive' : d = c \/ (d \in Alive /\ d \in Clients \ {c})
    <3>1. \A k \in Loops : \A h \in In(queue'[k]) : h.conn = c \/ h \in In(queue[k])
      BY <1>6, <1>9, Zenon
    <3>2. Alive \subseteq Clients
      BY AliveClients DEF Live
    <3>3. QED
      BY <1>1, <3>1, <3>2, AliveIs, AliveNext, Zenon
  <2>2. conn'[c].fd = NewFd /\ \A d \in Clients \ {c} : conn'[d].fd = conn[d].fd
    BY <1>1, <1>2, LiveTypes, Zenon
  <2>3. \A d \in Alive : conn[d].fd # NewFd
    BY <1>5 DEF UsedFds
  <2>4. QED
    BY <2>1, <2>2, <2>3, Zenon DEF DistinctFds, Live
<1>14. QED
  BY <1>10, <1>11, <1>12, <1>13 DEF Kept

\* A connection alive after a step that adds none was alive before it, with its descriptor.
LEMMA AliveKept ==
  ASSUME Live, NEW c \in Clients, c \in Alive,
         connections_' \subseteq connections_ \cup {c}, forcing' \subseteq forcing \cup {c},
         \A l \in Loops : held'[l] \subseteq held[l] \cup {c},
         \A l \in Loops : \A f \in In(queue'[l]) : f.conn = c \/ f \in In(queue[l]),
         \A d \in Clients : conn'[d].fd = conn[d].fd
  PROVE  DistinctFds'
<1>1. ASSUME NEW d \in Alive', d # c PROVE d \in Alive
  <2>1. CASE d \in connections_' \/ d \in forcing'
    BY <1>1, <2>1, AliveIs, Zenon
  <2>2. ASSUME NEW l \in Loops, d \in held'[l] PROVE d \in Alive
    <3>1. d \in held[l]
      BY <1>1, <2>2, Zenon
    <3>2. QED
      BY <3>1, AliveIs, Zenon
  <2>3. ASSUME NEW l \in Loops, NEW f \in In(queue'[l]), f.conn = d PROVE d \in Alive
    <3>1. f \in In(queue[l])
      BY <1>1, <2>3, Zenon
    <3>2. QED
      BY <2>3, <3>1, AliveIs, Zenon
  <2>4. QED
    BY <1>1, <2>1, <2>2, <2>3, AliveNext, Zenon
<1>2. Alive \subseteq Clients /\ DistinctFds
  BY AliveClients, Zenon DEF Live
<1>3. QED
  BY <1>1, <1>2, FdsKept, Zenon

\* A step about connection c, which keeps its descriptor and its loop.
Holding(c) ==
    /\ held' \in [Loops -> SUBSET Clients] /\ \A k \in Loops : held'[k] \subseteq held[k] \cup {c}
    /\ \A k \in Loops : ~LoopAlive(k) => held'[k] = {}

Touches(c) ==
    /\ conn' = conn \/ \E at \in Ats : conn' = [conn EXCEPT ![c].at = at]
    /\ connections_' \subseteq connections_ /\ connections_ \subseteq connections_' \cup {c}
    /\ forcing' \subseteq forcing \cup {c} /\ forcing \subseteq forcing' \cup {c}
    /\ overwritten \subseteq overwritten' /\ overwritten' \subseteq overwritten \cup {c}
    /\ UNCHANGED <<thread, loops_, base, backlog, come>>

\* What it leaves of c.
Agrees(c) == Place(c)' /\ \A k \in Loops : \A h \in In(queue'[k]) : h.conn = c => Sent(k, h)'

\* Its other values.
TouchedIs(c) ==
    /\ ServerTypes' /\ \A d \in Clients \ {c} : conn'[d] = conn[d] /\ Alone(d)
    /\ \A d \in Clients : conn'[d].fd = conn[d].fd

\* Such a step keeps the types and leaves the other connections.
LEMMA TouchedTypes ==
  ASSUME Live, NEW c \in Clients, Touches(c), Holding(c), queue' \in [Loops -> Seq(Functors)]
  PROVE  TouchedIs(c)
<1>1. /\ conn' \in [Clients -> [at : Ats, fd : Int, loop : Int]]
      /\ \A d \in Clients \ {c} : conn'[d] = conn[d]
      /\ \A d \in Clients : conn'[d].fd = conn[d].fd
  <2>1. conn \in [Clients -> [at : Ats, fd : Int, loop : Int]]
    BY LiveTypes, Zenon
  <2>2. ASSUME NEW at \in Ats, conn' = [conn EXCEPT ![c].at = at]
        PROVE  /\ conn' \in [Clients -> [at : Ats, fd : Int, loop : Int]]
               /\ \A d \in Clients \ {c} : conn'[d] = conn[d]
               /\ \A d \in Clients : conn'[d].fd = conn[d].fd
    BY ONLY <2>1, <2>2, c \in Clients, SMTT(30)
  <2>3. conn' = conn \/ \E at \in Ats : conn' = [conn EXCEPT ![c].at = at]
    BY Zenon DEF Touches
  <2>4. QED
    BY <2>1, <2>2, <2>3, Zenon
<1>2. connections_' \subseteq Clients /\ forcing' \subseteq Clients
  BY LiveTypes, Zenon DEF Touches
<1>3. UNCHANGED <<backlog, come>> /\ held' \in [Loops -> SUBSET Clients]
  BY DEF Touches, Holding
<1>4. ServerTypes'
  BY <1>1, <1>2, <1>3, Zenon DEF ServerTypes, Live
<1>5. \A d \in Clients \ {c} : Alone(d)
  BY Zenon DEF Touches, Alone
<1>6. QED
  BY <1>1, <1>4, <1>5, Zenon DEF TouchedIs

\* Connection c moves on, in agreement with its functors.
LEMMA MovesOn ==
  ASSUME Live, NEW c \in Clients, c \in Alive, conn[c].at # "none",
         Touches(c), Holding(c), Only(queue', queue, c), Agrees(c)
  PROVE  Kept
<1>1. /\ queue' \in [Loops -> Seq(Functors)] /\ \A k \in Loops : OnePer(queue'[k], overwritten)
      /\ \A k \in Loops : \A h : h.conn # c => (h \in In(queue'[k]) <=> h \in In(queue[k]))
      /\ \A k \in Loops : ~LoopAlive(k) => queue'[k] = << >> /\ held'[k] = {}
  BY Zenon DEF Only, Holding
<1>2. TouchedIs(c)
  BY <1>1, TouchedTypes, Zenon
<1>3. /\ ServerTypes' /\ \A d \in Clients \ {c} : conn'[d] = conn[d] /\ Alone(d)
      /\ \A d \in Clients : conn'[d].fd = conn[d].fd
  BY <1>2, Zenon DEF TouchedIs
<1>4. /\ UNCHANGED <<thread, loops_, base, backlog, come>> /\ overwritten \subseteq overwritten'
      /\ connections_' \subseteq connections_ \cup {c} /\ forcing' \subseteq forcing \cup {c}
  BY Zenon DEF Touches
<1>5. PInv /\ ServerTypes /\ Places /\ Waiting
  BY Zenon DEF Live
<1>6. Waiting'
  <2>1. \A d \in Clients : conn[d].at = "none" => conn'[d].at = "none"
    BY <1>3, Zenon
  <2>2. QED
    BY <1>4, <1>5, <2>1, SameWaiting, Zenon
<1>7. Concerns(c)
  BY <1>1, <1>3, <1>4, Zenon DEF Concerns, Agrees
<1>8. Places'
  BY <1>3, <1>5, <1>7, OthersKept, Zenon DEF Agrees
<1>9. DistinctFds'
  <2>1. \A k \in Loops : \A h \in In(queue'[k]) : h.conn = c \/ h \in In(queue[k])
    BY <1>1, Zenon
  <2>2. \A k \in Loops : held'[k] \subseteq held[k] \cup {c}
    BY Zenon DEF Holding
  <2>3. QED
    BY <1>3, <1>4, <2>1, <2>2, AliveKept, Zenon
<1>10. QED
  BY <1>3, <1>6, <1>8, <1>9, Zenon DEF Kept

\* The functors that are held stay as they are, or one more is.
LEMMA HeldKept ==
  ASSUME Live, NEW c \in Clients,
         \/ held' = held
         \/ \E l \in Loops : LoopAlive(l) /\ held' = [held EXCEPT ![l] = @ \cup {c}]
  PROVE  Holding(c)
<1>1. held \in [Loops -> SUBSET Clients] /\ \A k \in Loops : ~LoopAlive(k) => held[k] = {}
  BY LiveTypes, Zenon
<1>2. CASE held' = held
  BY <1>1, <1>2 DEF Holding
<1>3. ASSUME NEW l \in Loops, LoopAlive(l), held' = [held EXCEPT ![l] = @ \cup {c}] PROVE Holding(c)
  BY <1>1, <1>3 DEF Holding
<1>4. QED
  BY <1>2, <1>3

\* An aborted process needs no more than its types.
LEMMA AbortKept ==
  ASSUME Live, NEW c \in Clients, Touches(c), Holding(c), queue' \in [Loops -> Seq(Functors)],
         aborted' # "no"
  PROVE  Kept
  BY TouchedTypes, Zenon DEF Kept, Running, TouchedIs

\* What handleClose assumes of the functors q that are left to run.
Closes(c, q) ==
    /\ Only(q, queue, c) /\ \A k \in Loops : In(q[k]) \subseteq In(queue[k])
    /\ conn[c].at \in {"up", "shut"} \/ c \in overwritten
    /\ handleClose(c, q)
    /\ UNCHANGED <<thread, loops_, base, backlog, come, forcing, overwritten>>

\* handleClose, the first or the second of a connection.
LEMMA ClosesKeeps ==
  ASSUME Live, NEW c \in Clients, c \in Alive, NEW q, Closes(c, q), Holding(c)
  PROVE  Kept /\ aborted' = aborted
<1>l. PICK l : l = conn[c].loop
  OBVIOUS
<1>f. PICK f : f = Functor(IF l = 0 THEN "destoryConnection" ELSE "removeConnectionInLoop", c)
  OBVIOUS
<1>1. /\ conn' = [conn EXCEPT ![c].at = "closed"] /\ aborted' = aborted
      /\ queue' = [q EXCEPT ![0] = Append(@, f)]
      /\ connections_' = IF l = 0 THEN connections_ \ {c} ELSE connections_
  BY <1>l, <1>f DEF Closes, handleClose, At, removeConnectionInLoop, LoopAlive
<1>2. UNCHANGED <<thread, loops_, base, backlog, come, forcing, overwritten>>
  BY Zenon DEF Closes
<1>3. /\ Place(c) /\ LoopAlive(0) /\ 0 \in Loops /\ l \in Loops
      /\ conn \in [Clients -> [at : Ats, fd : Int, loop : Int]]
  BY <1>l, LiveTypes, LoopsAre, Zenon DEF Live
<1>4. /\ f \in Functors /\ f.conn = c
      /\ f.op = IF l = 0 THEN "destoryConnection" ELSE "removeConnectionInLoop"
  BY <1>f, FunctorIs DEF Ops
<1>5. l \in 0..Len(loops_) /\ conn[c].at # "none" /\ (c \in connections_ \/ c \in overwritten)
  BY <1>l, <1>3, Zenon DEF Place, Closes
<1>6. conn'[c].at = "closed" /\ conn'[c].loop = l
  BY <1>1, <1>3, <1>l
<1>7. ASSUME NEW k \in Loops, NEW h \in In(q[k]), h.conn = c
      PROVE  ~Alike(h, f, overwritten) /\ Sent(k, h)'
  <2>1. Sent(k, h) /\ h \in In(queue[k])
    BY LiveTypes, Zenon DEF Closes
  <2>2. CASE c \in overwritten
    <3>1. conn[c].at \in {"closed", "destroyed"}
      BY <1>3, <2>2, Zenon DEF Place
    <3>2. ~Alike(h, f, overwritten)
      BY <1>4, <2>2, Zenon DEF Alike, Tracked
    <3>3. c \in overwritten' /\ (c \notin connections_ => c \notin connections_')
      BY <1>1, <1>2, <2>2
    <3>4. Sent(k, h)'
      BY <1>6, <1>7, <1>l, <2>1, <3>1, <3>3, Zenon DEF Sent
    <3>5. QED
      BY <3>2, <3>4
  <2>3. CASE c \notin overwritten
    <3>1. conn[c].at \in {"up", "shut"}
      BY <2>3, Zenon DEF Closes
    <3>2. h.op = "forceCloseInLoop"
      <4>1. Idle(c) /\ Places
        BY <3>1 DEF Live, Idle
      <4>2. QED
        BY <1>7, <2>1, <4>1, NoFunctor, Zenon
    <3>3. Sent(k, h)'
      BY <1>6, <1>7, <1>l, <2>1, <3>2, Zenon DEF Sent
    <3>4. QED
      BY <3>2, <3>3, Zenon DEF Alike, Tracked
  <2>4. QED
    BY <2>2, <2>3
<1>8. Only(queue', queue, c) /\ Extends(queue', q, 0, f)
  <2>1. \A g \in In(q[0]) : ~Alike(g, f, overwritten)
    BY <1>3, <1>4, <1>7, Zenon DEF Alike
  <2>2. Only(q, queue, c)
    BY Zenon DEF Closes
  <2>3. Puts(queue', q, 0, f, c)
    BY <1>1, <1>3, <1>4, <2>1, <2>2, Zenon DEF Puts
  <2>4. QED
    BY <2>3, Put, Zenon
<1>9. Place(c)'
  <2>1. f \in In(queue'[0])
    BY <1>8, Zenon DEF Extends
  <2>2. CASE l = 0
    <3>1. c \notin connections_' /\ f = Functor("destoryConnection", c)
      BY <1>1, <1>f, <2>2
    <3>2. Destroying(c)'
      BY <1>6, <2>1, <2>2, <3>1, Zenon DEF Destroying
    <3>3. QED
      BY <1>2, <1>5, <1>6, <3>1, <3>2, Zenon DEF Place
  <2>3. CASE l # 0
    <3>1. c \in connections_' \cup overwritten' /\ f = Functor("removeConnectionInLoop", c)
      BY <1>1, <1>2, <1>5, <1>f, <2>3
    <3>2. Removing(c)'
      BY <2>1, <3>1, Zenon DEF Removing
    <3>3. QED
      BY <1>2, <1>5, <1>6, <2>3, <3>1, <3>2, Zenon DEF Place
  <2>4. QED
    BY <2>2, <2>3
<1>10. Sent(0, f)'
  <2>1. l = 0 => c \notin connections_'
    BY <1>1
  <2>2. l # 0 /\ c \notin overwritten' => c \in connections_'
    BY <1>1, <1>2, <1>5
  <2>3. QED
    BY <1>4, <1>6, <2>1, <2>2, Zenon DEF Sent
<1>11. \A k \in Loops : \A h \in In(queue'[k]) : h.conn = c => Sent(k, h)'
  <2>1. ASSUME NEW k \in Loops, NEW h \in In(queue'[k]), h.conn = c PROVE Sent(k, h)'
    <3>1. h \in In(q[k]) \/ (k = 0 /\ h = f)
      BY <1>8, Zenon DEF Extends
    <3>2. QED
      BY <1>7, <1>10, <2>1, <3>1, Zenon
  <2>2. QED
    BY <2>1
<1>12. Touches(c)
  <2>1. connections_' \subseteq connections_ /\ connections_ \subseteq connections_' \cup {c}
    BY <1>1
  <2>2. \E at \in Ats : conn' = [conn EXCEPT ![c].at = at]
    <3>1. "closed" \in Ats
      BY DEF Ats
    <3>2. QED
      BY <1>1, <3>1, Zenon
  <2>3. QED
    BY <1>2, <2>1, <2>2, Zenon DEF Touches
<1>13. Kept
  BY <1>5, <1>8, <1>9, <1>11, <1>12, MovesOn, Zenon DEF Agrees
<1>14. QED
  BY <1>1, <1>13

\* handleClose in the handler of an event.
LEMMA HandleCloseKeeps ==
  ASSUME Live, NEW c \in Clients, HandleClose(c)
  PROVE  Kept /\ aborted' = aborted
<1> USE DEF threadVars, acceptorVars, clientVars, poolVars, forceVars
<1>1. /\ conn[c].at \in {"up", "shut"} /\ handleClose(c, queue) /\ held' = held
      /\ UNCHANGED <<thread, loops_, base, backlog, come, forcing, overwritten>>
  BY Zenon DEF HandleClose
<1>2. Place(c) /\ Only(queue, queue, c)
  BY LiveTypes, Zenon
<1>3. c \in Alive
  <2>1. c \in connections_
    BY <1>1, <1>2, Zenon DEF Place
  <2>2. QED
    BY <2>1, AliveIs, Zenon
<1>4. Closes(c, queue)
  BY <1>1, <1>2, Zenon DEF Closes
<1>5. Holding(c)
  BY <1>1, HeldKept, Zenon
<1>6. QED
  BY <1>3, <1>4, <1>5, ClosesKeeps, Zenon

\* The functor f for connection c, taken from the queue of loop l, was sent for it.
Runs(l, f, c, q) == LoopRuns(l) /\ f = Head(queue[l]) /\ c = f.conn /\ Takes(q, queue, l)

Taken(l, f, c, q) ==
    /\ f \in In(queue[l]) /\ f \in Functors /\ c \in Clients /\ Sent(l, f) /\ LoopAlive(l)
    /\ Only(q, queue, c)
    /\ \A k \in Loops : In(q[k]) \subseteq In(queue[k]) /\ In(queue[k]) \subseteq In(q[k]) \cup {f}
    /\ \A k \in Loops : \A h \in In(q[k]) : ~Alike(h, f, overwritten)

\* What a loop takes is for a connection it was sent for, and no other tracked functor is.
LEMMA TakenFunctor ==
  ASSUME Live, NEW l \in Loops, NEW f, NEW c, NEW q, Runs(l, f, c, q)
  PROVE  Taken(l, f, c, q)
<1>0. LoopRuns(l) /\ f = Head(queue[l]) /\ c = f.conn
  BY DEF Runs
<1>1. Takes(q, queue, l)
  BY DEF Runs
<1>2. /\ q \in [Loops -> Seq(Functors)] /\ \A k \in Loops : OnePer(q[k], overwritten)
      /\ f \in In(queue[l]) /\ f \in Functors
      /\ In(queue[l]) = In(q[l]) \cup {f}
      /\ \A h \in In(q[l]) : ~Alike(h, f, overwritten)
      /\ \A k \in Loops \ {l} : q[k] = queue[k]
  <2>1. Shrinks(q, queue, l, f)
    BY <1>0, <1>1, Took, Zenon
  <2>2. QED
    BY <2>1, Zenon DEF Shrinks
<1>3. f.conn \in Clients /\ Sent(l, f)
  BY <1>2, LiveTypes, Zenon
<1>4. LoopAlive(l)
  <2>1. CASE l = 0
    BY <2>1 DEF LoopAlive
  <2>2. CASE l # 0
    BY <1>0, <2>2 DEF LoopAlive, LoopRuns, Loops, IoThreads
  <2>3. QED
    BY <2>1, <2>2
<1>5. \A k \in Loops : In(q[k]) \subseteq In(queue[k]) /\ In(queue[k]) \subseteq In(q[k]) \cup {f}
  BY <1>2, Zenon
<1>6. \A k \in Loops : \A h \in In(q[k]) : ~Alike(h, f, overwritten)
  <2>1. \A k \in Loops \ {l} : \A h \in In(queue[k]) : ~Alike(h, f, overwritten)
    BY <1>2, OneQueue, Zenon DEF Live
  <2>2. QED
    BY <1>2, <2>1, Zenon
<1>7. \A k \in Loops : \A h : h.conn # c => (h \in In(q[k]) <=> h \in In(queue[k]))
  BY <1>0, <1>5, Zenon
<1>8. \A k \in Loops : ~LoopAlive(k) => q[k] = << >>
  BY <1>2, <1>4, LiveTypes, Zenon
<1>9. Only(q, queue, c)
  BY <1>2, <1>7, <1>8, Zenon DEF Only
<1>10. QED
  BY <1>0, <1>2, <1>3, <1>4, <1>5, <1>6, <1>9, Zenon DEF Taken

\* A loop has run the functor f, with the functors q left.
Ran(l, f, c, q) ==
    /\ Taken(l, f, c, q) /\ c = f.conn /\ held' = [held EXCEPT ![l] = @ \cup {c}]
    /\ UNCHANGED <<thread, loops_, base, backlog, come, forcing, overwritten>>

RanIs(l, f, c, q) ==
    /\ c \in Clients /\ c \in Alive /\ Holding(c) /\ Only(q, queue, c) /\ Sent(l, f)
    /\ Place(c) /\ conn[c].loop \in 0..Len(loops_) /\ conn[c].loop \in Loops
    /\ conn \in [Clients -> [at : Ats, fd : Int, loop : Int]]
    /\ \A k \in Loops : In(q[k]) \subseteq In(queue[k]) /\ In(queue[k]) \subseteq In(q[k]) \cup {f}
    /\ \A k \in Loops : \A h \in In(q[k]) :
         h.conn = c => Sent(k, h) /\ (Tracked(f, overwritten) => h.op = "forceCloseInLoop")

\* What is known then.
LEMMA RanFunctor ==
  ASSUME Live, NEW l \in Loops, NEW f, NEW c, NEW q, Ran(l, f, c, q)
  PROVE  RanIs(l, f, c, q)
<1>1. Taken(l, f, c, q) /\ c = f.conn /\ held' = [held EXCEPT ![l] = @ \cup {c}]
  BY Zenon DEF Ran
<1>2. /\ f \in In(queue[l]) /\ f \in Functors /\ c \in Clients /\ Sent(l, f) /\ LoopAlive(l)
      /\ Only(q, queue, c)
      /\ \A k \in Loops : In(q[k]) \subseteq In(queue[k]) /\ In(queue[k]) \subseteq In(q[k]) \cup {f}
      /\ \A k \in Loops : \A h \in In(q[k]) : ~Alike(h, f, overwritten)
  BY <1>1, Zenon DEF Taken
<1>3. c \in Alive
  BY <1>1, <1>2, AliveIs, Zenon
<1>4. Holding(c)
  BY <1>1, <1>2, HeldKept, Zenon
<1>5. Place(c) /\ conn[c].loop \in Loops /\ conn \in [Clients -> [at : Ats, fd : Int, loop : Int]]
  BY <1>2, LiveTypes, Zenon
<1>6. conn[c].loop \in 0..Len(loops_)
  BY <1>5, Zenon DEF Place
<1>7. ASSUME NEW k \in Loops, NEW h \in In(q[k]), h.conn = c
      PROVE  Sent(k, h) /\ (Tracked(f, overwritten) => h.op = "forceCloseInLoop")
  <2>1. h \in In(queue[k])
    BY <1>2, Zenon
  <2>2. Sent(k, h)
    BY <2>1, LiveTypes, Zenon
  <2>3. Tracked(f, overwritten) => h.op = "forceCloseInLoop"
    BY <1>1, <1>2, <1>7, Zenon DEF Alike, Tracked
  <2>4. QED
    BY <2>2, <2>3
<1>8. QED
  BY <1>2, <1>3, <1>4, <1>5, <1>6, <1>7, Zenon DEF RanIs

\* It leaves the others as they are when it changes c alone.
LEMMA RanTouches ==
  ASSUME NEW l, NEW f, NEW c, NEW q, Ran(l, f, c, q), NEW at \in Ats,
         conn' = conn \/ conn' = [conn EXCEPT ![c].at = at],
         connections_' = connections_ \/ connections_' = connections_ \ {c}
  PROVE  Touches(c)
<1>1. connections_' \subseteq connections_ /\ connections_ \subseteq connections_' \cup {c}
  OBVIOUS
<1>2. conn' = conn \/ \E a \in Ats : conn' = [conn EXCEPT ![c].at = a]
  BY Zenon
<1>3. UNCHANGED <<thread, loops_, base, backlog, come, forcing, overwritten>>
  BY Zenon DEF Ran
<1>4. QED
  BY <1>1, <1>2, <1>3, Zenon DEF Touches

\* establishConnection.
LEMMA EstablishKeeps ==
  ASSUME Live, NEW l \in Loops, NEW f, NEW c, NEW q, Ran(l, f, c, q), f.op = "establishConnection",
         conn' = At(c, "up"), queue' = q, connections_' = connections_
  PROVE  Kept
<1>1. RanIs(l, f, c, q) /\ c = f.conn
  BY RanFunctor, Zenon DEF Ran
<1>2. UNCHANGED <<loops_, base, forcing, overwritten>>
  BY Zenon DEF Ran
<1>3. /\ c \in Clients /\ c \in Alive /\ Holding(c) /\ Only(q, queue, c) /\ Place(c) /\ Sent(l, f)
      /\ conn[c].loop \in 0..Len(loops_) /\ conn \in [Clients -> [at : Ats, fd : Int, loop : Int]]
  BY <1>1, Zenon DEF RanIs
<1>4. conn[c].at = "connecting"
  BY <1>1, <1>3, Zenon DEF Sent
<1>5. c \in connections_ /\ c \notin overwritten
  BY <1>3, <1>4, Zenon DEF Place
<1>6. conn'[c].at = "up" /\ conn'[c].loop = conn[c].loop
  BY <1>3 DEF At
<1>7. Place(c)'
  BY <1>2, <1>3, <1>5, <1>6, Zenon DEF Place
<1>8. ASSUME NEW k \in Loops, NEW h \in In(queue'[k]), h.conn = c PROVE Sent(k, h)'
  <2>1. Tracked(f, overwritten)
    BY <1>1, <1>5, Zenon DEF Tracked
  <2>2. Sent(k, h) /\ h.op = "forceCloseInLoop"
    BY <1>1, <1>8, <2>1, Zenon DEF RanIs
  <2>3. QED
    BY <1>4, <1>8, <2>2, Zenon DEF Sent
<1>9. Touches(c)
  <2>1. "up" \in Ats
    BY DEF Ats
  <2>2. QED
    BY <2>1, RanTouches, Zenon DEF At
<1>10. conn[c].at # "none"
  BY <1>4
<1>11. QED
  BY <1>3, <1>7, <1>8, <1>9, <1>10, MovesOn, Zenon DEF Agrees

\* removeConnectionInLoop.
LEMMA RemoveKeeps ==
  ASSUME Live, NEW l \in Loops, NEW f, NEW c, NEW q, Ran(l, f, c, q), f.op = "removeConnectionInLoop",
         removeConnectionInLoop(c, q), conn' = conn
  PROVE  Kept /\ aborted' \in {aborted, "danglingLoop"}
<1>1. RanIs(l, f, c, q) /\ c = f.conn
  BY RanFunctor, Zenon DEF Ran
<1>2. UNCHANGED <<loops_, base, forcing, overwritten>>
  BY Zenon DEF Ran
<1>3. /\ c \in Clients /\ c \in Alive /\ Holding(c) /\ Only(q, queue, c) /\ Place(c) /\ Sent(l, f)
      /\ conn[c].loop \in 0..Len(loops_) /\ conn[c].loop \in Loops
  BY <1>1, Zenon DEF RanIs
<1>m. PICK m : m = conn[c].loop
  OBVIOUS
<1>d. PICK d : d = Functor("destoryConnection", c)
  OBVIOUS
<1>4. /\ connections_' = connections_ \ {c}
      /\ IF LoopAlive(m) THEN queue' = [q EXCEPT ![m] = Append(@, d)] /\ aborted' = aborted
                         ELSE aborted' = "danglingLoop" /\ queue' = q
  BY <1>m, <1>d, Zenon DEF removeConnectionInLoop
<1>5. /\ conn[c].at \in {"closed", "destroyed"} /\ (c \notin overwritten => conn[c].at = "closed")
      /\ m \in Loops /\ conn[c].at # "none"
  BY <1>1, <1>3, <1>m, Zenon DEF Sent
<1>6. Touches(c)
  <2>1. "up" \in Ats
    BY DEF Ats
  <2>2. QED
    BY <1>4, <2>1, RanTouches, Zenon
<1>7. CASE ~LoopAlive(m)
  <2>1. aborted' = "danglingLoop" /\ queue' = q
    BY <1>4, <1>7, Zenon
  <2>2. queue' \in [Loops -> Seq(Functors)] /\ aborted' # "no"
    BY <1>3, <2>1, Zenon DEF Only
  <2>3. Kept
    BY <1>3, <1>6, <2>2, AbortKept, Zenon
  <2>4. QED
    BY <2>1, <2>3
<1>8. CASE LoopAlive(m)
  <2>1. queue' = [q EXCEPT ![m] = Append(@, d)] /\ aborted' = aborted
    BY <1>4, <1>8, Zenon
  <2>2. d \in Functors /\ d.conn = c /\ d.op = "destoryConnection"
    BY <1>3, <1>d, FunctorIs, Zenon DEF Ops
  <2>3. ASSUME NEW k \in Loops, NEW h \in In(q[k]), h.conn = c
        PROVE  ~Alike(h, d, overwritten) /\ Sent(k, h)'
    <3>1. Sent(k, h) /\ (Tracked(f, overwritten) => h.op = "forceCloseInLoop")
      BY <1>1, <2>3, Zenon DEF RanIs
    <3>2. Tracked(f, overwritten) \/ c \in overwritten
      BY <1>1, Zenon DEF Tracked
    <3>3. ~Alike(h, d, overwritten)
      BY <2>2, <3>1, <3>2, Zenon DEF Alike, Tracked
    <3>4. h.op # "establishConnection"
      BY <1>5, <2>3, <3>1, Zenon DEF Sent
    <3>5. c \notin connections_'
      BY <1>4
    <3>6. h.op = "removeConnectionInLoop" => c \in overwritten
      BY <3>1, <3>2
    <3>7. Sent(k, h)'
      BY <1>2, <2>3, <3>1, <3>4, <3>5, <3>6, Zenon DEF Sent
    <3>8. QED
      BY <3>3, <3>7
  <2>4. Only(queue', queue, c) /\ Extends(queue', q, m, d)
    <3>1. \A g \in In(q[m]) : ~Alike(g, d, overwritten)
      BY <1>5, <2>2, <2>3, Zenon DEF Alike
    <3>2. Puts(queue', q, m, d, c)
      BY <1>3, <1>5, <1>8, <2>1, <2>2, <3>1, Zenon DEF Puts
    <3>3. QED
      BY <3>2, Put, Zenon
  <2>5. c \notin connections_' /\ d \in In(queue'[m])
    BY <1>4, <2>4, Zenon DEF Extends
  <2>6. Place(c)'
    <3>1. Destroying(c)'
      BY <1>m, <1>d, <2>5, Zenon DEF Destroying
    <3>2. QED
      BY <1>2, <1>3, <1>5, <2>5, <3>1, Zenon DEF Place
  <2>7. ASSUME NEW k \in Loops, NEW h \in In(queue'[k]), h.conn = c PROVE Sent(k, h)'
    <3>1. h \in In(q[k]) \/ (k = m /\ h = d)
      BY <2>4, Zenon DEF Extends
    <3>2. Sent(m, d)'
      BY <1>2, <1>5, <1>m, <2>2, <2>5, Zenon DEF Sent
    <3>3. QED
      BY <2>3, <2>7, <3>1, <3>2, Zenon
  <2>8. Kept
    BY <1>3, <1>5, <1>6, <2>4, <2>6, <2>7, MovesOn, Zenon DEF Agrees
  <2>9. QED
    BY <2>1, <2>8
<1>9. QED
  BY <1>7, <1>8

\* destoryConnection: the channel is registered, unless the connection was closed twice.
LEMMA DestroyKeeps ==
  ASSUME Live, NEW l \in Loops, NEW f, NEW c, NEW q, Ran(l, f, c, q), f.op = "destoryConnection",
         destoryConnection(c), queue' = q, connections_' = connections_
  PROVE  Kept /\ (aborted' = aborted \/ (aborted' = "channelMap" /\ overwritten' # {}))
<1>1. RanIs(l, f, c, q) /\ c = f.conn
  BY RanFunctor, Zenon DEF Ran
<1>2. UNCHANGED <<loops_, base, forcing, overwritten>>
  BY Zenon DEF Ran
<1>3. /\ c \in Clients /\ c \in Alive /\ Holding(c) /\ Only(q, queue, c) /\ Place(c) /\ Sent(l, f)
      /\ conn[c].loop \in 0..Len(loops_) /\ conn \in [Clients -> [at : Ats, fd : Int, loop : Int]]
  BY <1>1, Zenon DEF RanIs
<1>4. /\ conn[c].at \in {"closed", "destroyed"} /\ (c \notin overwritten => conn[c].at = "closed")
      /\ c \notin connections_ /\ conn[c].at # "none"
  BY <1>1, <1>3 DEF Sent
<1>5. "destroyed" \in Ats
  BY DEF Ats
<1>6. CASE conn[c].at = "closed"
  <2>1. conn' = [conn EXCEPT ![c].at = "destroyed"] /\ aborted' = aborted
    BY <1>6 DEF destoryConnection, At
  <2>2. conn'[c].at = "destroyed" /\ conn'[c].loop = conn[c].loop
    BY <1>3, <2>1
  <2>3. Place(c)'
    BY <1>2, <1>3, <1>4, <2>2, Zenon DEF Place
  <2>4. ASSUME NEW k \in Loops, NEW h \in In(queue'[k]), h.conn = c PROVE Sent(k, h)'
    <3>1. Sent(k, h) /\ (Tracked(f, overwritten) => h.op = "forceCloseInLoop")
      BY <1>1, <2>4, Zenon DEF RanIs
    <3>2. Tracked(f, overwritten) \/ c \in overwritten
      BY <1>1, Zenon DEF Tracked
    <3>3. h.op # "establishConnection"
      BY <1>4, <2>4, <3>1, Zenon DEF Sent
    <3>4. h.op # "forceCloseInLoop" => c \in overwritten
      BY <3>1, <3>2
    <3>5. QED
      BY <1>2, <2>2, <2>4, <3>1, <3>3, <3>4, Zenon DEF Sent
  <2>5. Touches(c)
    BY <1>5, <2>1, RanTouches, Zenon
  <2>6. Kept
    BY <1>3, <1>4, <2>3, <2>4, <2>5, MovesOn, Zenon DEF Agrees
  <2>7. QED
    BY <2>1, <2>6
<1>7. CASE conn[c].at = "destroyed"
  <2>1. conn' = conn /\ aborted' = "channelMap"
    BY <1>3, <1>7 DEF destoryConnection, Registered
  <2>2. c \in overwritten
    BY <1>4, <1>7, Zenon
  <2>3. Touches(c)
    BY <1>5, <2>1, RanTouches, Zenon
  <2>4. queue' \in [Loops -> Seq(Functors)] /\ aborted' # "no"
    BY <1>3, <2>1, Zenon DEF Only
  <2>5. Kept
    BY <1>3, <2>3, <2>4, AbortKept, Zenon
  <2>6. QED
    BY <1>2, <2>1, <2>2, <2>5, Zenon
<1>8. QED
  BY <1>4, <1>6, <1>7, Zenon

\* forceCloseInLoop.
LEMMA ForceKeeps ==
  ASSUME Live, NEW l \in Loops, NEW f, NEW c, NEW q, Ran(l, f, c, q), f.op = "forceCloseInLoop",
         forceCloseInLoop(c, q)
  PROVE  Kept /\ aborted' = aborted
<1> USE DEF connVars
<1>1. RanIs(l, f, c, q) /\ c = f.conn
  BY RanFunctor, Zenon DEF Ran
<1>2. UNCHANGED <<thread, loops_, base, backlog, come, forcing, overwritten>>
  BY Zenon DEF Ran
<1>3. /\ c \in Clients /\ c \in Alive /\ Holding(c) /\ Only(q, queue, c) /\ Place(c) /\ Sent(l, f)
      /\ conn[c].loop \in Loops
      /\ \A k \in Loops : In(q[k]) \subseteq In(queue[k]) /\ In(queue[k]) \subseteq In(q[k]) \cup {f}
  BY <1>1, Zenon DEF RanIs
<1>4. CASE (conn[c].at = "shut" \/ c \in overwritten) /\ handleClose(c, q)
  <2>1. Closes(c, q)
    BY <1>2, <1>3, <1>4, Zenon DEF Closes
  <2>2. QED
    BY <1>3, <2>1, ClosesKeeps, Zenon
<1>5. CASE queue' = q /\ UNCHANGED <<connVars, aborted>>
  <2>1. conn' = conn /\ connections_' = connections_ /\ aborted' = aborted /\ queue' = q
    BY <1>5
  <2>2. ASSUME NEW k \in Loops, NEW op, op # "forceCloseInLoop", Functor(op, c) \in In(queue[k])
        PROVE  Functor(op, c) \in In(queue'[k])
    <3>1. Functor(op, c).op = op
      BY Zenon DEF Functor
    <3>2. Functor(op, c) # f
      BY <2>2, <3>1, Zenon
    <3>3. QED
      BY <1>3, <2>1, <2>2, <3>2, Zenon
  <2>3. /\ Removing(c) => Removing(c)'
        /\ Destroying(c) => Destroying(c)'
        /\ LoopAlive(conn[c].loop)' <=> LoopAlive(conn[c].loop)
    <3>1. 0 \in Loops
      BY DEF Loops
    <3>2. Removing(c) => Removing(c)'
      BY <2>2, <3>1, Zenon DEF Removing
    <3>3. Destroying(c) => Destroying(c)'
      BY <1>3, <2>1, <2>2, Zenon DEF Destroying
    <3>4. LoopAlive(conn[c].loop)' <=> LoopAlive(conn[c].loop)
      BY <1>2, <2>1, Zenon DEF LoopAlive
    <3>5. QED
      BY <3>2, <3>3, <3>4, Zenon
  <2>4. Place(c)'
    BY <1>2, <1>3, <2>1, <2>3, Zenon DEF Place
  <2>5. ASSUME NEW k \in Loops, NEW h \in In(queue'[k]), h.conn = c PROVE Sent(k, h)'
    <3>1. Sent(k, h)
      BY <1>1, <2>1, <2>5, Zenon DEF RanIs
    <3>2. QED
      BY <1>2, <2>1, <3>1, Zenon DEF Sent
  <2>6. Touches(c)
    <3>1. "up" \in Ats
      BY DEF Ats
    <3>2. QED
      BY <2>1, <3>1, RanTouches, Zenon
  <2>7. conn[c].at # "none"
    BY <1>1, <1>3, Zenon DEF Sent
  <2>8. Kept
    BY <1>3, <2>1, <2>4, <2>5, <2>6, <2>7, MovesOn, Zenon DEF Agrees
  <2>9. QED
    BY <2>1, <2>8
<1>6. QED
  BY <1>4, <1>5, Zenon DEF forceCloseInLoop

\* The functors and what they may end the process with.
LEMMA RunFunctorKeeps ==
  ASSUME Live, NEW l \in Loops, RunFunctor(l)
  PROVE  /\ Kept
         /\ \/ aborted' = aborted
            \/ aborted' = "channelMap" /\ overwritten' # {}
            \/ aborted' = "danglingLoop" /\ Head(queue[l]).op = "removeConnectionInLoop"
<1> USE DEF threadVars, acceptorVars, clientVars, poolVars, forceVars
<1>f. PICK f : f = Head(queue[l])
  OBVIOUS
<1>q. PICK q : q = [queue EXCEPT ![l] = Tail(@)]
  BY Zenon
<1>c. PICK c : c = f.conn
  OBVIOUS
<1>1. /\ LoopRuns(l) /\ queue[l] # << >> /\ held' = [held EXCEPT ![l] = @ \cup {c}]
      /\ UNCHANGED <<thread, loops_, base, backlog, come, forcing, overwritten>>
  BY <1>f, <1>c, Zenon DEF RunFunctor
<1>2. \/ /\ f.op = "establishConnection"
         /\ conn' = At(c, "up") /\ queue' = q /\ connections_' = connections_ /\ aborted' = aborted
      \/ /\ f.op = "removeConnectionInLoop"
         /\ removeConnectionInLoop(c, q) /\ conn' = conn
      \/ /\ f.op = "destoryConnection"
         /\ destoryConnection(c) /\ queue' = q /\ connections_' = connections_
      \/ f.op = "forceCloseInLoop" /\ forceCloseInLoop(c, q)
  BY <1>f, <1>q, <1>c, Zenon DEF RunFunctor
<1>3. Taken(l, f, c, q)
  <2>1. Takes(q, queue, l)
    BY <1>q, <1>1, LiveTypes, Zenon DEF Takes
  <2>2. Runs(l, f, c, q)
    BY <1>f, <1>c, <1>1, <2>1, Zenon DEF Runs
  <2>3. QED
    BY <2>2, TakenFunctor, Zenon
<1>4. Ran(l, f, c, q)
  BY <1>1, <1>3, <1>c, Zenon DEF Ran
<1>5. CASE f.op = "establishConnection"
  BY <1>2, <1>4, <1>5, EstablishKeeps
<1>6. CASE f.op = "removeConnectionInLoop"
  <2>1. removeConnectionInLoop(c, q) /\ conn' = conn
    BY <1>2, <1>6
  <2>2. Kept /\ aborted' \in {aborted, "danglingLoop"}
    BY <1>4, <1>6, <2>1, RemoveKeeps, Zenon
  <2>3. QED
    BY <1>f, <1>6, <2>2
<1>7. CASE f.op = "destoryConnection"
  <2>1. destoryConnection(c) /\ queue' = q /\ connections_' = connections_
    BY <1>2, <1>7
  <2>2. QED
    BY <1>4, <1>7, <2>1, DestroyKeeps, Zenon
<1>8. CASE f.op = "forceCloseInLoop"
  <2>1. forceCloseInLoop(c, q)
    BY <1>2, <1>8
  <2>2. QED
    BY <1>4, <1>8, <2>1, ForceKeeps, Zenon
<1>9. QED
  BY <1>2, <1>5, <1>6, <1>7, <1>8, Zenon

\* The batch ends, or a thread with its loop.
LEMMA EndsKeep ==
  ASSUME Live, NEW l \in Loops, EndBatch(l) \/ (l # 0 /\ EndOfThread(l))
  PROVE  Kept
<1> USE DEF threadVars, acceptorVars, clientVars, poolVars, connVars, forceVars
<1>1. /\ conn' = conn /\ connections_' = connections_
      /\ UNCHANGED <<backlog, come, loops_, base, forcing, overwritten>>
      /\ held' = [held EXCEPT ![l] = {}]
  BY Zenon DEF EndBatch, EndOfThread, EndThread
<1>2. held' \in [Loops -> SUBSET Clients] /\ held'[l] = {} /\ \A k \in Loops : held'[k] \subseteq held[k]
  BY <1>1, LiveTypes, Zenon
<1>3. Waiting'
  BY <1>1, SameWaiting DEF Live
<1>4. PInv /\ ServerTypes /\ Places /\ DistinctFds /\ Len(loops_) \in Nat
  BY DEF Live, PInv, PoolTypes
<1>5. CASE EndBatch(l)
  <2>1. queue' = queue /\ thread' = thread
    BY <1>5 DEF EndBatch, loopVars
  <2>2. ServerTypes'
    BY <1>1, <1>2, <2>1 DEF ServerTypes, Live
  <2>3. \A k : LoopAlive(k)' <=> LoopAlive(k)
    BY <2>1 DEF LoopAlive
  <2>4. Places' /\ DistinctFds'
    BY <1>1, <1>2, <1>4, <2>1, <2>3, QuietStep
  <2>5. QED
    BY <1>3, <2>2, <2>4 DEF Kept
<1>6. CASE l # 0 /\ EndOfThread(l)
  <2>1. queue' = [queue EXCEPT ![l] = << >>] /\ thread' = [thread EXCEPT ![l] = "done"]
    BY <1>6 DEF EndOfThread, EndThread, Moves
  <2>2. l \in IoThreads /\ thread \in [IoThreads -> ThreadStates]
    BY <1>6 DEF Loops, IoThreads, Live, PInv, PoolTypes
  <2>3. /\ queue' \in [Loops -> Seq(Functors)] /\ queue'[l] = << >>
        /\ \A k \in Loops \ {l} : queue'[k] = queue[k] /\ (LoopAlive(k)' <=> LoopAlive(k))
        /\ ~LoopAlive(l)'
    BY <1>6, <2>1, <2>2, LiveTypes, EmptySeq, Zenon DEF LoopAlive, IoThreads
  <2>4. ServerTypes'
    BY <1>1, <1>2, <2>3 DEF ServerTypes, Live
  <2>5. 0 \in Loops /\ queue'[0] = queue[0]
    BY <1>6, <2>3, LoopsAre DEF Live
  <2>6. ASSUME NEW c \in Clients PROVE Place(c)'
    <3>1. Place(c) /\ conn[c].loop \in Loops
      BY LiveTypes
    <3>2. Removing(c)' <=> Removing(c)
      BY <2>5, Zenon DEF Removing
    <3>3. LoopAlive(conn[c].loop)' => LoopAlive(conn[c].loop) /\ (Destroying(c) => Destroying(c)')
      BY <1>1, <2>3, <3>1, Zenon DEF Destroying
    <3>4. QED
      BY <1>1, <3>1, <3>2, <3>3, Zenon DEF Place
  <2>7. ASSUME NEW k \in Loops PROVE Queue(k)'
    <3>1. CASE k = l
      BY <1>2, <2>3, <3>1, InEmpty, Zenon DEF Queue
    <3>2. CASE k # l
      <4>1. queue'[k] = queue[k] /\ held'[k] = held[k] /\ (LoopAlive(k)' <=> LoopAlive(k)) /\ Queue(k)
        BY <1>1, <2>3, <3>2, LiveTypes, Zenon DEF Live, Places
      <4>2. ASSUME NEW f, Sent(k, f) PROVE Sent(k, f)'
        BY <1>1, <4>2, Zenon DEF Sent
      <4>3. QED
        BY <1>1, <4>1, <4>2, Zenon DEF Queue
    <3>3. QED
      BY <3>1, <3>2
  <2>8. DistinctFds'
    <3>1. \A k \in Loops : In(queue'[k]) \subseteq In(queue[k])
      BY <2>3, InEmpty, Zenon
    <3>2. \A c \in Alive' : c \in Alive /\ conn'[c].fd = conn[c].fd
      BY <1>1, <1>2, <3>1, AliveIs, AliveNext, Zenon
    <3>3. QED
      BY <1>4, <3>2, FdsKept
  <2>9. QED
    BY <1>3, <2>4, <2>6, <2>7, <2>8 DEF Kept, Places
<1>7. QED
  BY <1>5, <1>6

\* ~TcpServer destroys its connections.
LEMMA DestoryKeeps ==
  ASSUME Live, Running, DestoryNext
  PROVE  /\ Kept
         /\ \/ aborted' = aborted
            \/ /\ aborted' = "notInLoopThread" /\ base' = "destory"
               /\ \E c \in connections_ : conn[c].loop # 0
            \/ /\ aborted' = "isNoneEvent" /\ base' = "destory"
               /\ \E c \in connections_' : conn'[c].loop = 0 /\ conn'[c].at = "shut"
<1> USE DEF threadVars, acceptorVars, clientVars, poolVars, loopVars, forceVars
<1> DEFINE left == {c \in connections_ : conn[c].at # "destroyed"}
<1>1. /\ UNCHANGED <<thread, loops_, backlog, come, queue, held, forcing, overwritten>>
      /\ base = "destory"
      /\ IF left = {} THEN base' = "pool" /\ connections_' = {} /\ UNCHANGED <<conn, aborted>>
         ELSE /\ \E c \in left :
                   IF conn[c].loop = 0 THEN destoryConnection(c)
                   ELSE aborted' = "notInLoopThread" /\ UNCHANGED conn
              /\ UNCHANGED <<base, connections_>>
  BY Zenon DEF DestoryNext
<1>2. CASE left = {}
  <2>1. base' = "pool" /\ connections_' = {} /\ conn' = conn /\ aborted' = aborted
    BY <1>1, <1>2, Zenon
  <2>2. \A c \in connections_ : conn[c].at = "destroyed"
    BY <1>2
  <2> HIDE DEF left
  <2>3. ServerTypes'
    BY <1>1, <2>1 DEF ServerTypes, Live
  <2>4. Waiting'
    BY <1>1, <2>1, SameWaiting, Zenon DEF Live
  <2>5. ASSUME NEW c \in Clients PROVE Place(c)'
    <3>1. Place(c)
      BY LiveTypes, Zenon
    <3>2. Removing(c)' = Removing(c) /\ Destroying(c)' = Destroying(c)
          /\ LoopAlive(conn[c].loop)' = LoopAlive(conn[c].loop)
      BY <1>1, <2>1, Zenon DEF Removing, Destroying, LoopAlive
    <3>3. QED
      BY <1>1, <2>1, <2>2, <3>1, <3>2, Zenon DEF Place
  <2>6. ASSUME NEW l \in Loops PROVE Queue(l)'
    <3>1. Queue(l) /\ LoopAlive(l)' = LoopAlive(l)
      BY <1>1, Zenon DEF Live, Places, LoopAlive
    <3>2. ASSUME NEW f \in In(queue[l]) PROVE Sent(l, f)'
      <4>1. Sent(l, f)
        BY <3>1, Zenon DEF Queue
      <4>2. f.op = "removeConnectionInLoop" => f.conn \in overwritten
        BY <2>2, <4>1, Zenon DEF Sent
      <4>3. UNCHANGED <<conn, overwritten>> /\ f.conn \notin connections_'
        BY <1>1, <2>1
      <4>4. QED
        BY <4>1, <4>2, <4>3, Zenon DEF Sent
    <3>3. QED
      BY <1>1, <3>1, <3>2, Zenon DEF Queue
  <2>7. DistinctFds'
    <3>1. \A c \in Alive' : c \in Alive /\ conn'[c].fd = conn[c].fd
      BY <1>1, <2>1, AliveIs, AliveNext, Zenon
    <3>2. QED
      BY <3>1, FdsKept DEF Live
  <2>8. QED
    BY <2>1, <2>3, <2>4, <2>5, <2>6, <2>7 DEF Kept, Places, Running
<1>3. CASE left # {}
  <2>c. PICK c \in left : IF conn[c].loop = 0 THEN destoryConnection(c)
                          ELSE aborted' = "notInLoopThread" /\ UNCHANGED conn
    BY <1>1, <1>3, Zenon
  <2>1. c \in Clients /\ c \in connections_ /\ conn[c].at # "destroyed"
    BY LiveTypes, Zenon
  <2>2. /\ IF conn[c].loop = 0 THEN destoryConnection(c)
           ELSE aborted' = "notInLoopThread" /\ UNCHANGED conn
        /\ UNCHANGED <<base, connections_>>
    BY <1>1, <1>3, <2>c, Zenon
  <2> HIDE DEF left
  <2>3. /\ Place(c) /\ conn \in [Clients -> [at : Ats, fd : Int, loop : Int]]
        /\ queue \in [Loops -> Seq(Functors)] /\ Only(queue, queue, c) /\ Places
        /\ \A k \in Loops : \A h \in In(queue[k]) : Sent(k, h)
    BY <2>1, LiveTypes, Zenon DEF Live
  <2>4. /\ Holding(c) /\ queue' = queue /\ connections_' = connections_ /\ base' = "destory"
        /\ UNCHANGED <<thread, loops_, base, backlog, come, forcing, overwritten>>
    <3>1. held' = held
      BY <1>1, Zenon
    <3>2. QED
      BY <1>1, <2>1, <2>2, <3>1, HeldKept, Zenon
  <2>5. ASSUME conn' = conn, aborted' # "no" PROVE Kept
    <3>1. Touches(c)
      BY <2>4, <2>5 DEF Touches
    <3>2. queue' \in [Loops -> Seq(Functors)]
      BY <2>3, <2>4, Zenon
    <3>3. QED
      BY <2>1, <2>4, <2>5, <3>1, <3>2, AbortKept, Zenon
  <2>6. CASE conn[c].loop # 0
    <3>1. conn' = conn /\ aborted' = "notInLoopThread"
      BY <2>2, <2>6
    <3>2. Kept
      BY <2>5, <3>1
    <3>3. QED
      BY <2>1, <2>4, <2>6, <3>1, <3>2, Zenon
  <2>7. CASE conn[c].loop = 0
    <3>1. conn[c].at \in {"up", "shut"}
      BY <2>1, <2>3, <2>7 DEF Place, Ats
    <3>2. CASE conn[c].at = "shut"
      <4>1. c \in Registered
        BY <2>1, <3>2 DEF Registered
      <4>2. conn' = conn /\ aborted' = "isNoneEvent"
        BY <2>2, <2>7, <3>2, <4>1, Zenon DEF destoryConnection
      <4>3. Kept
        BY <2>5, <4>2
      <4>4. c \in connections_' /\ conn'[c].loop = 0 /\ conn'[c].at = "shut"
        BY <2>1, <2>4, <2>7, <3>2, <4>2
      <4>5. QED
        BY <2>4, <4>2, <4>3, <4>4, Zenon
    <3>3. CASE conn[c].at = "up"
      <4>1. conn' = [conn EXCEPT ![c].at = "destroyed"] /\ aborted' = aborted
        BY <2>2, <2>7, <3>3 DEF destoryConnection, At
      <4>2. conn'[c].at = "destroyed" /\ conn'[c].loop = 0
        BY <2>1, <2>3, <2>7, <4>1
      <4>3. Place(c)'
        <5>1. 0 \in 0..Len(loops_')
          <6>1. Len(loops_) \in Nat
            BY DEF Live, PInv, PoolTypes
          <6>2. 0 \in 0..Len(loops_)
            BY ONLY <6>1
          <6>3. QED
            BY <1>1, <6>2, Zenon
        <5>2. base' = "destory"
          BY <1>1, <1>3, Zenon
        <5>3. QED
          BY <4>2, <5>1, <5>2, Zenon DEF Place
      <4>4. ASSUME NEW k \in Loops, NEW h \in In(queue'[k]), h.conn = c PROVE Sent(k, h)'
        <5>1. Idle(c)
          BY <3>3 DEF Idle
        <5>2. Sent(k, h) /\ h.op = "forceCloseInLoop"
          BY <2>3, <2>4, <4>4, <5>1, NoFunctor, Zenon
        <5>3. QED
          BY <2>7, <4>2, <4>4, <5>2, Zenon DEF Sent
      <4>5. Touches(c)
        <5>1. "destroyed" \in Ats
          BY DEF Ats
        <5>2. QED
          BY <2>4, <4>1, <5>1, Zenon DEF Touches
      <4>6. c \in Alive /\ Only(queue', queue, c) /\ conn[c].at # "none"
        BY <2>1, <2>3, <2>4, <3>3, AliveIs, Zenon
      <4>7. Kept
        BY <2>1, <2>4, <4>3, <4>4, <4>5, <4>6, MovesOn, Zenon DEF Agrees
      <4>8. QED
        BY <4>1, <4>7
    <3>4. QED
      BY <3>1, <3>2, <3>3
  <2>8. QED
    BY <2>6, <2>7
<1>4. QED
  BY <1>2, <1>3

\* shutdown() and forceClose(), which may outlive the loop of its connection.
LEMMA UserEndsKeeps ==
  ASSUME Live, NEW c \in Clients, UserEnds(c)
  PROVE  /\ Kept
         /\ \/ aborted' = aborted
            \/ aborted' = "danglingLoop" /\ c \in forcing' /\ ~LoopAlive(conn[c].loop)
<1> USE DEF threadVars, acceptorVars, clientVars, poolVars, loopVars, connVars, forceVars
<1>1. /\ Place(c) /\ conn[c].loop \in Loops /\ conn \in [Clients -> [at : Ats, fd : Int, loop : Int]]
      /\ queue \in [Loops -> Seq(Functors)] /\ Only(queue, queue, c) /\ Places
      /\ \A k \in Loops : \A h \in In(queue[k]) : Sent(k, h)
  BY LiveTypes, Zenon DEF Live
<1>2. conn[c].loop \in 0..Len(loops_)
  BY <1>1, Zenon DEF Place
<1>3. held' = held /\ UNCHANGED <<thread, loops_, base, backlog, come, connections_>>
  BY Zenon DEF UserEnds, UserShutdown, ForceClose, StoreDisconnecting
<1>4. Holding(c)
  BY <1>3, HeldKept, Zenon
<1>5. "shut" \in Ats
  BY DEF Ats
<1>6. c \in forcing => c \in Alive
  BY AliveIs, Zenon
<1>7. ASSUME conn[c].at \in {"up", "shut"}
      PROVE  /\ c \in connections_ /\ c \in Alive /\ c \notin overwritten /\ conn[c].at # "none"
             /\ \A k \in Loops : \A h \in In(queue[k]) : h.conn = c => h.op = "forceCloseInLoop"
  <2>1. c \in connections_ /\ c \notin overwritten /\ conn[c].at # "none"
    BY <1>1, <1>7 DEF Place
  <2>2. Idle(c)
    BY <1>7, Zenon DEF Idle
  <2>3. \A k \in Loops : \A h \in In(queue[k]) : h.conn = c => h.op = "forceCloseInLoop"
    BY <1>1, <2>2, NoFunctor, Zenon
  <2>4. c \in Alive
    BY <2>1, AliveIs, Zenon
  <2>5. QED
    BY <2>1, <2>3, <2>4, Zenon
<1>8. CASE UserShutdown(c)
  <2>1. /\ conn[c].at = "up" /\ conn' = [conn EXCEPT ![c].at = "shut"] /\ aborted' = aborted
        /\ UNCHANGED <<queue, forcing, overwritten>>
    BY <1>8 DEF UserShutdown, At
  <2>2. conn'[c].at = "shut" /\ conn'[c].loop = conn[c].loop
    BY <1>1, <2>1
  <2>3. conn[c].at \in {"up", "shut"}
    BY <2>1
  <2>4. Place(c)'
    BY <1>2, <1>3, <1>7, <2>1, <2>2, <2>3 DEF Place
  <2>5. ASSUME NEW k \in Loops, NEW h \in In(queue'[k]), h.conn = c PROVE Sent(k, h)'
    <3>1. Sent(k, h) /\ h.op = "forceCloseInLoop"
      BY <1>1, <1>7, <2>1, <2>3, <2>5, Zenon
    <3>2. QED
      BY <2>2, <2>5, <3>1, Zenon DEF Sent
  <2>6. Touches(c)
    BY <1>3, <1>5, <2>1, Zenon DEF Touches
  <2>7. Only(queue', queue, c)
    BY <1>1, <2>1, Zenon
  <2>8. Kept
    BY <1>4, <1>7, <2>3, <2>4, <2>5, <2>6, <2>7, MovesOn, Zenon DEF Agrees
  <2>9. QED
    BY <2>1, <2>8
<1>9. CASE ForceClose(c)
  <2>1. /\ conn[c].at \in {"up", "shut"} /\ conn' = conn /\ aborted' = aborted
        /\ forcing' = forcing \cup {c} /\ UNCHANGED <<queue, overwritten>>
    BY <1>9, Zenon DEF ForceClose
  <2>2. Place(c)'
    BY <1>2, <1>3, <1>7, <2>1, Zenon DEF Place
  <2>3. ASSUME NEW k \in Loops, NEW h \in In(queue'[k]), h.conn = c PROVE Sent(k, h)'
    <3>1. Sent(k, h)
      BY <1>1, <2>1, <2>3, Zenon
    <3>2. QED
      BY <1>3, <2>1, <3>1, Zenon DEF Sent
  <2>4. Touches(c)
    BY <1>3, <2>1 DEF Touches
  <2>5. Only(queue', queue, c)
    BY <1>1, <2>1, Zenon
  <2>6. Kept
    BY <1>4, <1>7, <2>1, <2>2, <2>3, <2>4, <2>5, MovesOn, Zenon DEF Agrees
  <2>7. QED
    BY <2>1, <2>6, Zenon
<1>10. CASE StoreDisconnecting(c)
  <2>l. PICK l : l = conn[c].loop
    OBVIOUS
  <2>f. PICK f : f = Functor("forceCloseInLoop", c)
    OBVIOUS
  <2>1. /\ c \in forcing /\ QueueInLoop(l, f)
        /\ conn' = IF conn[c].at = "up" THEN [conn EXCEPT ![c].at = "shut"] ELSE conn
        /\ overwritten' = IF conn[c].at \in {"closed", "destroyed"} THEN overwritten \cup {c} ELSE overwritten
        /\ forcing' = IF LoopAlive(l) THEN forcing \ {c} ELSE forcing
    BY <1>10, <2>l, <2>f DEF StoreDisconnecting, At
  <2>2. /\ c \in Alive /\ conn[c].at \in {"up", "shut", "closed", "destroyed"} /\ conn[c].at # "none"
        /\ l \in Loops
    <3>1. conn[c].at \notin {"none", "connecting"}
      BY <1>1, <2>1, Zenon DEF Place
    <3>2. conn[c].at \in Ats
      BY <1>1
    <3>3. conn[c].at \in {"up", "shut", "closed", "destroyed"} /\ conn[c].at # "none"
      BY <3>1, <3>2, Zenon DEF Ats
    <3>4. QED
      BY <1>1, <1>6, <2>1, <2>l, <3>3, Zenon
  <2>3. Touches(c)
    <3>1. conn' = conn \/ \E at \in Ats : conn' = [conn EXCEPT ![c].at = at]
      BY <1>5, <2>1, Zenon
    <3>2. /\ forcing' \subseteq forcing \cup {c} /\ forcing \subseteq forcing' \cup {c}
          /\ overwritten \subseteq overwritten' /\ overwritten' \subseteq overwritten \cup {c}
      BY ONLY <2>1
    <3>3. QED
      BY <1>3, <3>1, <3>2, Zenon DEF Touches
  <2>4. CASE ~LoopAlive(l)
    <3>1. aborted' = "danglingLoop" /\ queue' = queue /\ forcing' = forcing
      BY <2>1, <2>4, Zenon DEF QueueInLoop
    <3>2. queue' \in [Loops -> Seq(Functors)] /\ aborted' # "no"
      BY <1>1, <3>1
    <3>3. Kept
      BY <1>4, <2>3, <3>2, AbortKept, Zenon
    <3>4. QED
      BY <2>1, <2>l, <2>4, <3>1, <3>3, Zenon
  <2>5. CASE LoopAlive(l)
    <3>1. aborted' = aborted /\ queue' = [queue EXCEPT ![l] = Append(@, f)]
      BY <2>1, <2>5, Zenon DEF QueueInLoop
    <3>2. f \in Functors /\ f.conn = c /\ f.op = "forceCloseInLoop"
      BY <2>f, FunctorIs DEF Ops
    <3>3. Only(queue', queue, c) /\ Extends(queue', queue, l, f)
      <4>1. \A g \in In(queue[l]) : ~Alike(g, f, overwritten)
        BY <3>2, Zenon DEF Alike, Tracked
      <4>2. Puts(queue', queue, l, f, c)
        BY <1>1, <2>2, <2>5, <3>1, <3>2, <4>1, Zenon DEF Puts
      <4>3. QED
        BY <4>2, Put, Zenon
    <3>4. CASE conn[c].at \in {"up", "shut"}
      <4>1. conn'[c].at = "shut" /\ conn'[c].loop = l /\ overwritten' = overwritten
        BY <1>1, <2>1, <2>l, <3>4
      <4>2. Place(c)'
        BY <1>2, <1>3, <1>7, <2>l, <3>4, <4>1, Zenon DEF Place
      <4>3. ASSUME NEW k \in Loops, NEW h \in In(queue'[k]), h.conn = c PROVE Sent(k, h)'
        <5>1. h.op = "forceCloseInLoop" /\ k = l
          <6>1. CASE h \in In(queue[k])
            <7>1. Sent(k, h) /\ h.op = "forceCloseInLoop"
              BY <1>1, <1>7, <3>4, <4>3, <6>1, Zenon
            <7>2. QED
              BY <2>l, <4>3, <7>1, Zenon DEF Sent
          <6>2. CASE k = l /\ h = f
            BY <3>2, <6>2
          <6>3. QED
            BY <3>3, <6>1, <6>2, Zenon DEF Extends
        <5>2. QED
          BY <4>1, <4>3, <5>1, Zenon DEF Sent
      <4>4. QED
        BY <1>4, <2>2, <2>3, <3>1, <3>3, <4>2, <4>3, MovesOn, Zenon DEF Agrees
    <3>5. CASE conn[c].at \in {"closed", "destroyed"}
      <4>1. conn' = conn /\ overwritten' = overwritten \cup {c} /\ forcing' = forcing \ {c}
        BY <2>1, <2>5, <3>5
      <4>2. c \in overwritten' /\ c \notin forcing'
        BY <4>1
      <4>3. Place(c)'
        <5>1. 0 \in Loops
          BY DEF Loops
        <5>2. Removing(c) => Removing(c)'
          BY <3>3, <5>1, Zenon DEF Removing, Extends
        <5>3. Destroying(c) => Destroying(c)'
          BY <1>1, <3>3, <4>1, Zenon DEF Destroying, Extends
        <5>4. LoopAlive(conn[c].loop)' <=> LoopAlive(conn[c].loop)
          BY <1>3, <4>1, Zenon DEF LoopAlive
        <5>5. QED
          BY <1>1, <1>3, <3>5, <4>1, <4>2, <5>2, <5>3, <5>4, Zenon DEF Place
      <4>4. ASSUME NEW k \in Loops, NEW h \in In(queue'[k]), h.conn = c PROVE Sent(k, h)'
        <5>1. CASE h \in In(queue[k])
          <6>1. Sent(k, h)
            BY <1>1, <5>1, Zenon
          <6>2. QED
            BY <1>3, <4>1, <4>2, <4>4, <6>1, Zenon DEF Sent
        <5>2. CASE k = l /\ h = f
          BY <2>l, <3>2, <3>5, <4>1, <5>2, Zenon DEF Sent
        <5>3. QED
          BY <3>3, <5>1, <5>2, Zenon DEF Extends
      <4>5. QED
        BY <1>4, <2>2, <2>3, <3>1, <3>3, <4>3, <4>4, MovesOn, Zenon DEF Agrees
    <3>6. QED
      BY <2>2, <3>4, <3>5
  <2>6. QED
    BY <2>4, <2>5
<1>11. QED
  BY <1>8, <1>9, <1>10, Zenon DEF UserEnds

--------------------------------------------------------------------------------
(* The invariant.                                                          *)

\* No loop ends, and no loop a connection may have begins.
LoopsStay ==
    /\ Len(loops_') \in Nat /\ Len(loops_) <= Len(loops_')
    /\ \A i \in IoThreads : LoopAlive(i) => LoopAlive(i)'
    /\ \A i \in 1..Len(loops_) : LoopAlive(i)' => LoopAlive(i)

\* The steps that leave the connections and their functors alone: they may start a loop
\* that no connection has yet.
LEMMA ThreadsQuiet ==
  ASSUME Live, [Next]_vars, UNCHANGED <<connections_, conn, queue, held, forcing, overwritten>>,
         base # "destory" \/ base' = base,
         \/ UNCHANGED <<thread, loops_>>
         \/ \E i \in IoThreads : ThreadStep(i)
         \/ StartStep
  PROVE  Places' /\ DistinctFds'
<1> USE DEF poolVars, threadVars
<1>1. /\ thread \in [IoThreads -> ThreadStates] /\ loops_ \in Seq(Int) /\ Len(loops_) \in Nat
      /\ \A i \in 1..Len(loops_) : i \in IoThreads /\ thread[i] \notin {"none", "start", "init"}
  <2>1. PInv
    BY Zenon DEF Live
  <2>2. thread \in [IoThreads -> ThreadStates] /\ loops_ \in Seq(Int)
    BY <2>1, Zenon DEF PInv, PoolTypes
  <2>3. Len(loops_) \in Nat
    BY ONLY <2>2
  <2>4. \A i \in 1..Len(loops_) : i \in IoThreads
    BY <2>1, LoopsAre, Zenon
  <2>5. \A i \in 1..Len(loops_) : thread[i] \notin {"none", "start", "init"}
    BY <2>1, Zenon DEF PInv, Pool
  <2>6. QED
    BY <2>2, <2>3, <2>4, <2>5, Zenon
<1>2. PInv /\ ServerTypes /\ Places /\ DistinctFds
  BY Zenon DEF Live
<1>3. ASSUME LoopsStay PROVE Places' /\ DistinctFds'
  <2>1. LoopAlive(0) /\ LoopAlive(0)'
    BY DEF LoopAlive
  <2>2. \A l \in Loops : LoopAlive(l) => LoopAlive(l)'
    BY <1>3, <2>1 DEF Loops, IoThreads, LoopsStay
  <2>3. \A l \in 0..Len(loops_) : LoopAlive(l)' => LoopAlive(l)
    <3>1. \A l \in 0..Len(loops_) : l = 0 \/ l \in 1..Len(loops_)
      BY ONLY <1>1
    <3>2. QED
      BY <1>3, <2>1, <3>1, Zenon DEF LoopsStay
  <2>4. \A l \in Loops : held'[l] \subseteq held[l]
    OBVIOUS
  <2>5. QED
    BY <1>1, <1>2, <1>3, <2>2, <2>3, <2>4, QuietStep, Zenon DEF LoopsStay
<1>4. CASE UNCHANGED <<thread, loops_>>
  <2>1. LoopsStay
    BY <1>1, <1>4 DEF LoopAlive, LoopsStay
  <2>2. QED
    BY <1>3, <2>1, Zenon
<1>5. ASSUME NEW i \in IoThreads, ThreadStep(i) PROVE Places' /\ DistinctFds'
  <2>1. /\ loops_' = loops_
        /\ \E from, to \in ThreadStates :
             /\ thread[i] = from /\ thread' = [thread EXCEPT ![i] = to]
             /\ <<from, to>> \in {<<"start", "init">>, <<"init", "loop">>, <<"loop", "left">>, <<"left", "cleared">>}
    BY <1>5, Zenon
      DEF ThreadStep, ConstructLoop, PublishLoop, LeaveLoop, ClearLoop, Moves, ThreadStates
  <2>2. \A k \in IoThreads : LoopAlive(k) => LoopAlive(k)'
    BY <1>1, <2>1 DEF LoopAlive
  <2>3. \A k \in 1..Len(loops_) : LoopAlive(k)' => LoopAlive(k)
    BY <1>1, <2>1 DEF LoopAlive
  <2>4. Len(loops_') \in Nat /\ Len(loops_) <= Len(loops_')
    BY <1>1, <2>1
  <2>5. QED
    BY <1>3, <2>2, <2>3, <2>4, Zenon DEF LoopsStay
<1>6. CASE StartStep
  <2>1. CASE SpawnThread
    <3>1. /\ base = "spawn" /\ loops_' = loops_ /\ thread' = [thread EXCEPT ![Starting] = "start"]
      BY <2>1, Zenon DEF SpawnThread, BaseMoves
    <3>2. Starting \in IoThreads /\ thread[Starting] = "none"
      <4>1. /\ numOfThreads_ \in 0..MaxThreads /\ Len(loops_) < numOfThreads_
            /\ \A k \in IoThreads : thread[k] = "none" <=> k > Spawned
        BY <1>2, <3>1, Zenon DEF PInv, PoolTypes, Pool
      <4>2. Spawned = Len(loops_)
        BY <3>1 DEF Spawned, InStart
      <4>3. Starting \in IoThreads /\ Starting > Spawned
        BY <1>1, <4>1, <4>2, ThreadsAssumption DEF Starting, IoThreads
      <4>4. QED
        BY <4>1, <4>3, Zenon
    <3>3. \A k \in IoThreads : LoopAlive(k) => LoopAlive(k)'
      BY <1>1, <3>1, <3>2 DEF LoopAlive
    <3>4. \A k \in 1..Len(loops_) : LoopAlive(k)' => LoopAlive(k)
      BY <1>1, <3>1, <3>2 DEF LoopAlive
    <3>5. Len(loops_') \in Nat /\ Len(loops_) <= Len(loops_')
      BY <1>1, <3>1
    <3>6. QED
      BY <1>3, <3>3, <3>4, <3>5, Zenon DEF LoopsStay
  <2>2. CASE CheckLoop
    BY <1>4, <2>2 DEF CheckLoop
  <2>3. CASE ReturnLoop
    <3>1. thread' = thread /\ Len(loops_') = Len(loops_) + 1
      <4>1. PICK e : loops_' = Append(loops_, e) /\ e \in {Starting, NullLoop} /\ thread' = thread
        BY <2>3 DEF ReturnLoop, threadVars
      <4>2. loops_ \in Seq(Int)
        BY <1>1 DEF Live, PInv, PoolTypes
      <4>3. e \in Int
        BY <4>1, <4>2 DEF Starting, NullLoop
      <4>4. QED
        BY <4>1, <4>2, <4>3, AppendProperties, Zenon
    <3>2. \A k : LoopAlive(k)' <=> LoopAlive(k)
      BY <3>1, Zenon DEF LoopAlive
    <3>3. Len(loops_') \in Nat /\ Len(loops_) <= Len(loops_')
      BY <1>1, <3>1
    <3>4. QED
      BY <1>3, <3>2, <3>3, Zenon DEF LoopsStay
  <2>4. QED
    BY <1>6, <2>1, <2>2, <2>3 DEF StartStep
<1>7. QED
  BY <1>4, <1>5, <1>6, Zenon

\* The steps of the server's that change its connections or their functors.
Busy ==
    \/ Accept \/ DestoryNext
    \/ \E c \in Clients : HandleClose(c) \/ UserEnds(c)
    \/ \E l \in Loops : LoopStep(l) \/ (l # 0 /\ EndOfThread(l))

\* Each of them keeps the invariant.
LEMMA BusyKeeps ==
  ASSUME Live, Running, Busy
  PROVE  Kept
<1>1. ASSUME NEW l \in Loops, LoopStep(l) \/ (l # 0 /\ EndOfThread(l)) PROVE Kept
  BY <1>1, RunFunctorKeeps, EndsKeep, Zenon DEF LoopStep
<1>2. ASSUME NEW c \in Clients, HandleClose(c) \/ UserEnds(c) PROVE Kept
  BY <1>2, HandleCloseKeeps, UserEndsKeeps, Zenon
<1>3. QED
  BY <1>1, <1>2, AcceptKeeps, DestoryKeeps, Zenon DEF Busy

\* The others.
LEMMA NotBusy ==
  ASSUME Live, Running, [Next]_vars, ~Busy
  PROVE  /\ UNCHANGED <<connections_, conn, queue, held, forcing, overwritten>>
         /\ base # "destory" \/ base' = base
         /\ UNCHANGED <<thread, loops_>> \/ (\E i \in IoThreads : ThreadStep(i)) \/ StartStep
         /\ \/ ClientComes \/ ClientGivesUp
            \/ come' = come /\ (backlog' = backlog \/ backlog' = << >> \/ (backlog # << >> /\ backlog' = Tail(backlog)))
<1> USE
  DEF poolVars, threadVars, acceptorVars, connVars, clientVars, loopVars, otherVars, forceVars, OnlyThreads
<1>0. 0 \in Loops /\ \A i \in IoThreads : i \in Loops /\ i # 0
  BY DEF Loops, IoThreads
<1>1. CASE Start \/ Listen
  BY <1>1, Zenon DEF Start, Listen, BaseMoves
<1>2. CASE StartStep /\ OnlyThreads
  BY <1>2, Zenon DEF StartStep, SpawnThread, CheckLoop, ReturnLoop, BaseMoves
<1>3. CASE SpuriousWakeup /\ OnlyThreads
  BY <1>3, Zenon DEF SpuriousWakeup, BaseMoves
<1>4. CASE CloseIdle \/ IdleStep
  BY <1>4, Zenon
    DEF CloseIdle, AcceptEvent, IdleStep, AcceptIdle, CloseAccepted, ReopenIdle, BaseMoves
<1>5. CASE BaseStops \/ Destruct \/ DestroyAcceptor
  BY <1>5, Zenon DEF BaseStops, Destruct, DestroyAcceptor, BaseMoves
<1>6. CASE StopStep /\ OnlyThreads
  BY <1>6, Zenon DEF StopStep, TestLoop, QuitLoop, WakeupLoop, JoinThread, BaseMoves
<1>7. ASSUME NEW i \in IoThreads, ThreadStep(i) /\ OnlyThreads
      PROVE  /\ UNCHANGED <<connections_, conn, queue, held, forcing, overwritten, backlog, come>>
             /\ base # "destory" \/ base' = base
  BY <1>7, Zenon DEF ThreadStep, ConstructLoop, PublishLoop, LeaveLoop, ClearLoop
<1>8. ASSUME NEW i \in IoThreads, UserQuits(i) /\ OnlyThreads
      PROVE  UNCHANGED <<connections_, conn, queue, held, forcing, overwritten, backlog, come, thread, loops_, base>>
  BY <1>8 DEF UserQuits
<1>9. CASE ClientComes \/ ClientGivesUp
  BY <1>9, Zenon DEF ClientComes, ClientGivesUp
<1>10. CASE OtherOpens \/ OtherCloses \/ UNCHANGED vars
  BY <1>10, Zenon DEF OtherOpens, OtherCloses, vars
<1>11. \/ Start \/ Listen \/ (StartStep /\ OnlyThreads) \/ (SpuriousWakeup /\ OnlyThreads)
       \/ CloseIdle \/ IdleStep \/ BaseStops \/ Destruct \/ DestroyAcceptor \/ (StopStep /\ OnlyThreads)
       \/ \E i \in IoThreads : (ThreadStep(i) /\ OnlyThreads) \/ (UserQuits(i) /\ OnlyThreads)
       \/ ClientComes \/ ClientGivesUp \/ OtherOpens \/ OtherCloses \/ UNCHANGED vars
  BY <1>0, Zenon DEF Next, StartCall, HandleRead, StopCall, IoThreadStep, Busy
<1>12. QED
  BY <1>1, <1>2, <1>3, <1>4, <1>5, <1>6, <1>7, <1>8, <1>9, <1>10, <1>11, Zenon

\* An aborted process does nothing more.
LEMMA Stopped == ~Running /\ [Next]_vars => UNCHANGED vars
  BY Zenon
    DEF Next, Start, StartCall, StartStep, SpawnThread, CheckLoop, ReturnLoop, Listen, SpuriousWakeup,
         HandleRead, Accept, CloseIdle, AcceptEvent, IdleStep, AcceptIdle, CloseAccepted, ReopenIdle,
         LoopStep, RunFunctor, EndBatch, LoopRuns, BaseStops, Destruct, StopCall, DestoryNext, StopStep,
         TestLoop, QuitLoop, WakeupLoop, JoinThread, DestroyAcceptor, BaseMoves, IoThreadStep, ThreadStep,
         ConstructLoop, PublishLoop, LeaveLoop, ClearLoop, EndOfThread, EndThread, Moves, UserQuits,
         HandleClose, UserEnds, UserShutdown, ForceClose, StoreDisconnecting,
         ClientComes, ClientGivesUp, OtherOpens, OtherCloses

\* Every step keeps what is said of the connections.
LEMMA ConnsInductive ==
  ASSUME Live, Running, [Next]_vars
  PROVE  ServerTypes' /\ Conns'
<1>1. CASE Busy
  BY <1>1, BusyKeeps DEF Kept, Conns
<1>2. CASE ~Busy
  <2>1. UNCHANGED <<connections_, conn, queue, held, forcing, overwritten>>
    BY <1>2, NotBusy
  <2>2. Places' /\ DistinctFds'
    BY <1>2, NotBusy, ThreadsQuiet
  <2>3. ServerTypes' /\ Waiting'
    <3>1. CASE ClientComes \/ ClientGivesUp
      BY <3>1, ComesAndGoes DEF Live
    <3>2. CASE come' = come /\ backlog' = backlog
      BY <2>1, <3>2, SameWaiting DEF Live, ServerTypes
    <3>3. CASE come' = come /\ backlog' = << >>
      <4>1. backlog' \in Seq(Clients) /\ In(backlog') = {} /\ Distinct(backlog')
        BY <3>3, InEmpty, EmptySeq
      <4>2. ServerTypes'
        BY <2>1, <3>3, <4>1 DEF Live, ServerTypes
      <4>3. \A c \in In(backlog') \cup {d \in Clients : d > come} : conn'[c].at = "none"
        BY <2>1, <4>1, Zenon DEF Live, Waiting
      <4>4. QED
        BY <3>3, <4>1, <4>2, <4>3, WaitingKept, Zenon DEF Live
    <3>4. CASE come' = come /\ backlog # << >> /\ backlog' = Tail(backlog)
      <4>1. Waiting' /\ backlog' \in Seq(Clients)
        BY <2>1, <3>4, FirstServed DEF Live
      <4>2. QED
        BY <2>1, <3>4, <4>1 DEF Live, ServerTypes
    <3>5. QED
      BY <1>2, <3>1, <3>2, <3>3, <3>4, NotBusy
  <2>4. QED
    BY <2>2, <2>3 DEF Conns
<1>3. QED
  BY <1>1, <1>2

\* The loop of a thread that has ended was quit by user code, as long as the pool lives.
LEMMA DeadLoop ==
  ASSUME PInv, base \notin Ending, NEW i \in 1..Len(loops_), ~LoopAlive(i)
  PROVE  userQuit # {}
<1>1. i \in IoThreads /\ thread[i] \in ThreadStates \ {"none", "start", "init"}
  BY LoopsAre, Zenon DEF PInv, PoolTypes, Pool
<1>2. thread[i] = "done"
  BY <1>1, LoopsAre DEF ThreadStates
<1>3. quit_[i] /\ joined = 0
  BY <1>1, <1>2, Zenon DEF PInv, Pool, Quits
<1>4. i \in userQuit
  BY <1>1, <1>3 DEF PInv, Quits, Ending, InStop
<1>5. QED
  BY <1>4, Zenon

\* The thread to be joined next.
LEMMA JoiningIs ==
  ASSUME PInv, joined < Len(loops_)
  PROVE  Joining \in 1..Len(loops_) /\ Joining \in IoThreads /\ Joining > joined
<1>1. joined \in Nat /\ loops_ \in Seq(Int)
  BY Zenon DEF PInv, PoolTypes
<1>2. Joining \in 1..Len(loops_) /\ Joining > joined
  <2>1. Len(loops_) \in Nat
    BY ONLY <1>1
  <2>2. QED
    BY <1>1, <2>1 DEF Joining
<1>3. QED
  BY <1>2, LoopsAre, Zenon

\* When ~TcpServer has returned no thread is left.
LEMMA AllJoined ==
  ASSUME PInv, base = "gone"
  PROVE  \A i \in IoThreads : thread[i] \in {"none", "done"}
<1>1. Spawned = Len(loops_) /\ joined = Len(loops_) /\ Len(loops_) \in Nat
  BY DEF PInv, PoolTypes, Quits, Spawned, InStart
<1>2. ASSUME NEW i \in IoThreads PROVE thread[i] \in {"none", "done"}
  <2>1. (thread[i] = "none" <=> i > Spawned) /\ (i \in 1..joined => thread[i] = "done")
    BY Zenon DEF PInv, Pool, Quits
  <2>2. i > Spawned \/ i \in 1..joined
    BY ONLY <1>1, i \in IoThreads DEF IoThreads
  <2>3. QED
    BY <2>1, <2>2, Zenon
<1>3. QED
  BY <1>2, Zenon

\* The ways a process ends.
LEMMA AbortsInductive ==
  ASSUME Live, Fresh, Running, [Next]_vars
  PROVE  NoSurprise'
<1> USE
  DEF poolVars, threadVars, acceptorVars, connVars, clientVars, loopVars, otherVars, forceVars, OnlyThreads
<1>0. PInv
  BY DEF Live
<1>1. ASSUME aborted' = aborted PROVE NoSurprise'
  BY <1>1, Zenon DEF NoSurprise, Running
<1>2. ASSUME aborted' \in {"no", "terminate", "nullLoop", "danglingLoop"}, aborted' # "no" => userQuit' # {}
      PROVE  NoSurprise'
  BY <1>2, Zenon DEF NoSurprise
<1>3. CASE Start
  <2>1. CASE aborted' = aborted
    BY <1>1, <2>1
  <2>2. CASE aborted' # aborted
    <3>1. starts \in Nat /\ starts < 2 /\ starts # 0 /\ starts' = starts + 1 /\ aborted' = "started"
      BY <1>3, <2>2 DEF Start, Fresh
    <3>2. starts' = 2
      BY ONLY <3>1
    <3>3. QED
      BY <3>1, <3>2, Zenon DEF NoSurprise
  <2>3. QED
    BY <2>1, <2>2
<1>4. CASE Accept
  <2>1. userQuit' = userQuit /\ base = "free"
    BY <1>4 DEF Accept, AcceptEvent
  <2>2. aborted' = aborted \/ (aborted' = "danglingLoop" /\ getNextLoop # 0 /\ ~LoopAlive(getNextLoop))
    BY <1>4 DEF Accept, newConnectionCallback, QueueInLoop
  <2>3. CASE aborted' = "danglingLoop" /\ getNextLoop # 0 /\ ~LoopAlive(getNextLoop)
    <3>1. base \notin Ending
      BY <2>1 DEF Ending, InStop
    <3>2. userQuit # {}
      BY <1>0, <2>3, <3>1, NextLoop, DeadLoop
    <3>3. QED
      BY <1>2, <2>1, <2>3, <3>2
  <2>4. QED
    BY <1>1, <2>2, <2>3
<1>5. ASSUME NEW l \in Loops, RunFunctor(l) PROVE NoSurprise'
  <2>f. PICK f : f = Head(queue[l])
    OBVIOUS
  <2>q. PICK q : q = [queue EXCEPT ![l] = Tail(@)]
    BY Zenon
  <2>1. userQuit' = userQuit /\ LoopRuns(l) /\ queue[l] # << >>
    BY <1>5 DEF RunFunctor
  <2>2. f.op = "removeConnectionInLoop" => removeConnectionInLoop(f.conn, q)
    BY <1>5, <2>f, <2>q, Zenon DEF RunFunctor
  <2>3. \/ aborted' = aborted
        \/ aborted' = "channelMap" /\ overwritten' # {}
        \/ aborted' = "danglingLoop" /\ f.op = "removeConnectionInLoop"
    BY <1>5, <2>f, RunFunctorKeeps, Zenon
  <2>4. CASE aborted' = aborted
    BY <1>1, <2>4
  <2>c. CASE aborted' = "channelMap" /\ overwritten' # {}
    BY <2>c, Zenon DEF NoSurprise
  <2>5. CASE aborted' = "danglingLoop" /\ f.op = "removeConnectionInLoop"
    <3>1. /\ f.op = "removeConnectionInLoop" /\ aborted' = "danglingLoop" /\ ~LoopAlive(conn[f.conn].loop)
      BY <2>2, <2>5 DEF removeConnectionInLoop, Running
    <3>2. Takes(q, queue, l)
      BY <2>1, <2>q, LiveTypes DEF Takes
    <3>3. Runs(l, f, f.conn, q)
      BY <2>1, <2>f, <3>2, Zenon DEF Runs
    <3>4. f.conn \in Clients /\ Sent(l, f)
      BY <3>3, TakenFunctor, Zenon DEF Taken
    <3>5. l = 0 /\ conn[f.conn].loop # 0
      BY <3>1, <3>4, Zenon DEF Sent
    <3>6. conn[f.conn].loop \in 0..Len(loops_)
      BY <3>4, LiveTypes, Zenon DEF Place
    <3>7. base = "free"
      BY <2>1, <3>5, Zenon DEF LoopRuns
    <3>8. base \notin Ending /\ conn[f.conn].loop \in 1..Len(loops_)
      BY <3>5, <3>6, <3>7 DEF Ending, InStop
    <3>9. userQuit # {}
      BY <1>0, <3>1, <3>8, DeadLoop
    <3>10. QED
      BY <1>2, <2>1, <3>1, <3>9
  <2>6. QED
    BY <2>3, <2>4, <2>c, <2>5
<1>6. CASE DestoryNext
  <2>n. numOfThreads_' = numOfThreads_
    BY <1>6, Zenon DEF DestoryNext
  <2>d. \/ aborted' = aborted
        \/ /\ aborted' = "notInLoopThread" /\ base' = "destory"
           /\ \E c \in connections_ : conn[c].loop # 0
        \/ /\ aborted' = "isNoneEvent" /\ base' = "destory"
           /\ \E c \in connections_' : conn'[c].loop = 0 /\ conn'[c].at = "shut"
    BY <1>6, DestoryKeeps, Zenon
  <2>1. CASE aborted' = aborted
    BY <1>1, <2>1
  <2>s. CASE /\ aborted' = "isNoneEvent" /\ base' = "destory"
             /\ \E c \in connections_' : conn'[c].loop = 0 /\ conn'[c].at = "shut"
    BY <2>s DEF NoSurprise
  <2>2. CASE /\ aborted' = "notInLoopThread" /\ base' = "destory"
             /\ \E c \in connections_ : conn[c].loop # 0
    <3>3. PICK c \in connections_ : conn[c].loop # 0
      BY <2>2
    <3>4. conn[c].loop \in 0..Len(loops_)
      BY LiveTypes, Zenon DEF Place
    <3>5. numOfThreads_ > 0
      <4>1. numOfThreads_ \in 0..MaxThreads /\ loops_ \in Seq(Int) /\ Spawned <= numOfThreads_
        BY <1>0, Zenon DEF PInv, PoolTypes, Pool
      <4>2. Len(loops_) \in Nat /\ Len(loops_) > 0
        BY ONLY <3>3, <3>4, <4>1
      <4>3. QED
        BY <4>1, <4>2 DEF Spawned
    <3>6. QED
      BY <2>n, <2>2, <3>5 DEF NoSurprise
  <2>3. QED
    BY <2>d, <2>1, <2>s, <2>2, Zenon
<1>7. CASE TestLoop \/ QuitLoop
  <2>1. CASE aborted' = aborted
    BY <1>1, <2>1
  <2>2. CASE aborted' # aborted
    <3>1. /\ aborted' \in {"terminate", "nullLoop"} /\ userQuit' = userQuit /\ base \in {"pool", "quit"}
          /\ ~loop_[Joining] /\ joined < Len(loops_)
      BY <1>0, <1>7, <2>2 DEF TestLoop, QuitLoop, PInv, Quits, InStop
    <3>2. Joining \in 1..Len(loops_) /\ Joining \in IoThreads /\ Joining > joined
      BY <1>0, <3>1, JoiningIs, Zenon
    <3>3. thread[Joining] \in {"cleared", "done"}
      BY <1>0, <3>1, <3>2, Zenon DEF PInv, PoolTypes, Pool, ThreadStates
    <3>4. quit_[Joining]
      BY <1>0, <3>2, <3>3 DEF PInv, Pool
    <3>5. Joining \in userQuit
      BY <1>0, <3>1, <3>2, <3>4 DEF PInv, PoolTypes, Quits
    <3>6. QED
      BY <1>2, <3>1, <3>5
  <2>3. QED
    BY <2>1, <2>2
<1>8. CASE WakeupLoop
  <2>1. CASE aborted' = aborted
    BY <1>1, <2>1
  <2>2. CASE aborted' # aborted
    <3>1. /\ aborted' = "quitLate" /\ base = "wakeup" /\ base' = base /\ ~LoopAlive(Joining)
          /\ UNCHANGED <<quit_, thread, joined>>
      BY <1>8, <2>2 DEF WakeupLoop
    <3>2. quit_[Joining] /\ joined < Len(loops_)
      BY <1>0, <3>1 DEF PInv, Quits, InStop
    <3>3. Joining \in 1..Len(loops_) /\ Joining \in IoThreads /\ Joining' = Joining
      BY <1>0, <3>1, <3>2, JoiningIs, Zenon DEF Joining
    <3>4. thread[Joining] = "done"
      BY <1>0, <3>1, <3>3, LoopsAre, Zenon DEF PInv, PoolTypes, Pool, ThreadStates
    <3>5. (base = "wakeup" /\ quit_[Joining] /\ thread[Joining] \in {"cleared", "done"})'
      BY <3>1, <3>2, <3>3, <3>4, Zenon
    <3>6. QED
      BY <3>1, <3>5, Zenon DEF NoSurprise
  <2>3. QED
    BY <2>1, <2>2
<1>9. ASSUME NEW c \in Clients, HandleClose(c) PROVE NoSurprise'
  BY <1>1, <1>9, HandleCloseKeeps, Zenon
<1>u. ASSUME NEW c \in Clients, UserEnds(c) PROVE NoSurprise'
  <2>1. \/ aborted' = aborted
        \/ aborted' = "danglingLoop" /\ c \in forcing' /\ ~LoopAlive(conn[c].loop)
    BY <1>u, UserEndsKeeps, Zenon
  <2>2. userQuit' = userQuit /\ base' = base
    BY <1>u, Zenon DEF UserEnds, UserShutdown, ForceClose, StoreDisconnecting
  <2>3. CASE aborted' = "danglingLoop" /\ c \in forcing' /\ ~LoopAlive(conn[c].loop)
    <3>1. CASE base \in Ending
      BY <2>2, <2>3, <3>1, Zenon DEF NoSurprise, Ending, InStop
    <3>2. CASE base \notin Ending
      <4>1. conn[c].loop \in 0..Len(loops_)
        BY LiveTypes, Zenon DEF Place
      <4>2. conn[c].loop # 0
        BY <2>3 DEF LoopAlive
      <4>3. conn[c].loop \in 1..Len(loops_)
        BY <4>1, <4>2
      <4>4. userQuit # {}
        BY <1>0, <2>3, <3>2, <4>3, DeadLoop, Zenon
      <4>5. QED
        BY <1>2, <2>2, <2>3, <4>4
    <3>3. QED
      BY <3>1, <3>2
  <2>4. QED
    BY <1>1, <2>1, <2>3
<1>10. CASE \/ StartCall \/ SpuriousWakeup \/ CloseIdle \/ IdleStep \/ BaseStops \/ Destruct \/ JoinThread \/ DestroyAcceptor
            \/ ClientComes \/ ClientGivesUp \/ OtherOpens \/ OtherCloses \/ UNCHANGED vars
  <2>1. aborted' = aborted
    BY <1>10, Zenon
      DEF StartCall, StartStep, SpawnThread, CheckLoop, ReturnLoop, Listen, SpuriousWakeup,
         CloseIdle, IdleStep, AcceptIdle, CloseAccepted, ReopenIdle, BaseStops, Destruct, JoinThread, DestroyAcceptor,
         ClientComes, ClientGivesUp, OtherOpens, OtherCloses, vars
  <2>2. QED
    BY <1>1, <2>1
<1>11. ASSUME NEW i \in Loops, \/ EndBatch(i) \/ ThreadStep(i) \/ EndOfThread(i) \/ UserQuits(i) PROVE aborted' = aborted
  BY <1>11, Zenon
    DEF EndBatch, ThreadStep, ConstructLoop, PublishLoop, LeaveLoop, ClearLoop, EndOfThread, EndThread, UserQuits
<1>12. 0 \in Loops /\ \A i \in IoThreads : i \in Loops
  BY DEF Loops, IoThreads
<1>13. \/ Start \/ Accept \/ DestoryNext \/ TestLoop \/ QuitLoop \/ WakeupLoop
       \/ \E l \in Loops : RunFunctor(l) \/ EndBatch(l) \/ ThreadStep(l) \/ EndOfThread(l) \/ UserQuits(l)
       \/ \E c \in Clients : HandleClose(c) \/ UserEnds(c)
       \/ StartCall \/ SpuriousWakeup \/ CloseIdle \/ IdleStep \/ BaseStops \/ Destruct \/ JoinThread \/ DestroyAcceptor
       \/ ClientComes \/ ClientGivesUp \/ OtherOpens \/ OtherCloses \/ UNCHANGED vars
  BY <1>12, Zenon DEF Next, HandleRead, StopCall, StopStep, IoThreadStep, LoopStep
<1>14. QED
  BY <1>1, <1>3, <1>4, <1>5, <1>6, <1>7, <1>8, <1>9, <1>u, <1>10, <1>11, <1>13

\* A functor that erases a connection runs on the base loop, which is left before ~TcpServer.
LEMMA RunsBeforeEnd ==
  ASSUME Live, NEW l \in Loops, RunFunctor(l)
  PROVE  base = "free" \/ (held'[0] = held[0] /\ connections_' = connections_)
<1>f. PICK f : f = Head(queue[l])
  OBVIOUS
<1>q. PICK q : q = [queue EXCEPT ![l] = Tail(@)]
  BY Zenon
<1>1. LoopRuns(l) /\ queue[l] # << >> /\ held' = [held EXCEPT ![l] = @ \cup {f.conn}]
  BY <1>f, Zenon DEF RunFunctor
<1>2. \/ f.op = "removeConnectionInLoop" \/ connections_' = connections_
      \/ f.op = "forceCloseInLoop" /\ forceCloseInLoop(f.conn, q)
  BY <1>f, <1>q, Zenon DEF RunFunctor
<1>3. CASE l = 0
  BY <1>1, <1>3 DEF LoopRuns
<1>4. CASE l # 0
  <2>1. held'[0] = held[0]
    <3>1. held \in [Loops -> SUBSET Clients]
      BY LiveTypes, Zenon
    <3>2. 0 \in Loops
      BY DEF Loops
    <3>3. QED
      BY <1>1, <1>4, <3>1, <3>2, Zenon
  <2>2. Takes(q, queue, l)
    BY <1>1, <1>q, LiveTypes, Zenon DEF Takes
  <2>3. Runs(l, f, f.conn, q)
    BY <1>1, <1>f, <2>2, Zenon DEF Runs
  <2>4. Sent(l, f)
    BY <2>3, TakenFunctor, Zenon DEF Taken
  <2>5. f.op # "removeConnectionInLoop" /\ (f.op = "forceCloseInLoop" => conn[f.conn].loop # 0)
    BY <1>4, <2>4, Zenon DEF Sent
  <2>6. QED
    BY <1>2, <2>1, <2>5, Zenon DEF forceCloseInLoop, handleClose, connVars
<1>5. QED
  BY <1>3, <1>4

\* ~TcpServer, step by step.
LEMMA ShutdownInductive ==
  ASSUME Live, Shutdown, Running, [Next]_vars
  PROVE  Shutdown'
<1> USE
  DEF poolVars, threadVars, acceptorVars, connVars, clientVars, loopVars, otherVars, forceVars, OnlyThreads
<1> DEFINE Stop == {"stopped", "destory"} \cup Ending
           Same == held'[0] = held[0] /\ connections_' = connections_ /\ idleFd_' = idleFd_
<1>1. ASSUME base' \notin Stop PROVE Shutdown'
  BY <1>1, Zenon DEF Shutdown, Ending
<1>2. ASSUME Same, base' = base \/ (base \in Ending /\ base' \in Ending \ {"gone"}) PROVE Shutdown'
  BY <1>2, Zenon DEF Shutdown, Running, Ending, InStop
<1>3. ASSUME base # "gone", base' = base, held'[0] = held[0], connections_' = connections_ PROVE Shutdown'
  BY <1>3, Zenon DEF Shutdown
<1>4. 0 \in Loops /\ held \in [Loops -> SUBSET Clients] /\ \A i \in IoThreads : i \in Loops /\ i # 0
  BY LiveTypes DEF Loops, IoThreads
<1>5. ASSUME base = "gone" PROVE \A i \in IoThreads : thread[i] \in {"none", "done"}
  BY <1>5, AllJoined DEF Live
<1>6. CASE \/ Start \/ StartCall \/ SpuriousWakeup \/ HandleRead \/ IdleStep
  <2>1. base' \notin Stop
    BY <1>6, Zenon
      DEF Start, StartCall, StartStep, SpawnThread, CheckLoop, ReturnLoop, Listen, SpuriousWakeup, BaseMoves,
         HandleRead, Accept, AcceptEvent, CloseIdle, IdleStep, AcceptIdle, CloseAccepted, ReopenIdle, Ending, InStop
  <2>2. QED
    BY <1>1, <2>1
<1>7. CASE BaseStops
  BY <1>7, Zenon DEF BaseStops, BaseMoves, Shutdown, Ending, InStop
<1>8. CASE Destruct
  BY <1>8, Zenon DEF Destruct, BaseMoves, Shutdown, Ending, InStop
<1>9. CASE DestoryNext
  BY <1>9, Zenon DEF DestoryNext, Shutdown, Ending, InStop
<1>10. CASE StopStep /\ OnlyThreads
  <2>1. base \in Ending /\ base # "gone" /\ base' \in Ending \ {"gone"} /\ held' = held /\ connections_' = connections_
    BY <1>10, Zenon
      DEF StopStep, TestLoop, QuitLoop, WakeupLoop, JoinThread, BaseMoves, Ending, InStop
  <2>2. QED
    BY <2>1, Zenon DEF Shutdown
<1>11. CASE DestroyAcceptor
  BY <1>11, Zenon DEF DestroyAcceptor, BaseMoves, Shutdown, Running, Ending
<1>12. CASE ClientComes \/ ClientGivesUp \/ OtherOpens \/ OtherCloses \/ UNCHANGED vars
  <2>1. Same /\ base' = base
    BY <1>12, Zenon DEF ClientComes, ClientGivesUp, OtherOpens, OtherCloses, vars
  <2>2. QED
    BY <1>2, <2>1
<1>13. ASSUME NEW i \in IoThreads, (ThreadStep(i) \/ UserQuits(i)) /\ OnlyThreads PROVE Shutdown'
  <2>1. Same
    BY <1>13, Zenon DEF ThreadStep, ConstructLoop, PublishLoop, LeaveLoop, ClearLoop, UserQuits
  <2>2. base' = base \/ base' = "check"
    BY <1>13, Zenon DEF ThreadStep, ConstructLoop, PublishLoop, LeaveLoop, ClearLoop, UserQuits
  <2>3. QED
    BY <1>1, <1>2, <2>1, <2>2, Zenon DEF Ending, InStop
<1>14. ASSUME NEW i \in IoThreads, EndOfThread(i) PROVE Shutdown'
  <2>1. /\ base' = base /\ connections_' = connections_ /\ idleFd_' = idleFd_
        /\ held' = [held EXCEPT ![i] = {}]
    BY <1>14 DEF EndOfThread, EndThread
  <2>2. held'[0] = held[0]
    BY <1>4, <2>1
  <2>3. QED
    BY <1>2, <2>1, <2>2
<1>15. ASSUME NEW l \in Loops, LoopStep(l) PROVE Shutdown'
  <2>1. base' = base /\ LoopRuns(l)
    BY <1>15, Zenon DEF LoopStep, RunFunctor, EndBatch
  <2>2. base # "gone"
    BY <1>5, <2>1 DEF LoopRuns, Loops, IoThreads
  <2>3. CASE base = "free"
    BY <1>1, <2>1, <2>3 DEF Ending, InStop
  <2>4. CASE base # "free"
    <3>1. l # 0
      BY <2>1, <2>4 DEF LoopRuns
    <3>2. held'[0] = held[0] /\ connections_' = connections_
      BY <1>4, <1>15, <2>4, <3>1, RunsBeforeEnd DEF LoopStep, EndBatch
    <3>3. QED
      BY <1>3, <2>1, <2>2, <3>2
  <2>5. QED
    BY <2>3, <2>4, Zenon
<1>16. ASSUME NEW c \in Clients, HandleClose(c) PROVE Shutdown'
  <2>1. base' = base /\ LoopRuns(conn[c].loop) /\ held' = held
    BY <1>16, Zenon DEF HandleClose
  <2>2. conn[c].loop \in Loops
    BY LiveTypes, Zenon
  <2>3. base # "gone"
    BY <1>5, <2>1, <2>2 DEF LoopRuns, Loops, IoThreads
  <2>4. CASE conn[c].loop = 0
    BY <1>1, <2>1, <2>4, Zenon DEF LoopRuns, Ending, InStop
  <2>5. CASE conn[c].loop # 0
    <3>1. connections_' = connections_
      BY <1>16, <2>5, Zenon DEF HandleClose, handleClose
    <3>2. QED
      BY <1>3, <2>1, <2>3, <3>1
  <2>6. QED
    BY <2>4, <2>5
<1>u. ASSUME NEW c \in Clients, UserEnds(c) PROVE Shutdown'
  <2>1. Same /\ base' = base
    BY <1>u, Zenon DEF UserEnds, UserShutdown, ForceClose, StoreDisconnecting
  <2>2. QED
    BY <1>2, <2>1
<1>17. \/ Start \/ StartCall \/ SpuriousWakeup \/ HandleRead \/ IdleStep \/ BaseStops \/ Destruct
       \/ DestoryNext \/ (StopStep /\ OnlyThreads) \/ DestroyAcceptor
       \/ ClientComes \/ ClientGivesUp \/ OtherOpens \/ OtherCloses \/ UNCHANGED vars
       \/ \E i \in IoThreads : ((ThreadStep(i) \/ UserQuits(i)) /\ OnlyThreads) \/ EndOfThread(i)
       \/ \E l \in Loops : LoopStep(l)
       \/ \E c \in Clients : HandleClose(c) \/ UserEnds(c)
  BY <1>4, Zenon DEF Next, StopCall, IoThreadStep
<1>18. QED
  BY <1>6, <1>7, <1>8, <1>9, <1>10, <1>11, <1>12, <1>13, <1>14, <1>15, <1>16, <1>u, <1>17, Zenon

--------------------------------------------------------------------------------
(* The theorems.                                                           *)

\* The inductive invariant.
SInv == PInv /\ Fresh /\ ServerTypes /\ Conns /\ Shutdown /\ NoSurprise

\* The constructors establish the inductive invariant.
LEMMA ServerStarts == Init => SInv
<1> SUFFICES ASSUME Init PROVE SInv
  OBVIOUS
<1>1. PInv
  BY PoolStarts
<1>2. Fresh
  BY DEF Init, PoolInit, Fresh, InStart
<1>3. ServerTypes
  BY EmptySeq DEF Init, ServerTypes, Ats, NoFd
<1>4. \A l \in Loops : queue[l] = << >> /\ held[l] = {}
  BY DEF Init
<1>5. \A c \in Clients : conn[c].at = "none" /\ conn[c].loop = 0
  BY DEF Init
<1>6. /\ connections_ = {} /\ loops_ = << >> /\ base = "free" /\ aborted = "no" /\ backlog = << >>
      /\ forcing = {} /\ overwritten = {}
  BY DEF Init, PoolInit
<1>7. Waiting
  BY <1>5, <1>6, InEmpty DEF Waiting
<1>8. Places
  <2>1. \A c \in Clients : Place(c)
    <3>1. 0 \in 0..Len(loops_)
      BY ONLY <1>6
    <3>2. QED
      BY <1>5, <1>6, <3>1, Zenon DEF Place
  <2>2. \A l \in Loops : Queue(l)
    BY <1>4, InEmpty, Zenon DEF Queue
  <2>3. QED
    BY <2>1, <2>2, Zenon DEF Places
<1>9. DistinctFds
  <2>1. \A c : c \notin Alive
    BY <1>4, <1>6, AliveIs, InEmpty, Zenon
  <2>2. QED
    BY <2>1 DEF DistinctFds
<1>10. Shutdown /\ NoSurprise
  BY <1>6 DEF Shutdown, NoSurprise, Ending, InStop
<1>11. QED
  BY <1>1, <1>2, <1>3, <1>7, <1>8, <1>9, <1>10 DEF SInv, Conns

\* Every step keeps it; an aborted process takes none.
LEMMA ServerInductive == SInv /\ [Next]_vars => SInv'
<1> SUFFICES ASSUME SInv, [Next]_vars PROVE SInv'
  OBVIOUS
<1>1. PInv' /\ Fresh'
  BY PoolInductive DEF SInv
<1>2. CASE Running
  <2>1. Live
    BY <1>2 DEF SInv, Conns, Live
  <2>2. ServerTypes' /\ Conns'
    BY <1>2, <2>1, ConnsInductive
  <2>3. Shutdown'
    BY <1>2, <2>1, ShutdownInductive DEF SInv
  <2>4. NoSurprise'
    BY <1>2, <2>1, AbortsInductive DEF SInv
  <2>5. QED
    BY <1>1, <2>2, <2>3, <2>4 DEF SInv
<1>3. CASE ~Running
  <2>1. UNCHANGED vars
    BY <1>3, Stopped
  <2>2. ServerTypes'
    BY <2>1, Zenon DEF SInv, ServerTypes, vars, connVars, loopVars, clientVars, forceVars
  <2>3. Conns'
    BY <1>3, <2>1, Zenon DEF Conns, Running, vars
  <2>4. Shutdown'
    BY <2>1, Zenon DEF SInv, Shutdown, Running, vars, connVars, loopVars, acceptorVars
  <2>5. NoSurprise'
    BY <2>1, Zenon DEF SInv, NoSurprise, Joining, vars, threadVars, poolVars, connVars, forceVars
  <2>6. QED
    BY <1>1, <2>2, <2>3, <2>4, <2>5 DEF SInv
<1>4. QED
  BY <1>2, <1>3

\* Whatever the number of threads, clients and descriptors, and wherever shutdown() and
\* forceClose() come in, the process of a server ends by itself only when start() is called
\* twice, user code quits an io loop, ~TcpServer meets a connection of an io loop
\* (TcpServer.cc:33), quit() comes too late to wake the loop that is joined next
\* (EventLoop.cc:121-128), or a forceClose() outlives the io loop of its connection
\* (TcpConnection.cc:67).  removeChannel's assertion that the channel is registered
\* (Epoller.cc:99) fails only after a forceClose() that stored its state on a closed
\* connection, and the one that it has no events (Epoller.cc:98) only in ~TcpServer, on a
\* connection of the base loop that was shut down and still reads.
THEOREM OnlyKnownEnds == Spec => []NoSurprise
<1>1. SInv => NoSurprise
  BY DEF SInv
<1>2. QED
  BY <1>1, ServerStarts, ServerInductive, PTL DEF Spec

\* A connection with a channel in a living loop is alive, closed twice or not, and no two
\* share a descriptor: the shared_ptr travels with the functors of removeConnection
\* (TcpServer.cc:80, 90).  connections_ has exactly the connections whose removal has not
\* reached the base loop, but for those closed twice.
THEOREM ServerKeepsConnections == Spec => []ConnectionsAccounted
<1>1. SInv => ConnectionsAccounted
  <2> SUFFICES ASSUME SInv, Running PROVE ConnectionsAccounted
    BY Zenon DEF ConnectionsAccounted
  <2>1. Live
    BY DEF SInv, Conns, Live
  <2>2. 0 \in Loops /\ \A c \in Clients : Place(c) /\ conn[c].loop \in Loops
    BY <2>1, LiveTypes, LoopsAre, Zenon DEF Live
  <2>3. ASSUME NEW c \in Registered, LoopAlive(conn[c].loop) PROVE c \in Alive
    <3>1. c \in Clients /\ conn[c].at \in {"up", "shut", "closed"}
      BY <2>3, Zenon DEF Registered
    <3>2. c \in connections_ \/ Removing(c) \/ Destroying(c)
      BY <2>2, <2>3, <3>1, Zenon DEF Place
    <3>3. Functor("removeConnectionInLoop", c).conn = c /\ Functor("destoryConnection", c).conn = c
      BY Zenon DEF Functor
    <3>4. QED
      BY <2>2, <3>1, <3>2, <3>3, AliveIs, Zenon DEF Removing, Destroying
  <2>4. ASSUME base # "destory", NEW c \in Clients \ overwritten
        PROVE  c \in connections_ <=> \/ conn[c].at \in {"connecting", "up", "shut"}
                                      \/ conn[c].at = "closed" /\ Removing(c)
    <3>1. Place(c) /\ conn[c].at \in Ats
      BY <2>1, <2>2, LiveTypes, Zenon
    <3>2. Removing(c) => c \in connections_
      <4>1. Functor("removeConnectionInLoop", c).op = "removeConnectionInLoop"
            /\ Functor("removeConnectionInLoop", c).conn = c
        BY DEF Functor
      <4>2. Removing(c) => Sent(0, Functor("removeConnectionInLoop", c))
        BY <2>1, <2>2, LiveTypes, Zenon DEF Removing
      <4>3. QED
        BY <2>4, <4>1, <4>2, Zenon DEF Sent
    <3>3. QED
      BY <2>4, <3>1, <3>2, Zenon DEF Place, Ats
  <2>5. \A c \in Clients :
          Removing(c) <=> \E i \in 1..Len(queue[0]) : queue[0][i] = Functor("removeConnectionInLoop", c)
    BY Zenon DEF Removing, In
  <2>6. DistinctFds
    BY <2>1 DEF Live
  <2>7. QED
    BY <2>3, <2>4, <2>5, <2>6, Zenon DEF ConnectionsAccounted, DistinctFds
<1>2. QED
  BY <1>1, ServerStarts, ServerInductive, PTL DEF Spec

\* When ~TcpServer has returned every io thread is joined (EventLoopThread.cc:15-23), no
\* connection is up or shut down but reading, and only connections whose functor waits in the
\* base loop or that another thread's forceClose() holds have a descriptor.
THEOREM ServerCleansUp == Spec => []NothingLeft
<1>1. SInv => NothingLeft
  <2> SUFFICES ASSUME SInv, base = "gone", Running PROVE NothingLeft
    BY Zenon DEF NothingLeft
  <2>1. idleFd_ = NoFd /\ connections_ = {} /\ held[0] = {}
    BY DEF SInv, Shutdown, Ending
  <2>2. Live
    BY <2>1 DEF SInv, Conns, Live
  <2>3. \A i \in IoThreads : thread[i] \in {"none", "done"}
    BY <2>2, AllJoined DEF Live
  <2>4. \A c \in Clients : conn[c].at \notin {"up", "shut"}
    BY <2>1, <2>2, LiveTypes, Zenon DEF Place
  <2>5. \A l \in Loops : l # 0 => queue[l] = << >> /\ held[l] = {}
    <3>1. \A l \in Loops : l # 0 => ~LoopAlive(l)
      BY <2>3 DEF LoopAlive, Loops, IoThreads
    <3>2. QED
      BY <2>2, <3>1, LiveTypes
  <2>6. ASSUME NEW c \in Alive, c \notin forcing PROVE c \in Holds(queue[0])
    <3>1. \E l \in Loops : c \in held[l] \/ \E f \in In(queue[l]) : f.conn = c
      BY <2>1, <2>6, AliveIs, Zenon
    <3>2. \E f \in In(queue[0]) : f.conn = c
      BY <2>1, <2>5, <3>1, InEmpty, Zenon
    <3>3. QED
      BY <3>2, Zenon DEF In, Holds
  <2>7. UsedFds \subseteq others \cup {NoFd} \cup {conn[c].fd : c \in Holds(queue[0]) \cup forcing}
    BY <2>1, <2>6, Zenon DEF UsedFds
  <2>8. QED
    BY <2>3, <2>4, <2>7, Zenon DEF NothingLeft
<1>2. QED
  BY <1>1, ServerStarts, ServerInductive, PTL DEF Spec
====
