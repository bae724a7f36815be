---------------------------- MODULE ThreadPoolProofs ----------------------------
(***************************************************************************)
(* ThreadPool for any clients, workers, tasks and size: no notify_one is   *)
(* lost, the queue keeps to its size and no task is lost or run twice.     *)
(***************************************************************************)
EXTENDS ThreadPool, FiniteSetTheorems, SequenceTheorems, TLAPS

USE ThreadsAssumption, SizeAssumption, NoTaskAssumption

PCs == {"idle", "unborn", "init", "test", "take", "waitTask", "gotTask", "task", "push",
        "waitRoom", "gotRoom", "notify", "ended"}

\* The threads at p, when f says where each one is, and their number.
Where(f, p) == {t \in Threads : f[t] = p}
Count(f, p) == Cardinality(Where(f, p))

\* Thread t moves to q.
Moved(f, t, q) == [f EXCEPT ![t] = q]

\* The first two conjuncts of QueueKept, for threads that are as f says and n queued tasks.
TaskWake(f, n) == Where(f, "waitTask") # {} => n <= Count(f, "gotTask") + Count(f, "notify")
RoomWake(f, n) == Where(f, "waitRoom") # {} => MaxSize <= n + Count(f, "gotRoom")

\* The places in q of the tasks that were not run on the spot as well.
Proper(q, d) == {i \in 1..Len(q) : q[i] \notin d}

\* Before start() there are no threads, and what is queued, or about to be, was run on
\* the spot.
Fresh ==
    /\ threads_ = {} /\ isRunning_ = FALSE
    /\ \A w \in Workers : pc[w] = "unborn"
    /\ Proper(queue_, doubled) = {}
    /\ \A t \in Threads : pc[t] \in {"push", "waitRoom", "gotRoom"} => run[t].task \in doubled

Types ==
    /\ pc \in [Threads -> PCs]
    /\ isRunning_ \in BOOLEAN
    /\ queue_ \in Seq(Tasks \cup {NoTask})
    /\ run \in [Threads -> [task : Tasks \cup {NoTask}, by : Overloads \cup {"copy"}]]

Sized == isRunning_ /\ MaxSize > 0 => Cardinality(Proper(queue_, doubled)) <= MaxSize

IInv ==
    /\ Types
    /\ owner = "constructed" => Fresh
    /\ TaskWake(pc, Len(queue_))
    /\ RoomWake(pc, Len(queue_))
    /\ Sized

--------------------------------------------------------------------------------
(* Counting threads by where they are.                                     *)

\* The number of threads at p is a number.
LEMMA CountNat ==
  ASSUME NEW f, NEW p
  PROVE  IsFiniteSet(Where(f, p)) /\ Count(f, p) \in Nat
<1>1. IsFiniteSet(Threads)
  BY FS_Union, Zenon DEF Threads
<1>2. Where(f, p) \subseteq Threads
  BY DEF Where
<1>3. IsFiniteSet(Where(f, p))
  BY <1>1, <1>2, FS_Subset
<1>4. QED
  BY <1>3, FS_CardinalityType DEF Count

\* When t moves to q, the threads at q are one more and those where it was one fewer.
LEMMA Move ==
  ASSUME NEW f \in [Threads -> PCs], NEW t \in Threads, NEW q \in PCs, NEW p, f[t] # q
  PROVE  /\ Moved(f, t, q) \in [Threads -> PCs]
         /\ p # q /\ f[t] # p => /\ Where(Moved(f, t, q), p) = Where(f, p)
                                 /\ Count(Moved(f, t, q), p) = Count(f, p)
         /\ p = q => Count(Moved(f, t, q), p) = Count(f, p) + 1
         /\ p = f[t] => Count(f, p) = Count(Moved(f, t, q), p) + 1
         /\ p # q => Where(Moved(f, t, q), p) \subseteq Where(f, p)
<1> DEFINE g == Moved(f, t, q)
<1>0. g \in [Threads -> PCs] /\ g[t] = q /\ \A s \in Threads \ {t} : g[s] = f[s]
  BY DEF Moved
<1> HIDE DEF g
<1>1. ASSUME p # q, f[t] # p PROVE Where(g, p) = Where(f, p)
  BY <1>0, <1>1 DEF Where
<1>2. ASSUME p = q PROVE Count(g, p) = Count(f, p) + 1
  <2>1. Where(g, p) = Where(f, p) \cup {t} /\ t \notin Where(f, p)
    BY <1>0, <1>2 DEF Where
  <2>2. IsFiniteSet(Where(f, p))
    BY CountNat
  <2>3. QED
    BY ONLY <2>1, <2>2, FS_AddElement DEF Count
<1>3. ASSUME p = f[t] PROVE Count(f, p) = Count(g, p) + 1
  <2>1. Where(f, p) = Where(g, p) \cup {t} /\ t \notin Where(g, p)
    BY <1>0, <1>3 DEF Where
  <2>2. IsFiniteSet(Where(g, p))
    BY CountNat
  <2>3. QED
    BY ONLY <2>1, <2>2, FS_AddElement DEF Count
<1>4. p # q => Where(g, p) \subseteq Where(f, p)
  BY <1>0 DEF Where
<1>5. QED
  BY <1>0, <1>1, <1>2, <1>3, <1>4 DEF g, Count

\* What a move does to the wakeups owed to takers.
LEMMA TaskMove ==
  ASSUME NEW f \in [Threads -> PCs], NEW t \in Threads, NEW q \in PCs, NEW n \in Int,
         f[t] # q, q # "waitTask", TaskWake(f, n)
  PROVE  /\ f[t] \notin {"gotTask", "notify"} => TaskWake(Moved(f, t, q), n)
         /\ TaskWake(Moved(f, t, q), n - 1)
         /\ f[t] \notin {"gotTask", "notify"} /\ q \in {"gotTask", "notify"} =>
              TaskWake(Moved(f, t, q), n + 1)
<1> DEFINE g == Moved(f, t, q)
           a == Count(f, "gotTask")
           b == Count(f, "notify")
           c == Count(g, "gotTask")
           d == Count(g, "notify")
<1>1. Where(g, "waitTask") # {} => n <= a + b
  BY Move DEF TaskWake
<1>2. a \in Nat /\ b \in Nat /\ c \in Nat /\ d \in Nat
  BY CountNat
<1>3. /\ f[t] # "gotTask" => (q = "gotTask" /\ c = a + 1) \/ (q # "gotTask" /\ c = a)
      /\ f[t] # "notify" => (q = "notify" /\ d = b + 1) \/ (q # "notify" /\ d = b)
      /\ f[t] = "gotTask" => a = c + 1
      /\ f[t] = "notify" => b = d + 1
  BY Move
<1> HIDE DEF g, a, b, c, d
<1>4. /\ f[t] \notin {"gotTask", "notify"} /\ n <= a + b => n <= c + d
      /\ n <= a + b => n - 1 <= c + d
      /\ f[t] \notin {"gotTask", "notify"} /\ q \in {"gotTask", "notify"} /\ n <= a + b =>
           n + 1 <= c + d
  BY <1>2, <1>3
<1>5. QED
  BY <1>1, <1>4 DEF TaskWake, g, a, b, c, d

\* What a move does to the wakeups owed to threads that wait for room.
LEMMA RoomMove ==
  ASSUME NEW f \in [Threads -> PCs], NEW t \in Threads, NEW q \in PCs, NEW n \in Int,
         f[t] # q, q # "waitRoom", RoomWake(f, n)
  PROVE  /\ f[t] # "gotRoom" => RoomWake(Moved(f, t, q), n)
         /\ RoomWake(Moved(f, t, q), n + 1)
         /\ q = "gotRoom" => RoomWake(Moved(f, t, q), n - 1)
<1> DEFINE g == Moved(f, t, q)
           a == Count(f, "gotRoom")
           c == Count(g, "gotRoom")
<1>1. Where(g, "waitRoom") # {} => MaxSize <= n + a
  BY Move DEF RoomWake
<1>2. a \in Nat /\ c \in Nat
  BY CountNat
<1>3. /\ f[t] # "gotRoom" => (q = "gotRoom" /\ c = a + 1) \/ (q # "gotRoom" /\ c = a)
      /\ f[t] = "gotRoom" => a = c + 1
      /\ q = "gotRoom" => c = a + 1
  BY Move
<1> HIDE DEF g, a, c
<1>4. /\ f[t] # "gotRoom" /\ MaxSize <= n + a => MaxSize <= n + c
      /\ MaxSize <= n + a => MaxSize <= n + 1 + c
      /\ q = "gotRoom" /\ MaxSize <= n + a => MaxSize <= n - 1 + c
  BY <1>2, <1>3
<1>5. QED
  BY <1>1, <1>4 DEF RoomWake, g, a, c

\* A notify_one on notEmpty_, by a thread that moves to f.
LEMMA TaskNotified ==
  ASSUME NEW f \in [Threads -> PCs], Where(f, "waitTask") = At("waitTask"),
         NotifyOne("waitTask", f), NEW n \in Int, NEW m \in Int, TaskWake(f, n), RoomWake(f, m)
  PROVE  /\ pc' \in [Threads -> PCs] /\ TaskWake(pc', n + 1) /\ RoomWake(pc', m)
         /\ \A s \in Threads : pc'[s] = f[s] \/ (f[s] = "waitTask" /\ pc'[s] = "gotTask")
<1>1. CASE At("waitTask") = {} /\ pc' = f
  BY <1>1 DEF TaskWake
<1>2. ASSUME NEW t \in At("waitTask"), pc' = [f EXCEPT ![t] = Woken(t)]
      PROVE  /\ pc' \in [Threads -> PCs] /\ TaskWake(pc', n + 1) /\ RoomWake(pc', m)
             /\ \A s \in Threads : pc'[s] = f[s] \/ (f[s] = "waitTask" /\ pc'[s] = "gotTask")
  <2>1. t \in Threads /\ f[t] = "waitTask" /\ pc' = Moved(f, t, "gotTask") /\ "gotTask" \in PCs
    BY <1>2, Zenon DEF At, Where, Woken, Moved, PCs
  <2>2. f[t] # "gotTask" /\ f[t] # "gotRoom" /\ f[t] \notin {"gotTask", "notify"}
    BY <2>1
  <2>3. pc' \in [Threads -> PCs] /\ TaskWake(pc', n + 1) /\ RoomWake(pc', m)
    BY <2>1, <2>2, Move, TaskMove, RoomMove
  <2>4. QED
    BY <2>1, <2>3 DEF Moved
<1>3. QED
  BY <1>1, <1>2 DEF NotifyOne

\* A notify_one on notFull_, by a thread that moves to f.
LEMMA RoomNotified ==
  ASSUME NEW f \in [Threads -> PCs], Where(f, "waitRoom") = At("waitRoom"),
         NotifyOne("waitRoom", f), NEW n \in Int, NEW m \in Int, TaskWake(f, n), RoomWake(f, m)
  PROVE  /\ pc' \in [Threads -> PCs] /\ TaskWake(pc', n) /\ RoomWake(pc', m - 1)
         /\ \A s \in Threads : pc'[s] = f[s] \/ (f[s] = "waitRoom" /\ pc'[s] = "gotRoom")
<1>1. CASE At("waitRoom") = {} /\ pc' = f
  BY <1>1 DEF RoomWake
<1>2. ASSUME NEW t \in At("waitRoom"), pc' = [f EXCEPT ![t] = Woken(t)]
      PROVE  /\ pc' \in [Threads -> PCs] /\ TaskWake(pc', n) /\ RoomWake(pc', m - 1)
             /\ \A s \in Threads : pc'[s] = f[s] \/ (f[s] = "waitRoom" /\ pc'[s] = "gotRoom")
  <2>1. t \in Threads /\ f[t] = "waitRoom" /\ pc' = Moved(f, t, "gotRoom") /\ "gotRoom" \in PCs
    BY <1>2, Zenon DEF At, Where, Woken, Moved, PCs
  <2>2. f[t] # "gotRoom" /\ f[t] \notin {"gotTask", "notify"}
    BY <2>1
  <2>3. pc' \in [Threads -> PCs] /\ TaskWake(pc', n) /\ RoomWake(pc', m - 1)
    BY <2>1, <2>2, Move, TaskMove, RoomMove
  <2>4. QED
    BY <2>1, <2>3 DEF Moved
<1>3. QED
  BY <1>1, <1>2 DEF NotifyOne
--------------------------------------------------------------------------------
(* The queue's size.                                                       *)

AnyTask == Tasks \cup {NoTask}

\* How many tasks of a queue count against maxsize_.
LEMMA ProperSize ==
  ASSUME NEW q \in Seq(AnyTask), NEW d
  PROVE  /\ IsFiniteSet(Proper(q, d)) /\ Cardinality(Proper(q, d)) \in Nat
         /\ Cardinality(Proper(q, d)) <= Len(q)
<1>1. Len(q) \in Nat
  OBVIOUS
<1>2. IsFiniteSet(1..Len(q)) /\ Cardinality(1..Len(q)) = Len(q)
  BY <1>1, FS_Interval, SMTT(30)
<1>3. Proper(q, d) \in SUBSET (1..Len(q))
  BY DEF Proper
<1>4. IsFiniteSet(Proper(q, d)) /\ Cardinality(Proper(q, d)) <= Cardinality(1..Len(q))
  BY ONLY <1>2, <1>3, FS_Subset
<1>5. QED
  BY <1>2, <1>4, FS_CardinalityType

\* pop_front leaves no more of them.
LEMMA ProperTail ==
  ASSUME NEW q \in Seq(AnyTask), q # << >>, NEW d
  PROVE  Cardinality(Proper(Tail(q), d)) <= Cardinality(Proper(q, d))
<1> DEFINE f == [i \in Proper(Tail(q), d) |-> i + 1]
<1>1. /\ Len(q) \in Nat /\ Tail(q) \in Seq(AnyTask) /\ Len(Tail(q)) = Len(q) - 1
      /\ \A i \in 1..Len(Tail(q)) : Tail(q)[i] = q[i + 1]
  OBVIOUS
<1>2. \A i \in Proper(Tail(q), d) : i \in Nat /\ i + 1 \in Proper(q, d)
  BY <1>1 DEF Proper
<1>3. f \in [Proper(Tail(q), d) -> Proper(q, d)]
  BY <1>2
<1>4. \A i, j \in Proper(Tail(q), d) : f[i] = f[j] => i = j
  BY <1>2
<1>5. f \in Injection(Proper(Tail(q), d), Proper(q, d))
  BY <1>3, <1>4 DEF Injection, IsInjective
<1>6. QED
  BY ONLY <1>5, ProperSize, q \in Seq(AnyTask), FS_Injection

\* A task that was run on the spot does not count.
LEMMA ProperMore ==
  ASSUME NEW q \in Seq(AnyTask), NEW d, NEW e, d \subseteq e
  PROVE  /\ Cardinality(Proper(q, e)) <= Cardinality(Proper(q, d))
         /\ Proper(q, d) = {} => Proper(q, e) = {}
<1>1. Proper(q, e) \in SUBSET Proper(q, d)
  BY DEF Proper
<1>2. IsFiniteSet(Proper(q, d))
  BY ProperSize
<1>3. QED
  BY ONLY <1>1, <1>2, FS_Subset

\* Nor does it when it is queued.
LEMMA ProperAppend ==
  ASSUME NEW q \in Seq(AnyTask), NEW d, NEW x \in AnyTask, x \in d, Proper(q, d) = {}
  PROVE  Proper(Append(q, x), d) = {}
<1>1. ASSUME NEW i \in 1..Len(Append(q, x)) PROVE Append(q, x)[i] \in d
  <2>1. CASE i \in 1..Len(q)
    BY <2>1 DEF Proper
  <2>2. CASE i = Len(q) + 1
    BY <2>2
  <2>3. QED
    BY <1>1, <2>1, <2>2
<1>2. QED
  BY <1>1 DEF Proper

--------------------------------------------------------------------------------
(* The steps.                                                              *)

\* What the invariant gives.
LEMMA Have ==
  ASSUME IInv
  PROVE  /\ pc \in [Threads -> PCs] /\ queue_ \in Seq(AnyTask) /\ Len(queue_) \in Nat
         /\ isRunning_ \in BOOLEAN
         /\ run \in [Threads -> [task : AnyTask, by : Overloads \cup {"copy"}]]
         /\ TaskWake(pc, Len(queue_)) /\ RoomWake(pc, Len(queue_))
         /\ owner = "constructed" => Fresh
  BY DEF IInv, Types, AnyTask

\* A step that only moves one thread, neither to sleep nor away from where it counts.
LEMMA Harmless ==
  ASSUME IInv, NEW t \in Threads, NEW q \in PCs, pc' = Moved(pc, t, q), pc[t] # q,
         pc[t] \notin {"gotTask", "gotRoom", "notify", "unborn"},
         q \notin {"waitTask", "waitRoom", "gotRoom", "push"},
         UNCHANGED <<isRunning_, threads_, queue_, run, owner, doubled>>
  PROVE  IInv'
<1>1. /\ pc \in [Threads -> PCs] /\ Len(queue_) \in Int
      /\ TaskWake(pc, Len(queue_)) /\ RoomWake(pc, Len(queue_))
      /\ pc[t] # "gotRoom" /\ pc[t] \notin {"gotTask", "notify"}
      /\ q # "waitTask" /\ q # "waitRoom"
  BY Have
<1>2. /\ Moved(pc, t, q) \in [Threads -> PCs]
      /\ TaskWake(Moved(pc, t, q), Len(queue_)) /\ RoomWake(Moved(pc, t, q), Len(queue_))
  BY <1>1, Move, TaskMove, RoomMove, Zenon
<1>3. owner' = "constructed" => Fresh'
  BY <1>1, Have DEF Fresh, Moved
<1>4. Types' /\ Sized'
  BY <1>2 DEF IInv, Types, Sized
<1>5. QED
  BY <1>2, <1>3, <1>4 DEF IInv

\* run() up to the lock.
LEMMA RunStepInv ==
  ASSUME IInv, NEW t \in Threads, NEW new \in Tasks, NEW by \in Overloads, Run(t, new, by)
  PROVE  IInv'
<1>1. pc[t] \in {"idle", "task"} /\ UNCHANGED <<isRunning_, threads_, queue_, owner>>
  BY DEF Run, Back
<1>2. CASE UNCHANGED <<pc, run, doubled>>
  BY <1>1, <1>2 DEF IInv, Types, Fresh, Sized
<1>3. ASSUME pc' = [pc EXCEPT ![t] = "push"],
             doubled' = IF threads_ = {} THEN doubled \cup {new} ELSE doubled,
             run' = [run EXCEPT ![t] = [task |-> new, by |-> by]]
      PROVE  IInv'
  <2>1. /\ pc' = Moved(pc, t, "push") /\ "push" \in PCs /\ pc \in [Threads -> PCs]
        /\ Len(queue_) \in Int /\ pc[t] # "push"
        /\ TaskWake(pc, Len(queue_)) /\ RoomWake(pc, Len(queue_))
        /\ pc[t] # "gotRoom" /\ pc[t] \notin {"gotTask", "notify"}
    BY <1>1, <1>3, Have DEF Moved, PCs
  <2>2. pc' \in [Threads -> PCs] /\ TaskWake(pc', Len(queue_)) /\ RoomWake(pc', Len(queue_))
    BY <2>1, Move, TaskMove, RoomMove
  <2>3. [task |-> new, by |-> by] \in [task : AnyTask, by : Overloads \cup {"copy"}]
    BY DEF AnyTask
  <2>4. Types'
    BY <1>1, <1>3, <2>2, <2>3 DEF IInv, Types, AnyTask
  <2>5. queue_ \in Seq(AnyTask) /\ doubled \subseteq doubled'
    BY <1>3, Have
  <2>6. Sized'
    <3>1. Cardinality(Proper(queue_, doubled')) <= Cardinality(Proper(queue_, doubled))
      BY <2>5, ProperMore
    <3>2. Cardinality(Proper(queue_, doubled')) \in Nat /\ Cardinality(Proper(queue_, doubled)) \in Nat
      BY <2>5, ProperSize
    <3>3. QED
      BY <1>1, <3>1, <3>2 DEF IInv, Sized
  <2>7. ASSUME owner = "constructed" PROVE Fresh'
    <3>1. Fresh /\ threads_ = {} /\ doubled' = doubled \cup {new} /\ t \notin Workers
      BY <1>1, <1>3, <2>7, Have DEF Fresh
    <3>2. Proper(queue_, doubled') = {}
      BY <2>5, <3>1, ProperMore DEF Fresh
    <3>3. \A s \in Threads : pc'[s] \in {"push", "waitRoom", "gotRoom"} => run'[s].task \in doubled'
      <4> SUFFICES ASSUME NEW s \in Threads, pc'[s] \in {"push", "waitRoom", "gotRoom"}
                   PROVE  run'[s].task \in doubled'
        OBVIOUS
      <4>1. CASE s = t
        BY <1>3, <3>1, <4>1, Have
      <4>2. CASE s # t
        BY <1>3, <3>1, <4>2, Have DEF Fresh
      <4>3. QED
        BY <4>1, <4>2
    <3>4. \A w \in Workers : pc'[w] = "unborn"
      BY <1>3, <3>1, Have DEF Fresh, Threads
    <3>5. QED
      BY <1>1, <3>1, <3>2, <3>3, <3>4 DEF Fresh
  <2>8. QED
    BY <1>1, <2>2, <2>4, <2>6, <2>7 DEF IInv
<1>4. QED
  BY <1>2, <1>3 DEF Run

\* run() with the lock: it sleeps on a full queue, or queues the task and wakes a worker,
\* or leaves that to the notify after its unlock.
LEMMA PushInv ==
  ASSUME IInv, NEW t \in Threads, Push(t)
  PROVE  IInv'
<1> DEFINE n == Len(queue_)
<1>1. /\ pc[t] \in {"push", "gotRoom"} /\ UNCHANGED <<isRunning_, threads_, owner, doubled>>
      /\ n \in Nat /\ n \in Int /\ n + 1 \in Int /\ pc \in [Threads -> PCs]
      /\ TaskWake(pc, n) /\ RoomWake(pc, n)
      /\ Back(t) \in {"idle", "task"} /\ Back(t) \in PCs
      /\ {"waitRoom", "notify"} \subseteq PCs
  BY Have DEF Push, Back, PCs
<1>2. ASSUME MustWait(t), pc' = [pc EXCEPT ![t] = "waitRoom"], UNCHANGED <<queue_, run>>
      PROVE  IInv'
  <2>1. pc' = Moved(pc, t, "waitRoom") /\ MaxSize <= n /\ isRunning_
    BY <1>2 DEF Moved, MustWait, isFull
  <2>2. pc' \in [Threads -> PCs] /\ TaskWake(pc', n)
    BY <1>1, <2>1, Move, TaskMove
  <2>3. RoomWake(pc', n)
    <3>1. Count(pc', "gotRoom") \in Nat
      BY CountNat
    <3>2. QED
      BY <1>1, <2>1, <3>1 DEF RoomWake
  <2>4. owner # "constructed"
    BY <2>1, Have DEF Fresh
  <2>5. Types' /\ Sized'
    BY <1>1, <1>2, <2>2 DEF IInv, Types, Sized
  <2>6. QED
    BY <1>1, <1>2, <2>2, <2>3, <2>4, <2>5 DEF IInv
<1>3. ASSUME ~MustWait(t), queue_' = Append(queue_, run[t].task),
             run' = [run EXCEPT ![t] = NoRun],
             IF run[t].by = "move" THEN pc' = [pc EXCEPT ![t] = "notify"]
                                   ELSE NotifyOne("waitTask", [pc EXCEPT ![t] = Back(t)])
      PROVE  IInv'
  <2>1. /\ run[t].task \in AnyTask /\ queue_' \in Seq(AnyTask) /\ Len(queue_') = n + 1
    BY <1>3, Have
  <2>2. run' \in [Threads -> [task : AnyTask, by : Overloads \cup {"copy"}]]
    BY <1>3, Have DEF NoRun, AnyTask
  <2>3. /\ pc' \in [Threads -> PCs] /\ TaskWake(pc', n + 1) /\ RoomWake(pc', n + 1)
        /\ \A s \in Threads \ {t} : pc'[s] = pc[s] \/ (pc[s] = "waitTask" /\ pc'[s] = "gotTask")
        /\ pc'[t] \notin {"push", "waitRoom", "gotRoom"}
    <3>1. CASE run[t].by = "move"
      <4>1. pc' = Moved(pc, t, "notify")
        BY <1>3, <3>1 DEF Moved
      <4>2. pc[t] # "notify" /\ pc[t] \notin {"gotTask", "notify"} /\ "notify" \in {"gotTask", "notify"}
        BY <1>1
      <4>3. pc' \in [Threads -> PCs] /\ TaskWake(pc', n + 1) /\ RoomWake(pc', n + 1)
        BY <1>1, <4>1, <4>2, Move, TaskMove, RoomMove
      <4>4. QED
        BY <1>1, <4>1, <4>3 DEF Moved
    <3>2. CASE run[t].by # "move"
      <4> DEFINE f == Moved(pc, t, Back(t))
      <4>1. NotifyOne("waitTask", f)
        BY <1>3, <3>2 DEF Moved
      <4>2. pc[t] # Back(t) /\ pc[t] \notin {"gotTask", "notify"}
            /\ Back(t) # "waitTask" /\ Back(t) # "waitRoom"
        BY <1>1
      <4>3. f \in [Threads -> PCs] /\ TaskWake(f, n) /\ RoomWake(f, n + 1)
        BY <1>1, <4>2, Move, TaskMove, RoomMove
      <4>4. f[t] = Back(t) /\ \A s \in Threads \ {t} : f[s] = pc[s]
        BY <1>1 DEF Moved
      <4> HIDE DEF f
      <4>5. Where(f, "waitTask") = At("waitTask")
        BY <1>1, <4>4 DEF Where, At
      <4>6. /\ pc' \in [Threads -> PCs] /\ TaskWake(pc', n + 1) /\ RoomWake(pc', n + 1)
            /\ \A s \in Threads : pc'[s] = f[s] \/ (f[s] = "waitTask" /\ pc'[s] = "gotTask")
        BY ONLY <1>1, <4>1, <4>3, <4>5, TaskNotified
      <4>7. QED
        BY <1>1, <4>4, <4>6
    <3>3. QED
      BY <3>1, <3>2
  <2>4. Sized'
    <3> SUFFICES ASSUME isRunning_, MaxSize > 0
                 PROVE  Cardinality(Proper(queue_', doubled)) <= MaxSize
      BY <1>1 DEF Sized
    <3>1. n < MaxSize
      BY <1>1, <1>3 DEF MustWait, isFull
    <3>2. /\ Cardinality(Proper(queue_', doubled)) \in Nat
          /\ Cardinality(Proper(queue_', doubled)) <= n + 1
      BY <2>1, ProperSize
    <3>3. QED
      BY <1>1, <3>1, <3>2
  <2>5. ASSUME owner = "constructed" PROVE Fresh'
    <3>1. Fresh
      BY <2>5, Have
    <3>2. run[t].task \in doubled /\ Proper(queue_, doubled) = {}
      BY <1>1, <3>1 DEF Fresh
    <3>3. Proper(queue_', doubled) = {}
      BY <1>3, <2>1, <3>2, Have, ProperAppend
    <3>4. t \notin Workers
      BY <1>1, <3>1 DEF Fresh
    <3>5. \A w \in Workers : pc'[w] = "unborn"
      BY <2>3, <3>1, <3>4 DEF Fresh, Threads
    <3>6. \A s \in Threads : pc'[s] \in {"push", "waitRoom", "gotRoom"} => run'[s].task \in doubled
      <4> SUFFICES ASSUME NEW s \in Threads, pc'[s] \in {"push", "waitRoom", "gotRoom"}
                   PROVE  run'[s].task \in doubled
        OBVIOUS
      <4>1. s # t /\ pc'[s] = pc[s]
        BY <2>3
      <4>2. run'[s] = run[s]
        BY <1>3, <4>1, Have
      <4>3. QED
        BY <3>1, <4>1, <4>2 DEF Fresh
    <3>7. QED
      BY <1>1, <3>1, <3>3, <3>5, <3>6 DEF Fresh
  <2>6. Types'
    BY <1>1, <2>1, <2>2, <2>3, Have DEF Types, AnyTask
  <2>7. QED
    BY <1>1, <2>1, <2>3, <2>4, <2>5, <2>6 DEF IInv
<1>4. QED
  BY <1>2, <1>3 DEF Push

\* The notify of run(Task&&).
LEMMA NotifyInv ==
  ASSUME IInv, NEW t \in Threads, NotifyNotEmpty(t)
  PROVE  IInv'
<1> DEFINE n == Len(queue_)
           f == Moved(pc, t, Back(t))
<1>1. /\ pc[t] = "notify" /\ UNCHANGED <<isRunning_, threads_, queue_, run, owner, doubled>>
      /\ n \in Nat /\ n \in Int /\ n - 1 \in Int /\ pc \in [Threads -> PCs]
      /\ TaskWake(pc, n) /\ RoomWake(pc, n)
      /\ Back(t) \in {"idle", "task"} /\ Back(t) \in PCs
      /\ NotifyOne("waitTask", f)
  BY Have DEF NotifyNotEmpty, Back, PCs, Moved
<1>2. pc[t] # Back(t) /\ Back(t) # "waitTask" /\ Back(t) # "waitRoom" /\ pc[t] # "gotRoom"
  BY <1>1
<1>3. f \in [Threads -> PCs] /\ TaskWake(f, n - 1) /\ RoomWake(f, n)
  BY <1>1, <1>2, Move, TaskMove, RoomMove
<1>4. f[t] = Back(t) /\ \A s \in Threads \ {t} : f[s] = pc[s]
  BY <1>1 DEF Moved
<1> HIDE DEF f
<1>5. Where(f, "waitTask") = At("waitTask")
  BY <1>1, <1>4 DEF Where, At
<1>6. /\ pc' \in [Threads -> PCs] /\ TaskWake(pc', n - 1 + 1) /\ RoomWake(pc', n)
      /\ \A s \in Threads : pc'[s] = f[s] \/ (f[s] = "waitTask" /\ pc'[s] = "gotTask")
  BY ONLY <1>1, <1>3, <1>5, TaskNotified
<1>7. n - 1 + 1 = n
  BY <1>1
<1>8. ASSUME owner = "constructed" PROVE Fresh'
  <2>1. Fresh /\ t \notin Workers
    BY <1>1, <1>8, Have DEF Fresh
  <2>2. QED
    BY <1>1, <1>4, <1>6, <2>1 DEF Fresh, Threads
<1>9. Types' /\ Sized'
  BY <1>1, <1>6 DEF IInv, Types, Sized
<1>10. QED
  BY <1>1, <1>6, <1>7, <1>8, <1>9 DEF IInv

\* A wait() that returns for no reason.
LEMMA SpuriousInv ==
  ASSUME IInv, NEW t \in Threads, SpuriousWakeup(t)
  PROVE  IInv'
<1> DEFINE n == Len(queue_)
<1>1. /\ UNCHANGED <<isRunning_, threads_, queue_, run, owner, doubled>>
      /\ n \in Nat /\ n \in Int /\ pc \in [Threads -> PCs]
      /\ TaskWake(pc, n) /\ RoomWake(pc, n) /\ {"gotTask", "gotRoom"} \subseteq PCs
      /\ pc[t] \in {"waitTask", "waitRoom"} /\ pc' = Moved(pc, t, Woken(t))
      /\ Woken(t) \in {"gotTask", "gotRoom"}
      /\ Woken(t) = "gotRoom" => pc[t] = "waitRoom"
  BY Have DEF SpuriousWakeup, Moved, PCs, Woken
<1>2. /\ pc[t] # Woken(t) /\ Woken(t) # "waitTask" /\ Woken(t) # "waitRoom" /\ Woken(t) \in PCs
      /\ pc[t] # "gotRoom" /\ pc[t] \notin {"gotTask", "notify"}
  BY <1>1
<1>3. pc' \in [Threads -> PCs] /\ TaskWake(pc', n) /\ RoomWake(pc', n)
  BY <1>1, <1>2, Move, TaskMove, RoomMove
<1>4. ASSUME owner = "constructed" PROVE Fresh'
  <2>1. Fresh /\ t \notin Workers
    BY <1>1, <1>4, Have DEF Fresh
  <2>2. QED
    BY <1>1, <2>1 DEF Fresh, Threads, Moved
<1>5. Types' /\ Sized'
  BY <1>1, <1>3 DEF IInv, Types, Sized
<1>6. QED
  BY <1>1, <1>3, <1>4, <1>5 DEF IInv

\* take(): it sleeps on an empty queue, or takes a task and wakes a thread that waits
\* for room.
LEMMA TakeInv ==
  ASSUME IInv, NEW w \in Workers, take(w)
  PROVE  IInv'
<1> DEFINE n == Len(queue_)
<1>1. /\ pc[w] \in {"take", "gotTask"} /\ UNCHANGED <<isRunning_, threads_, run, owner, doubled>>
      /\ n \in Nat /\ n \in Int /\ n - 1 \in Int /\ pc \in [Threads -> PCs] /\ w \in Threads
      /\ TaskWake(pc, n) /\ RoomWake(pc, n) /\ {"waitTask", "test", "task"} \subseteq PCs
  BY Have DEF take, PCs, Threads
<1>2. owner # "constructed"
  BY <1>1, Have, Zenon DEF Fresh
<1>3. ASSUME queue_ = << >>, UNCHANGED queue_,
             pc' = [pc EXCEPT ![w] = IF isRunning_ THEN "waitTask" ELSE "test"]
      PROVE  IInv'
  <2>1. PICK q \in {"waitTask", "test"} : pc' = Moved(pc, w, q)
    BY <1>3, Zenon DEF Moved
  <2>2. q \in PCs /\ pc[w] # q /\ q # "waitRoom" /\ pc[w] # "gotRoom"
    BY <1>1
  <2>3. pc' \in [Threads -> PCs] /\ RoomWake(pc', n)
    BY <1>1, <2>1, <2>2, Move, RoomMove
  <2>4. TaskWake(pc', n)
    <3>1. Count(pc', "gotTask") \in Nat /\ Count(pc', "notify") \in Nat /\ n = 0
      BY <1>3, CountNat
    <3>2. QED
      BY <3>1 DEF TaskWake
  <2>5. Types' /\ Sized'
    BY <1>1, <1>3, <2>3 DEF IInv, Types, Sized
  <2>6. QED
    BY <1>1, <1>2, <1>3, <2>3, <2>4, <2>5 DEF IInv
<1>4. ASSUME queue_ # << >>, queue_' = Tail(queue_), RoomNotify([pc EXCEPT ![w] = "task"])
      PROVE  IInv'
  <2> DEFINE f == Moved(pc, w, "task")
  <2>1. queue_ \in Seq(AnyTask) /\ queue_' \in Seq(AnyTask) /\ Len(queue_') = n - 1
    BY <1>4, Have
  <2>2. RoomNotify(f) /\ pc[w] # "task" /\ pc[w] # "gotRoom"
    BY <1>1, <1>4 DEF Moved
  <2>3. f \in [Threads -> PCs] /\ TaskWake(f, n - 1) /\ RoomWake(f, n)
    BY <1>1, <2>2, Move, TaskMove, RoomMove
  <2>4. f[w] = "task" /\ \A s \in Threads \ {w} : f[s] = pc[s]
    BY <1>1 DEF Moved
  <2> HIDE DEF f
  <2>5. Where(f, "waitRoom") = At("waitRoom")
    BY <1>1, <2>4 DEF Where, At
  <2>6. pc' \in [Threads -> PCs] /\ TaskWake(pc', n - 1) /\ RoomWake(pc', n - 1)
    <3>1. CASE MaxSize > 0
      <4>1. NotifyOne("waitRoom", f)
        BY <2>2, <3>1 DEF RoomNotify
      <4>2. QED
        BY ONLY <1>1, <2>3, <2>5, <4>1, RoomNotified
    <3>2. CASE ~(MaxSize > 0)
      <4>1. pc' = f /\ MaxSize = 0
        BY <2>2, <3>2 DEF RoomNotify
      <4>2. Count(pc', "gotRoom") \in Nat /\ n - 1 \in Nat
        BY <2>1, CountNat
      <4>3. QED
        BY <2>3, <4>1, <4>2 DEF RoomWake
    <3>3. QED
      BY <3>1, <3>2
  <2>7. Sized'
    <3>1. Cardinality(Proper(queue_', doubled)) <= Cardinality(Proper(queue_, doubled))
      BY <1>4, <2>1, ProperTail
    <3>2. Cardinality(Proper(queue_', doubled)) \in Nat /\ Cardinality(Proper(queue_, doubled)) \in Nat
      BY <2>1, ProperSize
    <3>3. QED
      BY <1>1, <3>1, <3>2 DEF IInv, Sized
  <2>8. Types'
    BY <1>1, <2>1, <2>6, Have DEF Types, AnyTask
  <2>9. QED
    BY <1>1, <1>2, <2>1, <2>6, <2>7, <2>8 DEF IInv
<1>5. QED
  BY <1>3, <1>4 DEF take, Taken

\* The other steps of a worker.
LEMMA WorkerInv ==
  ASSUME IInv, NEW w \in Workers, EnterThread(w) \/ TestRunning(w) \/ TaskReturns(w)
  PROVE  IInv'
<1>1. /\ w \in Threads /\ UNCHANGED <<isRunning_, threads_, queue_, run, owner, doubled>>
      /\ pc[w] \in {"init", "test", "task"}
      /\ \E q \in {"test", "take", "ended"} : q # pc[w] /\ pc' = Moved(pc, w, q)
  BY DEF EnterThread, TestRunning, TaskReturns, Threads, Moved
<1>2. PICK q \in {"test", "take", "ended"} : q # pc[w] /\ pc' = Moved(pc, w, q)
  BY <1>1
<1>3. q \in PCs /\ q \notin {"waitTask", "waitRoom", "gotRoom", "push"}
      /\ pc[w] \notin {"gotTask", "gotRoom", "notify", "unborn"}
  BY <1>1, <1>2 DEF PCs
<1>4. QED
  BY <1>1, <1>2, <1>3, Harmless

\* start() creates the threads; nothing counts against the size yet.
LEMMA StartInv ==
  ASSUME IInv, NEW new \in SUBSET Workers, start(new)
  PROVE  IInv'
<1>1. /\ Fresh /\ owner' = "started" /\ UNCHANGED <<queue_, run, doubled>> /\ isRunning_' = TRUE
      /\ pc' = [t \in Threads |-> IF t \in new THEN "init" ELSE pc[t]]
      /\ \A w \in new : pc[w] = "unborn"
      /\ pc \in [Threads -> PCs] /\ "init" \in PCs
  BY Have DEF start, Fresh, PCs
<1>2. pc' \in [Threads -> PCs]
  BY <1>1
<1>3. \A p \in {"waitTask", "gotTask", "notify", "waitRoom", "gotRoom"} : Where(pc', p) = Where(pc, p)
  BY <1>1 DEF Where
<1>4. TaskWake(pc', Len(queue_)) /\ RoomWake(pc', Len(queue_))
  BY <1>3, Have DEF TaskWake, RoomWake, Count
<1>5. Proper(queue_', doubled') = {}
  BY <1>1 DEF Fresh
<1>6. Sized'
  BY <1>5, FS_EmptySet DEF Sized
<1>7. Types'
  BY <1>1, <1>2 DEF IInv, Types
<1>8. QED
  BY <1>1, <1>4, <1>6, <1>7 DEF IInv

\* stop() wakes every sleeper.
LEMMA StopInv ==
  ASSUME IInv, stop
  PROVE  IInv'
<1>1. /\ owner' = "stopping" /\ UNCHANGED <<queue_, run, doubled>> /\ isRunning_' = FALSE
      /\ pc' = [t \in Threads |-> IF t \in Sleeping THEN Woken(t) ELSE pc[t]]
      /\ pc \in [Threads -> PCs]
  BY Have DEF stop
<1>2. \A t \in Threads : Woken(t) \in {"gotTask", "gotRoom"} /\ Woken(t) \in PCs
  BY DEF Woken, PCs
<1>3. pc' \in [Threads -> PCs]
  BY <1>1, <1>2
<1>4. Where(pc', "waitTask") = {} /\ Where(pc', "waitRoom") = {}
  BY <1>1, <1>2 DEF Where, Sleeping, At
<1>5. QED
  BY <1>1, <1>3, <1>4, Zenon DEF IInv, Types, TaskWake, RoomWake, Sized

\* Every step keeps the invariant.
LEMMA Inductive == IInv /\ [Next]_vars => IInv'
<1> SUFFICES ASSUME IInv, [Next]_vars PROVE IInv'
  OBVIOUS
<1>1. ASSUME NEW t \in Submitters, NEW new \in Tasks, NEW by \in Overloads, Run(t, new, by)
      PROVE  IInv'
  BY <1>1, RunStepInv DEF Threads
<1>2. ASSUME NEW t \in Threads, RunStep(t) \/ SpuriousWakeup(t) PROVE IInv'
  BY <1>2, PushInv, NotifyInv, SpuriousInv DEF RunStep
<1>3. ASSUME NEW w \in Workers, WorkerStep(w) PROVE IInv'
  BY <1>3, TakeInv, WorkerInv DEF WorkerStep
<1>4. ASSUME NEW new \in SUBSET Workers, start(new) PROVE IInv'
  BY <1>4, StartInv
<1>5. CASE stop
  BY <1>5, StopInv
<1>6. CASE Join
  BY <1>6 DEF Join, IInv, Types, Fresh, Sized
<1>7. CASE UNCHANGED vars
  BY <1>7, Zenon DEF vars, IInv, Types, Fresh, Sized
<1>8. QED
  BY <1>1, <1>2, <1>3, <1>4, <1>5, <1>6, <1>7 DEF Next

\* The invariant holds at the start.
LEMMA InitInv == Init => IInv
<1> SUFFICES ASSUME Init PROVE IInv
  OBVIOUS
<1>1. Types
  <2>1. pc \in [Threads -> PCs]
    BY DEF Init, PCs
  <2>2. NoRun \in [task : Tasks \cup {NoTask}, by : Overloads \cup {"copy"}]
    BY DEF NoRun
  <2>3. run \in [Threads -> [task : Tasks \cup {NoTask}, by : Overloads \cup {"copy"}]]
    BY <2>2 DEF Init
  <2>4. queue_ \in Seq(Tasks \cup {NoTask}) /\ isRunning_ = FALSE
    BY DEF Init
  <2>5. QED
    BY <2>1, <2>3, <2>4, Zenon DEF Types
<1>2. Where(pc, "waitTask") = {} /\ Where(pc, "waitRoom") = {}
  BY DEF Init, Where
<1>3. Proper(queue_, doubled) = {}
  BY DEF Init, Proper
<1>4. Fresh
  <2>1. \A w \in Workers : pc[w] = "unborn"
    BY DEF Init, Threads
  <2>2. \A t \in Threads : pc[t] \notin {"push", "waitRoom", "gotRoom"}
    BY DEF Init
  <2>3. QED
    BY <1>3, <2>1, <2>2 DEF Init, Fresh
<1>5. QED
  BY <1>1, <1>2, <1>4 DEF IInv, TaskWake, RoomWake, Sized, Fresh

\* No notify_one is lost and a running pool's queue keeps to maxsize_, however many
\* threads call run() and take() (ThreadPool.cc:50-98).
THEOREM QueueAlwaysKept == Spec => []QueueKept
<1>1. IInv => QueueKept
  BY DEF IInv, TaskWake, RoomWake, Sized, Proper, Count, Where, QueueKept, At
<1>2. QED
  BY <1>1, InitInv, Inductive, PTL DEF Spec

--------------------------------------------------------------------------------
(* TaskInOnePlace.                                                         *)

\* How often task x is in queue q, and in the run() calls of the threads.
Queued(q, x) == {i \in 1..Len(q) : q[i] = x}
Calling(f, x) == {t \in Threads : f[t].task = x}
Total(n, q, f, x) == n[x] + Cardinality(Queued(q, x)) + Cardinality(Calling(f, x))

\* A thread has a task to hand over exactly while it is in run(); a task not handed
\* over is nowhere.
InRun == {"push", "waitRoom", "gotRoom"}
Placed ==
    /\ queue_ \in Seq(Tasks) /\ runs \in [Tasks -> Nat] /\ submitted \subseteq Tasks
    /\ \A t \in Threads : IF pc[t] \in InRun THEN run[t].task \in Tasks ELSE run[t].task = NoTask
    /\ \A x \in Tasks \ submitted : Total(runs, queue_, run, x) = 0
    /\ TaskInOnePlace

\* The places of a task are finitely many.
LEMMA QueuedFinite ==
  ASSUME NEW q \in Seq(Tasks), NEW x
  PROVE  IsFiniteSet(Queued(q, x)) /\ Cardinality(Queued(q, x)) \in Nat
<1>1. Len(q) \in Nat
  OBVIOUS
<1>2. IsFiniteSet(1..Len(q))
  BY <1>1, FS_Interval, SMTT(30)
<1>3. Queued(q, x) \in SUBSET (1..Len(q))
  BY DEF Queued
<1>4. IsFiniteSet(Queued(q, x))
  BY ONLY <1>2, <1>3, FS_Subset
<1>5. QED
  BY <1>4, FS_CardinalityType

\* Finitely many threads are in a call.
LEMMA CallingFinite ==
  ASSUME NEW f, NEW x
  PROVE  IsFiniteSet(Calling(f, x)) /\ Cardinality(Calling(f, x)) \in Nat
<1>1. IsFiniteSet(Threads)
  BY FS_Union, Zenon DEF Threads
<1>2. Calling(f, x) \subseteq Threads
  BY DEF Calling
<1>3. IsFiniteSet(Calling(f, x))
  BY <1>1, <1>2, FS_Subset
<1>4. QED
  BY <1>3, FS_CardinalityType

\* push_back adds a place.
LEMMA QueuedAppend ==
  ASSUME NEW q \in Seq(Tasks), NEW y \in Tasks, NEW x
  PROVE  Cardinality(Queued(Append(q, y), x)) =
           IF x = y THEN Cardinality(Queued(q, x)) + 1 ELSE Cardinality(Queued(q, x))
<1> DEFINE r == Append(q, y)
           n == Len(q) + 1
<1>1. /\ Len(q) \in Nat /\ Len(r) = n /\ r[n] = y /\ n \notin 1..Len(q) /\ 1..Len(r) = (1..Len(q)) \cup {n}
      /\ \A i \in 1..Len(q) : r[i] = q[i]
  BY AppendProperties, LenProperties
<1> HIDE DEF r, n
<1>2. CASE x = y
  <2>1. Queued(r, x) = Queued(q, x) \cup {n} /\ n \notin Queued(q, x)
    BY <1>1, <1>2 DEF Queued
  <2>2. IsFiniteSet(Queued(q, x))
    BY QueuedFinite
  <2>3. Cardinality(Queued(r, x)) = Cardinality(Queued(q, x)) + 1
    BY ONLY <2>1, <2>2, FS_AddElement, Zenon
  <2>4. QED
    BY <1>2, <2>3 DEF r
<1>3. CASE x # y
  <2>1. Queued(r, x) = Queued(q, x)
    BY <1>1, <1>3 DEF Queued
  <2>2. QED
    BY <1>3, <2>1 DEF r
<1>4. QED
  BY <1>2, <1>3

\* pop_front takes one.
LEMMA QueuedTail ==
  ASSUME NEW q \in Seq(Tasks), q # << >>, NEW x
  PROVE  Cardinality(Queued(q, x)) =
           IF x = Head(q) THEN Cardinality(Queued(Tail(q), x)) + 1 ELSE Cardinality(Queued(Tail(q), x))
<1> DEFINE r == Tail(q)
           A == Queued(r, x)
           B == {j \in 2..Len(q) : q[j] = x}
           f == [i \in A |-> i + 1]
<1>1. /\ Len(q) \in Nat \ {0} /\ r \in Seq(Tasks) /\ Len(r) = Len(q) - 1 /\ Head(q) = q[1]
      /\ \A i \in 1..Len(r) : r[i] = q[i + 1]
  BY HeadTailProperties, EmptySeq
<1>2. /\ \A i \in A : i \in Nat /\ i + 1 \in B
      /\ \A j \in B : j - 1 \in A /\ j - 1 + 1 = j
  BY <1>1 DEF Queued
<1> HIDE DEF A, B
<1>3. f \in [A -> B] /\ (\A i, j \in A : f[i] = f[j] => i = j) /\ \A j \in B : f[j - 1] = j
  BY <1>2
<1> HIDE DEF f
<1>4. f \in Bijection(A, B)
  BY <1>2, <1>3 DEF Bijection, Injection, Surjection, IsInjective
<1>5. IsFiniteSet(A)
  BY <1>1, QueuedFinite, Zenon DEF A
<1>6. IsFiniteSet(B) /\ Cardinality(B) = Cardinality(A)
  BY ONLY <1>4, <1>5, FS_Bijection DEF ExistsBijection
<1>7. CASE x = Head(q)
  <2>1. Queued(q, x) = B \cup {1} /\ 1 \notin B
    BY <1>1, <1>7 DEF Queued, B
  <2>2. Cardinality(Queued(q, x)) = Cardinality(B) + 1
    BY ONLY <1>6, <2>1, FS_AddElement
  <2>3. QED
    BY <1>6, <1>7, <2>2 DEF A
<1>8. CASE x # Head(q)
  <2>1. Queued(q, x) = B
    BY <1>1, <1>8 DEF Queued, B
  <2>2. QED
    BY <1>6, <1>8, <2>1 DEF A
<1>9. QED
  BY <1>7, <1>8

\* The calls f and g agree but on t's; g has one call of x more; g has the calls of x f has.
Apart(f, g, t) == \A s \in Threads \ {t} : g[s] = f[s]
OneMore(f, g, x) == Cardinality(Calling(g, x)) = Cardinality(Calling(f, x)) + 1
SameCalls(f, g, x) == Calling(g, x) = Calling(f, x)

\* A thread enters run() with a task, and hands it over.
LEMMA CallingChanges ==
  ASSUME NEW f, NEW g, NEW t \in Threads, Apart(f, g, t), NEW x
  PROVE  /\ f[t].task # x /\ g[t].task = x => OneMore(f, g, x)
         /\ f[t].task # x /\ g[t].task # x => SameCalls(f, g, x)
<1>1. ASSUME f[t].task # x, g[t].task = x PROVE OneMore(f, g, x)
  <2>1. Calling(g, x) = Calling(f, x) \cup {t} /\ t \notin Calling(f, x)
    BY <1>1 DEF Calling, Apart
  <2>2. Cardinality(Calling(g, x)) = Cardinality(Calling(f, x)) + 1
    BY ONLY <2>1, CallingFinite, FS_AddElement, Zenon
  <2>3. QED
    BY <2>2, Zenon DEF OneMore
<1>2. ASSUME f[t].task # x, g[t].task # x PROVE SameCalls(f, g, x)
  BY <1>2 DEF Calling, Apart, SameCalls
<1>3. QED
  BY <1>1, <1>2, Zenon

\* A step that moves tasks and makes none.
LEMMA PlacedKept ==
  ASSUME Placed, UNCHANGED <<submitted, doubled>>, queue_' \in Seq(Tasks), runs' \in [Tasks -> Nat],
         \A t \in Threads : IF pc'[t] \in InRun THEN run'[t].task \in Tasks ELSE run'[t].task = NoTask,
         \A x \in Tasks : Total(runs', queue_', run', x) = Total(runs, queue_, run, x)
  PROVE  Placed'
<1>1. \A x \in submitted \ doubled : Total(runs, queue_, run, x) = 1 /\ x \in Tasks
  BY Zenon DEF Placed, TaskInOnePlace, Total, Queued, Calling
<1>2. \A x \in submitted \ doubled : Total(runs', queue_', run', x) = 1
  BY <1>1
<1>3. TaskInOnePlace'
  BY <1>2, Zenon DEF TaskInOnePlace, Total, Queued, Calling
<1>4. QED
  BY <1>3 DEF Placed

\* A step that only moves threads, none of them into or out of run().
LEMMA ThreadsMove ==
  ASSUME Placed, UNCHANGED <<submitted, doubled, queue_, runs, run>>,
         \A t \in Threads : pc'[t] \in InRun <=> pc[t] \in InRun
  PROVE  Placed'
  BY DEF Placed, TaskInOnePlace, Total

\* notify_one.
LEMMA NotifiedMove ==
  ASSUME NEW p \in {"waitTask", "waitRoom"}, NEW f \in [Threads -> PCs],
         \A t \in At(p) : f[t] = pc[t], NotifyOne(p, f)
  PROVE  \A t \in Threads : pc'[t] \in InRun <=> f[t] \in InRun
<1>1. CASE pc' = f
  BY <1>1
<1>2. ASSUME NEW s \in At(p), pc' = [f EXCEPT ![s] = Woken(s)]
      PROVE  \A t \in Threads : pc'[t] \in InRun <=> f[t] \in InRun
  <2>1. s \in Threads /\ f[s] = p /\ pc[s] = p
    BY <1>2 DEF At
  <2>2. Woken(s) = IF p = "waitTask" THEN "gotTask" ELSE "gotRoom"
    BY <2>1 DEF Woken
  <2>3. QED
    BY <1>2, <2>1, <2>2 DEF InRun
<1>3. QED
  BY <1>1, <1>2 DEF NotifyOne

\* run() up to the lock.
LEMMA RunPlaced ==
  ASSUME IInv, Placed, NEW t \in Threads, NEW new \in Tasks, NEW by \in Overloads, Run(t, new, by)
  PROVE  Placed'
<1>1. /\ pc[t] \notin InRun /\ new \notin submitted /\ submitted' = submitted \cup {new}
      /\ queue_' = queue_ /\ runs' = (IF threads_ = {} THEN [runs EXCEPT ![new] = @ + 1] ELSE runs)
  BY DEF Run, Back, InRun
<1>2. /\ queue_ \in Seq(Tasks) /\ runs \in [Tasks -> Nat] /\ submitted \subseteq Tasks
      /\ run[t].task = NoTask /\ pc \in [Threads -> PCs]
      /\ run \in [Threads -> [task : AnyTask, by : Overloads \cup {"copy"}]]
  BY <1>1, Have DEF Placed
<1>3. runs' \in [Tasks -> Nat] /\ submitted' \subseteq Tasks
  BY <1>1, <1>2
<1>4. \A x \in Tasks : Cardinality(Queued(queue_, x)) \in Nat /\ Cardinality(Calling(run, x)) \in Nat
                       /\ runs[x] \in Nat
  BY <1>2, QueuedFinite, CallingFinite
<1>5. \A x \in Tasks \ {new} : runs'[x] = runs[x]
  BY <1>1, <1>2
<1>6. runs[new] = 0 /\ Cardinality(Queued(queue_, new)) = 0 /\ Cardinality(Calling(run, new)) = 0
  <2>1. Total(runs, queue_, run, new) = 0
    BY <1>1 DEF Placed
  <2>2. QED
    BY <1>4, <2>1 DEF Total
<1>7. ASSUME \A x \in Tasks \ {new} : Calling(run', x) = Calling(run, x),
             new \in doubled' \/ Total(runs', queue_', run', new) = 1,
             doubled \subseteq doubled',
             \A s \in Threads : IF pc'[s] \in InRun THEN run'[s].task \in Tasks ELSE run'[s].task = NoTask
      PROVE  Placed'
  <2>1. \A x \in Tasks \ {new} : Total(runs', queue_', run', x) = Total(runs, queue_, run, x)
    BY <1>1, <1>5, <1>7, Zenon DEF Total
  <2>2. \A x \in submitted \ doubled : Total(runs, queue_, run, x) = 1 /\ x \in Tasks \ {new}
    BY <1>1, <1>2 DEF Placed, TaskInOnePlace, Total, Queued, Calling
  <2>3. \A x \in submitted' \ doubled' : Total(runs', queue_', run', x) = 1
    BY <1>1, <1>7, <2>1, <2>2, Zenon
  <2>4. TaskInOnePlace'
    BY <2>3, Zenon DEF TaskInOnePlace, Total, Queued, Calling
  <2>5. \A x \in Tasks \ submitted' : Total(runs', queue_', run', x) = 0
    BY <1>1, <2>1, Zenon DEF Placed
  <2>6. QED
    BY <1>1, <1>2, <1>3, <1>7, <2>4, <2>5, Zenon DEF Placed
<1>8. CASE threads_ = {} /\ UNCHANGED <<pc, run, doubled>>
  <2>1. runs'[new] = 1
    BY <1>1, <1>2, <1>6, <1>8
  <2>2. Total(runs', queue_', run', new) = 1
    BY <1>1, <1>6, <1>8, <2>1 DEF Total
  <2>3. QED
    BY <1>7, <1>8, <2>2 DEF Placed
<1>9. CASE /\ pc' = [pc EXCEPT ![t] = "push"]
           /\ doubled' = IF threads_ = {} THEN doubled \cup {new} ELSE doubled
           /\ run' = [run EXCEPT ![t] = [task |-> new, by |-> by]]
  <2>1. /\ \A s \in Threads \ {t} : run'[s] = run[s] /\ pc'[s] = pc[s]
        /\ run'[t].task = new /\ pc'[t] = "push" /\ run[t].task # new
        /\ \A x \in Tasks : run[t].task # x
    BY <1>2, <1>9, NoTaskAssumption
  <2>a. Apart(run, run', t)
    BY <2>1, Zenon DEF Apart
  <2>2. \A x \in Tasks \ {new} : Calling(run', x) = Calling(run, x)
    <3>1. ASSUME NEW x \in Tasks \ {new} PROVE SameCalls(run, run', x)
      BY <2>1, <2>a, CallingChanges, Zenon
    <3>2. QED
      BY <3>1, Zenon DEF SameCalls
  <2>3. Cardinality(Calling(run', new)) = 1
    <3>1. OneMore(run, run', new)
      BY <2>1, <2>a, CallingChanges, Zenon
    <3>2. QED
      BY <1>6, <3>1 DEF OneMore
  <2>4. new \in doubled' \/ Total(runs', queue_', run', new) = 1
    BY <1>1, <1>6, <1>9, <2>3 DEF Total
  <2>5. \A s \in Threads : IF pc'[s] \in InRun THEN run'[s].task \in Tasks ELSE run'[s].task = NoTask
    BY <2>1 DEF Placed, InRun
  <2>6. QED
    BY <1>7, <1>9, <2>2, <2>4, <2>5, Zenon
<1>10. QED
  BY <1>8, <1>9 DEF Run

\* run() with the lock.
LEMMA PushPlaced ==
  ASSUME IInv, Placed, NEW t \in Threads, Push(t)
  PROVE  Placed'
<1>1. /\ pc[t] \in {"push", "gotRoom"} /\ UNCHANGED <<submitted, runs, doubled>>
      /\ pc \in [Threads -> PCs] /\ run[t].task \in Tasks /\ queue_ \in Seq(Tasks)
      /\ run \in [Threads -> [task : AnyTask, by : Overloads \cup {"copy"}]]
      /\ runs \in [Tasks -> Nat]
  BY Have DEF Push, Placed, InRun
<1>2. ASSUME pc' = [pc EXCEPT ![t] = "waitRoom"], UNCHANGED <<queue_, run>> PROVE Placed'
  <2>1. \A s \in Threads : pc'[s] \in InRun <=> pc[s] \in InRun
    BY <1>1, <1>2 DEF InRun
  <2>2. QED
    BY <1>1, <1>2, <2>1, ThreadsMove
<1>3. ASSUME queue_' = Append(queue_, run[t].task), run' = [run EXCEPT ![t] = NoRun],
             IF run[t].by = "move" THEN pc' = [pc EXCEPT ![t] = "notify"]
                                   ELSE NotifyOne("waitTask", [pc EXCEPT ![t] = Back(t)])
      PROVE  Placed'
  <2> DEFINE y == run[t].task
  <2>1. queue_' \in Seq(Tasks) /\ \A s \in Threads \ {t} : run'[s] = run[s]
    BY <1>1, <1>3
  <2>2. run'[t].task = NoTask /\ y # NoTask /\ \A x \in Tasks : x # NoTask
    BY <1>1, <1>3, NoTaskAssumption DEF NoRun
  <2>3. pc'[t] \notin InRun /\ \A s \in Threads \ {t} : pc'[s] \in InRun <=> pc[s] \in InRun
    <3>1. CASE pc' = [pc EXCEPT ![t] = "notify"]
      BY <1>1, <3>1 DEF InRun
    <3>2. CASE NotifyOne("waitTask", [pc EXCEPT ![t] = Back(t)])
      <4> DEFINE f == [pc EXCEPT ![t] = Back(t)]
      <4>1. /\ Back(t) \in {"idle", "task"} /\ Back(t) \in PCs /\ f \in [Threads -> PCs] /\ f[t] = Back(t)
            /\ \A s \in Threads \ {t} : f[s] = pc[s]
        BY <1>1 DEF Back, PCs
      <4>2. \A s \in At("waitTask") : f[s] = pc[s]
        BY <1>1, <4>1 DEF At
      <4>3. NotifyOne("waitTask", f)
        BY <3>2
      <4> HIDE DEF f
      <4>4. \A s \in Threads : pc'[s] \in InRun <=> f[s] \in InRun
        BY <4>1, <4>2, <4>3, NotifiedMove
      <4>5. Back(t) \notin InRun
        BY <4>1 DEF InRun
      <4>6. QED
        BY <4>1, <4>4, <4>5
    <3>3. QED
      BY <1>3, <3>1, <3>2
  <2>4. \A s \in Threads : IF pc'[s] \in InRun THEN run'[s].task \in Tasks ELSE run'[s].task = NoTask
    BY <2>1, <2>2, <2>3, Zenon DEF Placed
  <2>5. ASSUME NEW x \in Tasks PROVE Total(runs', queue_', run', x) = Total(runs, queue_, run, x)
    <3>1. /\ Cardinality(Queued(queue_, x)) \in Nat /\ runs[x] \in Nat
          /\ Cardinality(Calling(run', x)) \in Nat /\ Cardinality(Calling(run, x)) \in Nat
      BY <1>1, QueuedFinite, CallingFinite, Zenon
    <3>2. Cardinality(Queued(queue_', x)) =
            IF x = y THEN Cardinality(Queued(queue_, x)) + 1 ELSE Cardinality(Queued(queue_, x))
      BY <1>1, <1>3, QueuedAppend, Zenon
    <3>3. CASE x = y
      <4>1. run'[t].task # x /\ run[t].task = x /\ \A s \in Threads \ {t} : run[s] = run'[s]
        BY <2>1, <2>2, <3>3
      <4>2. Cardinality(Calling(run, x)) = Cardinality(Calling(run', x)) + 1
        <5>1. Apart(run', run, t)
          BY <4>1, Zenon DEF Apart
        <5>2. OneMore(run', run, x)
          BY <4>1, <5>1, CallingChanges, Zenon
        <5>3. QED
          BY <5>2, Zenon DEF OneMore
      <4>3. Cardinality(Queued(queue_', x)) = Cardinality(Queued(queue_, x)) + 1
        BY <3>2, <3>3, Zenon
      <4>4. QED
        BY <1>1, <3>1, <4>2, <4>3 DEF Total
    <3>4. CASE x # y
      <4>1. Calling(run', x) = Calling(run, x)
        <5>1. Apart(run, run', t)
          BY <2>1, Zenon DEF Apart
        <5>2. run[t].task # x /\ run'[t].task # x
          BY <2>2, <3>4, Zenon
        <5>3. SameCalls(run, run', x)
          BY <5>1, <5>2, CallingChanges, Zenon
        <5>4. QED
          BY <5>3, Zenon DEF SameCalls
      <4>2. Cardinality(Queued(queue_', x)) = Cardinality(Queued(queue_, x))
        BY <3>2, <3>4
      <4>3. QED
        BY <1>1, <4>1, <4>2 DEF Total
    <3>5. QED
      BY <3>3, <3>4, Zenon
  <2>6. QED
    BY <1>1, <2>1, <2>4, <2>5, PlacedKept
<1>4. QED
  BY <1>2, <1>3 DEF Push

\* take().
LEMMA TakePlaced ==
  ASSUME IInv, Placed, NEW w \in Workers, take(w)
  PROVE  Placed'
<1>1. /\ pc[w] \in {"take", "gotTask"} /\ UNCHANGED <<run, submitted, doubled>> /\ w \in Threads
      /\ pc \in [Threads -> PCs] /\ queue_ \in Seq(Tasks) /\ runs \in [Tasks -> Nat]
  BY Have DEF take, Placed, Threads
<1>2. ASSUME pc' = [pc EXCEPT ![w] = IF isRunning_ THEN "waitTask" ELSE "test"], UNCHANGED <<queue_, runs>>
      PROVE  Placed'
  <2>1. \A s \in Threads : pc'[s] \in InRun <=> pc[s] \in InRun
    BY <1>1, <1>2, Zenon DEF InRun
  <2>2. QED
    BY <1>1, <1>2, <2>1, ThreadsMove
<1>3. ASSUME queue_ # << >>, queue_' = Tail(queue_), runs' = [runs EXCEPT ![Head(queue_)] = @ + 1],
             RoomNotify([pc EXCEPT ![w] = "task"])
      PROVE  Placed'
  <2> DEFINE y == Head(queue_)
             f == [pc EXCEPT ![w] = "task"]
  <2>1. y \in Tasks /\ queue_' \in Seq(Tasks) /\ runs' \in [Tasks -> Nat]
    BY <1>1, <1>3
  <2>2. f \in [Threads -> PCs] /\ (\A s \in At("waitRoom") : f[s] = pc[s])
        /\ \A s \in Threads : f[s] \in InRun <=> pc[s] \in InRun
    BY <1>1 DEF At, PCs, InRun
  <2>3. RoomNotify(f)
    BY <1>3
  <2>4. \A s \in Threads : pc'[s] \in InRun <=> pc[s] \in InRun
    <3> HIDE DEF f
    <3>1. CASE NotifyOne("waitRoom", f)
      BY <2>2, <3>1, NotifiedMove
    <3>2. CASE pc' = f
      BY <2>2, <3>2
    <3>3. QED
      BY <2>3, <3>1, <3>2 DEF RoomNotify
  <2>5. \A s \in Threads : IF pc'[s] \in InRun THEN run'[s].task \in Tasks ELSE run'[s].task = NoTask
    BY <1>1, <2>4 DEF Placed
  <2>6. ASSUME NEW x \in Tasks PROVE Total(runs', queue_', run', x) = Total(runs, queue_, run, x)
    <3>1. /\ Cardinality(Queued(queue_', x)) \in Nat /\ runs[x] \in Nat /\ Cardinality(Calling(run, x)) \in Nat
      BY <1>1, <2>1, QueuedFinite, CallingFinite
    <3>2. Cardinality(Queued(queue_, x)) =
            IF x = y THEN Cardinality(Queued(queue_', x)) + 1 ELSE Cardinality(Queued(queue_', x))
      BY <1>1, <1>3, QueuedTail
    <3>3. runs'[x] = IF x = y THEN runs[x] + 1 ELSE runs[x]
      BY <1>1, <1>3, <2>1
    <3> HIDE DEF y
    <3>4. QED
      BY <1>1, <3>1, <3>2, <3>3 DEF Total
  <2>7. QED
    BY <1>1, <2>1, <2>5, <2>6, PlacedKept
<1>4. QED
  BY <1>2, <1>3, Zenon DEF take, Taken

\* Every step keeps it.
LEMMA PlacedInductive == IInv /\ Placed /\ [Next]_vars => Placed'
<1> SUFFICES ASSUME IInv, Placed, [Next]_vars PROVE Placed'
  OBVIOUS
<1>0. pc \in [Threads -> PCs] /\ (owner = "constructed" => Fresh)
  BY Have
<1>1. ASSUME NEW t \in Submitters, NEW new \in Tasks, NEW by \in Overloads, Run(t, new, by)
      PROVE  Placed'
  BY <1>1, RunPlaced, Zenon DEF Threads
<1>2. ASSUME NEW t \in Threads, NotifyNotEmpty(t) PROVE Placed'
  <2> DEFINE f == [pc EXCEPT ![t] = Back(t)]
  <2>1. pc[t] = "notify" /\ Back(t) \in {"idle", "task"} /\ NotifyOne("waitTask", f)
        /\ UNCHANGED <<submitted, doubled, queue_, runs, run>>
    BY <1>2 DEF NotifyNotEmpty, Back
  <2>2. f \in [Threads -> PCs] /\ (\A s \in At("waitTask") : f[s] = pc[s])
        /\ \A s \in Threads : f[s] \in InRun <=> pc[s] \in InRun
    BY <1>0, <2>1 DEF At, PCs, InRun
  <2> HIDE DEF f
  <2>3. \A s \in Threads : pc'[s] \in InRun <=> f[s] \in InRun
    BY <2>1, <2>2, NotifiedMove
  <2>4. QED
    BY <2>1, <2>2, <2>3, ThreadsMove
<1>3. ASSUME NEW t \in Threads, SpuriousWakeup(t) PROVE Placed'
  <2>1. \A s \in Threads : pc'[s] \in InRun <=> pc[s] \in InRun
    BY <1>0, <1>3, Zenon DEF SpuriousWakeup, Woken, InRun
  <2>2. QED
    BY <1>3, <2>1, ThreadsMove DEF SpuriousWakeup
<1>4. ASSUME NEW w \in Workers, EnterThread(w) \/ TestRunning(w) \/ TaskReturns(w) PROVE Placed'
  <2>1. \A s \in Threads : pc'[s] \in InRun <=> pc[s] \in InRun
    BY <1>0, <1>4 DEF EnterThread, TestRunning, TaskReturns, InRun
  <2>2. QED
    BY <1>4, <2>1, ThreadsMove DEF EnterThread, TestRunning, TaskReturns
<1>5. ASSUME NEW new \in SUBSET Workers, start(new) PROVE Placed'
  <2>1. \A s \in Threads : pc'[s] \in InRun <=> pc[s] \in InRun
    BY <1>0, <1>5 DEF start, Fresh, InRun
  <2>2. QED
    BY <1>5, <2>1, ThreadsMove DEF start
<1>6. CASE stop
  <2>1. \A s \in Threads : pc'[s] \in InRun <=> pc[s] \in InRun
    BY <1>0, <1>6 DEF stop, Sleeping, At, Woken, InRun
  <2>2. QED
    BY <1>6, <2>1, ThreadsMove DEF stop
<1>7. CASE Join
  BY <1>7, ThreadsMove DEF Join
<1>8. CASE UNCHANGED vars
  BY <1>8, ThreadsMove DEF vars
<1>9. QED
  BY <1>1, <1>2, <1>3, <1>4, <1>5, <1>6, <1>7, <1>8, PushPlaced, TakePlaced DEF Next, RunStep, WorkerStep

\* Before start() no task is anywhere.
LEMMA PlacedInit == Init => Placed
<1> SUFFICES ASSUME Init PROVE Placed
  OBVIOUS
<1>1. /\ queue_ = << >> /\ queue_ \in Seq(Tasks) /\ runs \in [Tasks -> Nat] /\ submitted = {}
      /\ \A x \in Tasks : runs[x] = 0
  BY DEF Init
<1>2. \A t \in Threads : run[t].task = NoTask /\ pc[t] \notin InRun
  BY DEF Init, NoRun, InRun
<1>3. \A x \in Tasks : Queued(queue_, x) = {} /\ Calling(run, x) = {}
  BY <1>1, <1>2, NoTaskAssumption DEF Queued, Calling
<1>4. \A x \in Tasks : Total(runs, queue_, run, x) = 0
  <2>1. Cardinality({}) = 0
    BY FS_EmptySet
  <2>2. \A x \in Tasks : Cardinality(Queued(queue_, x)) = 0 /\ Cardinality(Calling(run, x)) = 0
    BY <1>3, <2>1
  <2>3. QED
    BY <1>1, <2>2 DEF Total
<1>5. QED
  BY <1>1, <1>2, <1>4 DEF Placed, TaskInOnePlace

\* Every task handed over is run once, queued once or still in its run() call, whatever
\* the threads do; but for the tasks that run(Task&&) runs on the spot and queues as well
\* (ThreadPool.cc:50-98).
THEOREM NoTaskLost == Spec => []TaskInOnePlace
<1>1. Placed => TaskInOnePlace
  BY DEF Placed
<1>2. QED
  BY <1>1, InitInv, Inductive, PlacedInit, PlacedInductive, PTL DEF Spec
================================================================================
