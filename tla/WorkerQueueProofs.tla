---------------------------- MODULE WorkerQueueProofs ----------------------------
(***************************************************************************)
(* The queues and the latch for any threads, values, capacities and        *)
(* counts: first each under threads that call it as they like, then within *)
(* the program of WorkerQueue, whose steps are steps of the one and of the *)
(* other.                                                                  *)
(***************************************************************************)
EXTENDS WorkerQueue, FiniteSetTheorems, SequenceTheorems, TLAPS

USE ThreadsAssumption, CapacitiesAssumption, NoValueAssumption, LatchAssumption, RolesAssumption

--------------------------------------------------------------------------------
(* Counting threads by where they are.                                     *)

PCs == {"out", "put", "waitRoom", "gotRoom", "notify", "take", "waitTask", "gotTask"}

\* The threads at p, when f says where each one is.
Where(f, p) == {t \in Threads : f[t] = p}

\* The number of threads at p is a number.
LEMMA WhereFinite ==
  ASSUME NEW f, NEW p
  PROVE  IsFiniteSet(Where(f, p)) /\ Cardinality(Where(f, p)) \in Nat
<1>1. Where(f, p) \subseteq Threads
  BY DEF Where
<1>2. IsFiniteSet(Where(f, p))
  BY <1>1, FS_Subset
<1>3. QED
  BY <1>2, FS_CardinalityType

\* Thread t moves to q.
Moved(f, t, q) == [f EXCEPT ![t] = q]

\* When t moves to q, the threads at q are one more and those where it was one fewer.
LEMMA Move ==
  ASSUME NEW f \in [Threads -> PCs], NEW t \in Threads, NEW q \in PCs, NEW p \in PCs
  PROVE  /\ Moved(f, t, q) \in [Threads -> PCs]
         /\ p # q /\ f[t] # p => Where(Moved(f, t, q), p) = Where(f, p)
         /\ p = q /\ f[t] # p =>
              Cardinality(Where(Moved(f, t, q), p)) = Cardinality(Where(f, p)) + 1
         /\ p # q /\ f[t] = p =>
              Cardinality(Where(f, p)) = Cardinality(Where(Moved(f, t, q), p)) + 1
<1> DEFINE g == Moved(f, t, q)
<1>0. g \in [Threads -> PCs] /\ g[t] = q /\ \A s \in Threads \ {t} : g[s] = f[s]
  BY DEF Moved
<1> HIDE DEF g
<1>1. ASSUME p # q, f[t] # p PROVE Where(g, p) = Where(f, p)
  BY <1>0, <1>1 DEF Where
<1>2. ASSUME p = q, f[t] # p PROVE Cardinality(Where(g, p)) = Cardinality(Where(f, p)) + 1
  <2>1. Where(g, p) = Where(f, p) \cup {t} /\ t \notin Where(f, p)
    BY <1>0, <1>2 DEF Where
  <2>2. IsFiniteSet(Where(f, p))
    BY WhereFinite
  <2>3. QED
    BY ONLY <2>1, <2>2, FS_AddElement
<1>3. ASSUME p # q, f[t] = p PROVE Cardinality(Where(f, p)) = Cardinality(Where(g, p)) + 1
  <2>1. Where(f, p) = Where(g, p) \cup {t} /\ t \notin Where(g, p)
    BY <1>0, <1>3 DEF Where
  <2>2. IsFiniteSet(Where(g, p))
    BY WhereFinite
  <2>3. QED
    BY ONLY <2>1, <2>2, FS_AddElement
<1>4. QED
  BY <1>0, <1>1, <1>2, <1>3 DEF g

--------------------------------------------------------------------------------
(* The queue.                                                              *)

QueueInv == QueueTypeOK /\ NotifiesKept /\ FirstInFirstOut

\* The invariant holds at the start.
LEMMA QueueInitInv == QueueInit => QueueInv
<1> SUFFICES ASSUME QueueInit PROVE QueueInv
  OBVIOUS
<1>1. QueueTypeOK
  BY DEF QueueInit, QueueTypeOK, bounded, Unbounded
<1>2. At("waitTask") = {} /\ At("waitRoom") = {}
  BY DEF QueueInit, At
<1>3. FirstInFirstOut
  BY DEF QueueInit, FirstInFirstOut
<1>4. QED
  BY <1>1, <1>2, <1>3 DEF QueueInv, NotifiesKept

\* A notify_one moves at most one more thread, from p to where it was woken; if nobody is
\* left asleep at p the first conjunct does not matter.
LEMMA NotifyOneMoves ==
  ASSUME NEW f \in [Threads -> PCs], NEW p \in {"waitTask", "waitRoom"}, NotifyOne(p, f),
         Where(f, p) = At(p)
  PROVE  /\ pc' \in [Threads -> PCs]
         /\ \A r \in {"waitTask", "waitRoom"} : At(r)' \subseteq Where(f, r)
         /\ At(p)' # {} => Cardinality(At(Woken(p))') = Cardinality(Where(f, Woken(p))) + 1
         /\ \A r \in PCs : r # p /\ r # Woken(p) => At(r)' = Where(f, r)
         /\ Cardinality(At(Woken(p))') >= Cardinality(Where(f, Woken(p)))
<1>1. \A r : At(r)' = Where(pc', r)
  BY DEF At, Where
<1>2. Woken(p) \in {"gotTask", "gotRoom"} /\ Woken(p) \in PCs /\ p \in PCs /\ p # Woken(p)
  BY DEF Woken, PCs
<1>3. \A r : Cardinality(Where(f, r)) \in Nat
  BY WhereFinite
<1>4. CASE At(p) = {} /\ pc' = f
  BY <1>1, <1>3, <1>4
<1>5. ASSUME NEW t \in At(p), pc' = [f EXCEPT ![t] = Woken(p)]
      PROVE  /\ pc' \in [Threads -> PCs]
             /\ \A r \in {"waitTask", "waitRoom"} : At(r)' \subseteq Where(f, r)
             /\ Cardinality(At(Woken(p))') = Cardinality(Where(f, Woken(p))) + 1
             /\ \A r \in PCs : r # p /\ r # Woken(p) => At(r)' = Where(f, r)
  <2>1. t \in Threads /\ f[t] = p
    BY <1>5 DEF At, Where
  <2>2. pc' = Moved(f, t, Woken(p)) /\ pc' \in [Threads -> PCs]
    <3>1. pc' = Moved(f, t, Woken(p))
      BY <1>5 DEF Moved
    <3>2. QED
      BY <1>2, <2>1, <3>1, Move
  <2>3. Cardinality(Where(pc', Woken(p))) = Cardinality(Where(f, Woken(p))) + 1
    BY <1>2, <2>1, <2>2, Move
  <2>4. \A r \in PCs : r # p /\ r # Woken(p) => Where(pc', r) = Where(f, r)
    <3> SUFFICES ASSUME NEW r \in PCs, r # p, r # Woken(p) PROVE Where(pc', r) = Where(f, r)
      OBVIOUS
    <3>1. \A s \in Threads : pc'[s] = r <=> f[s] = r
      BY <1>2, <2>1, <2>2 DEF Moved
    <3>2. QED
      BY <3>1 DEF Where
  <2>5. \A r \in {"waitTask", "waitRoom"} : Where(pc', r) \subseteq Where(f, r)
    BY <1>2, <1>5, <2>1 DEF Where
  <2>6. QED
    BY <1>1, <2>2, <2>3, <2>4, <2>5
<1>6. QED
  <2>1. CASE \E t \in At(p) : pc' = [f EXCEPT ![t] = Woken(p)]
    <3>1. Cardinality(At(Woken(p))') = Cardinality(Where(f, Woken(p))) + 1
      BY <1>5, <2>1
    <3>2. Cardinality(At(Woken(p))') >= Cardinality(Where(f, Woken(p)))
      BY <1>3, <3>1
    <3>3. QED
      BY <1>5, <2>1, <3>2
  <2>2. QED
    BY <1>4, <2>1 DEF NotifyOne

\* Appending to what was given, or moving the front of the queue to what was taken, keeps
\* the two histories in step.
LEMMA Histories ==
  ASSUME FirstInFirstOut, QueueTypeOK
  PROVE  /\ \A v \in Values : Append(given, v) = taken \o Append(queue_, v)
         /\ queue_ # << >> => given = Append(taken, Head(queue_)) \o Tail(queue_)
<1>1. given \in Seq(Values) /\ taken \in Seq(Values) /\ queue_ \in Seq(Values)
      /\ given = taken \o queue_
  BY DEF QueueTypeOK, FirstInFirstOut
<1>2. ASSUME NEW v \in Values PROVE Append(given, v) = taken \o Append(queue_, v)
  BY ONLY <1>1, <1>2
<1>3. ASSUME queue_ # << >> PROVE given = Append(taken, Head(queue_)) \o Tail(queue_)
  BY ONLY <1>1, <1>3
<1>4. QED
  BY <1>2, <1>3

\* Every thread is somewhere.
LEMMA PcType ==
  ASSUME QueueInv
  PROVE  pc \in [Threads -> PCs]
  BY DEF QueueInv, QueueTypeOK, PCs

\* At() in terms of Where(), and what the invariant gives of it.
LEMMA AtIs ==
  ASSUME QueueInv
  PROVE  /\ pc \in [Threads -> PCs]
         /\ \A p : At(p) = Where(pc, p) /\ Cardinality(At(p)) \in Nat
         /\ \A p : At(p)' = Where(pc', p) /\ Cardinality(At(p)') \in Nat
         /\ queue_ \in Seq(Values) /\ Len(queue_) \in Nat /\ capacity \in Int
<1>1. \A p : At(p) = Where(pc, p) /\ At(p)' = Where(pc', p)
  BY DEF At, Where
<1>2. \A p : Cardinality(Where(pc, p)) \in Nat /\ Cardinality(Where(pc', p)) \in Nat
  BY WhereFinite
<1>3. pc \in [Threads -> PCs] /\ queue_ \in Seq(Values) /\ capacity \in Int
  BY DEF QueueInv, QueueTypeOK, PCs, Unbounded
<1>4. Len(queue_) \in Nat
  BY <1>3, LenProperties
<1>5. QED
  BY <1>1, <1>2, <1>3, <1>4

\* A step that only moves one thread, and neither to sleep nor away from where it counts
\* as woken or as about to notify.
LEMMA HarmlessStep ==
  ASSUME QueueInv, NEW t \in Threads, NEW q \in PCs, pc' = Moved(pc, t, q),
         pc[t] \notin {"gotTask", "gotRoom", "notify"}, q \notin {"waitTask", "waitRoom"},
         item' \in [Threads -> Values \cup {NoValue}],
         q \in {"put", "gotRoom"} => item'[t] \in Values,
         \A s \in Threads \ {t} : item'[s] = item[s],
         UNCHANGED <<capacity, queue_, given, taken>>
  PROVE  QueueInv'
<1>1. /\ pc' \in [Threads -> PCs] /\ pc'[t] = q /\ \A s \in Threads \ {t} : pc'[s] = pc[s]
  BY AtIs DEF Moved
<1>2. QueueTypeOK'
  <2>1. \A s \in Threads : pc'[s] \in {"put", "waitRoom", "gotRoom"} => item'[s] \in Values
    BY <1>1 DEF QueueInv, QueueTypeOK
  <2>2. QED
    BY <1>1, <2>1 DEF QueueInv, QueueTypeOK, bounded, PCs
<1>3. FirstInFirstOut'
  BY DEF QueueInv, FirstInFirstOut
<1>4. \A p \in {"waitTask", "waitRoom"} : At(p)' \subseteq At(p)
  BY <1>1 DEF At
<1>5. \A p \in {"gotTask", "gotRoom", "notify"} : Cardinality(At(p)') >= Cardinality(At(p))
  <2> SUFFICES ASSUME NEW p \in {"gotTask", "gotRoom", "notify"}
               PROVE  Cardinality(At(p)') >= Cardinality(At(p))
    OBVIOUS
  <2>1. p \in PCs /\ pc[t] # p
    BY DEF PCs
  <2>2. CASE p = q
    <3>1. Cardinality(Where(Moved(pc, t, q), q)) = Cardinality(Where(pc, q)) + 1
      <4>1. pc \in [Threads -> PCs] /\ pc[t] # q
        BY <2>1, <2>2, PcType
      <4>2. QED
        BY ONLY <4>1, t \in Threads, q \in PCs, Move
    <3>2. QED
      BY <2>2, <3>1, AtIs
  <2>3. CASE p # q
    <3>1. At(p)' = At(p)
      BY <1>1, <2>1, <2>3 DEF At
    <3>2. QED
      BY <3>1, AtIs
  <2>4. QED
    BY <2>2, <2>3
<1>6. NotifiesKept'
  <2>1. /\ Cardinality(At("gotTask")') >= Cardinality(At("gotTask"))
        /\ Cardinality(At("notify")') >= Cardinality(At("notify"))
        /\ Cardinality(At("gotRoom")') >= Cardinality(At("gotRoom"))
    BY <1>5
  <2>2. At("waitTask")' # {} => Len(queue_') <= Cardinality(At("gotTask")') + Cardinality(At("notify")')
    BY <1>4, <2>1, AtIs DEF QueueInv, NotifiesKept
  <2>3. At("waitRoom")' # {} => capacity' <= Len(queue_') + Cardinality(At("gotRoom")')
    BY <1>4, <2>1, AtIs DEF QueueInv, NotifiesKept
  <2>4. QED
    BY <2>2, <2>3 DEF NotifiesKept
<1>7. QED
  BY <1>2, <1>3, <1>6 DEF QueueInv

\* put(): it sleeps on a full queue, or pushes and wakes a taker, or leaves that to the
\* notify after its unlock.
LEMMA PutStep ==
  ASSUME QueueInv, NEW t \in Threads, Put(t)
  PROVE  QueueInv'
<1> DEFINE c(p) == Cardinality(At(p))
<1>1. /\ pc[t] \in {"put", "gotRoom"} /\ UNCHANGED <<capacity, item, taken>>
      /\ item[t] \in Values
  BY DEF Put, QueueInv, QueueTypeOK
<1>2. CASE full /\ pc' = [pc EXCEPT ![t] = "waitRoom"] /\ UNCHANGED <<queue_, given>>
  <2>1. pc' = Moved(pc, t, "waitRoom") /\ pc' \in [Threads -> PCs]
    BY <1>2, AtIs DEF Moved, PCs
  <2>2. QueueTypeOK' /\ FirstInFirstOut'
    BY <1>1, <1>2, <2>1 DEF QueueInv, QueueTypeOK, FirstInFirstOut, bounded, PCs
  <2>3. /\ At("waitTask")' = At("waitTask") /\ At("gotTask")' = At("gotTask")
        /\ At("notify")' = At("notify")
    BY <1>1, <1>2, AtIs DEF At
  <2>4. capacity' = Len(queue_') /\ Cardinality(At("gotRoom")') \in Nat /\ capacity' \in Int
    BY <1>1, <1>2, AtIs DEF full
  <2>5. QED
    BY <1>2, <2>2, <2>3, <2>4 DEF QueueInv, NotifiesKept
<1>3. ASSUME ~full, queue_' = PushBack(queue_, item[t]), given' = Append(given, item[t]),
             IF bounded THEN NotifyOne("waitTask", [pc EXCEPT ![t] = "out"])
                        ELSE pc' = [pc EXCEPT ![t] = "notify"]
      PROVE  QueueInv'
  <2>1. queue_' = Append(queue_, item[t]) /\ queue_' \in Seq(Values)
        /\ Len(queue_') = Len(queue_) + 1 /\ given' \in Seq(Values)
    BY <1>1, <1>3, AtIs DEF PushBack, QueueInv, QueueTypeOK
  <2>2. FirstInFirstOut'
    BY <1>1, <1>3, <2>1, Histories DEF QueueInv, FirstInFirstOut
  <2>3. bounded' => Len(queue_') <= capacity'
    BY <1>1, <1>3, <2>1, AtIs DEF QueueInv, QueueTypeOK, bounded, full
  <2>4. CASE bounded
    <3> DEFINE f == Moved(pc, t, "out")
    <3>1. f \in [Threads -> PCs] /\ f[t] = "out" /\ \A s \in Threads \ {t} : f[s] = pc[s]
      BY AtIs DEF Moved, PCs
    <3>2. NotifyOne("waitTask", f)
      BY <1>3, <2>4 DEF Moved
    <3> HIDE DEF f
    <3>3. /\ Where(f, "waitTask") = At("waitTask") /\ Where(f, "gotTask") = At("gotTask")
          /\ Where(f, "notify") = At("notify") /\ Where(f, "waitRoom") = At("waitRoom")
      BY <1>1, <3>1 DEF At, Where
    <3>4. c("gotRoom") <= Cardinality(Where(f, "gotRoom")) + 1
      <4>1. CASE pc[t] = "gotRoom"
        <5>1. pc \in [Threads -> PCs] /\ "gotRoom" \in PCs /\ "out" \in PCs
          BY PcType DEF PCs
        <5>2. Cardinality(Where(pc, "gotRoom")) = Cardinality(Where(f, "gotRoom")) + 1
          BY ONLY <4>1, <5>1, t \in Threads, Move DEF f
        <5>3. QED
          BY <5>2, AtIs
      <4>2. CASE pc[t] # "gotRoom"
        <5>1. Where(f, "gotRoom") = At("gotRoom")
          BY <3>1, <4>2 DEF At, Where
        <5>2. QED
          BY <5>1, AtIs
      <4>3. QED
        BY <4>1, <4>2
    <3>5. Woken("waitTask") = "gotTask" /\ "waitTask" \in PCs /\ "notify" \in PCs /\ "gotRoom" \in PCs
          /\ "waitRoom" \in PCs
      BY DEF Woken, PCs
    <3>6. /\ pc' \in [Threads -> PCs]
          /\ At("waitTask")' \subseteq At("waitTask") /\ At("waitRoom")' = At("waitRoom")
          /\ At("waitTask")' # {} => Cardinality(At("gotTask")') = c("gotTask") + 1
          /\ At("notify")' = At("notify") /\ At("gotRoom")' = Where(f, "gotRoom")
      BY <3>1, <3>2, <3>3, <3>5, NotifyOneMoves
    <3>7. \A s \in Threads : pc'[s] \in {"put", "waitRoom", "gotRoom"} => item'[s] \in Values
      <4> SUFFICES ASSUME NEW s \in Threads, pc'[s] \in {"put", "waitRoom", "gotRoom"}
                   PROVE  item[s] \in Values
        BY <1>1
      <4>1. pc'[s] = f[s]
        BY <3>1, <3>2 DEF NotifyOne, Woken
      <4>2. QED
        BY <3>1, <4>1 DEF QueueInv, QueueTypeOK
    <3>8. QueueTypeOK'
      BY <1>1, <2>1, <2>3, <3>6, <3>7 DEF QueueInv, QueueTypeOK, bounded, PCs
    <3>9. At("waitTask")' # {} => Len(queue_') <= Cardinality(At("gotTask")') + Cardinality(At("notify")')
      <4> SUFFICES ASSUME At("waitTask")' # {}
                   PROVE  Len(queue_') <= Cardinality(At("gotTask")') + Cardinality(At("notify")')
        OBVIOUS
      <4>1. Len(queue_) <= c("gotTask") + c("notify")
        BY <3>6 DEF QueueInv, NotifiesKept
      <4>2. c("gotTask") \in Nat /\ c("notify") \in Nat /\ Len(queue_) \in Nat
        BY AtIs
      <4>3. QED
        BY <2>1, <3>6, <4>1, <4>2
    <3>10. At("waitRoom")' # {} => capacity' <= Len(queue_') + Cardinality(At("gotRoom")')
      BY <1>1, <2>1, <3>4, <3>6, AtIs DEF QueueInv, NotifiesKept
    <3>11. QED
      BY <2>2, <3>8, <3>9, <3>10 DEF QueueInv, NotifiesKept
  <2>5. CASE ~bounded
    <3>1. pc' = Moved(pc, t, "notify") /\ "notify" \in PCs /\ capacity = -1
      BY <1>3, <2>5 DEF Moved, PCs, bounded, Unbounded
    <3>2. pc' \in [Threads -> PCs] /\ pc'[t] = "notify" /\ \A s \in Threads \ {t} : pc'[s] = pc[s]
      BY <3>1, AtIs DEF Moved
    <3>3. QueueTypeOK'
      BY <1>1, <2>1, <2>3, <3>2 DEF QueueInv, QueueTypeOK, bounded, PCs
    <3>4. At("waitTask")' = At("waitTask") /\ At("gotTask")' = At("gotTask")
      BY <1>1, <3>2 DEF At
    <3>5. Cardinality(At("notify")') = c("notify") + 1
      <4>1. Cardinality(Where(Moved(pc, t, "notify"), "notify")) = Cardinality(Where(pc, "notify")) + 1
        <5>1. pc[t] # "notify" /\ "notify" \in PCs /\ pc \in [Threads -> PCs]
          BY <1>1, <3>1, PcType
        <5>2. QED
          BY ONLY <5>1, t \in Threads, Move
      <4>2. QED
        BY <3>1, <4>1, AtIs
    <3>6. At("waitTask")' # {} => Len(queue_') <= Cardinality(At("gotTask")') + Cardinality(At("notify")')
      BY <2>1, <3>4, <3>5, AtIs DEF QueueInv, NotifiesKept
    <3>7. capacity' <= Len(queue_') + Cardinality(At("gotRoom")')
      BY <1>1, <2>1, <3>1, AtIs
    <3>8. QED
      BY <2>2, <3>3, <3>6, <3>7 DEF QueueInv, NotifiesKept
  <2>6. QED
    BY <2>4, <2>5
<1>4. QED
  BY <1>2, <1>3 DEF Put, PutWaits

\* The notify after BlockingQueue::put's unlock: one notify fewer to come, and one taker
\* more that is awake if there was a sleeper.
LEMMA NotifyStep ==
  ASSUME QueueInv, NEW t \in Threads, NotifyNotEmpty(t)
  PROVE  QueueInv'
<1> DEFINE c(p) == Cardinality(At(p))
           f == Moved(pc, t, "out")
<1>1. pc[t] = "notify" /\ UNCHANGED <<capacity, queue_, item, given, taken>>
  BY DEF NotifyNotEmpty
<1>2. f \in [Threads -> PCs] /\ f[t] = "out" /\ \A s \in Threads \ {t} : f[s] = pc[s]
  BY PcType DEF Moved, PCs
<1>3. NotifyOne("waitTask", f)
  BY DEF NotifyNotEmpty, Moved
<1>4. c("notify") = Cardinality(Where(f, "notify")) + 1
  <2>1. pc \in [Threads -> PCs] /\ "notify" \in PCs /\ "out" \in PCs
    BY PcType DEF PCs
  <2>2. Cardinality(Where(pc, "notify")) = Cardinality(Where(f, "notify")) + 1
    BY ONLY <1>1, <2>1, t \in Threads, Move
  <2>3. QED
    BY <2>2, AtIs
<1> HIDE DEF f
<1>5. /\ Where(f, "waitTask") = At("waitTask") /\ Where(f, "gotTask") = At("gotTask")
      /\ Where(f, "gotRoom") = At("gotRoom") /\ Where(f, "waitRoom") = At("waitRoom")
  BY <1>1, <1>2 DEF At, Where
<1>6. /\ Woken("waitTask") = "gotTask" /\ "waitTask" \in PCs /\ "notify" \in PCs
      /\ "gotRoom" \in PCs /\ "waitRoom" \in PCs
  BY DEF Woken, PCs
<1>7. /\ pc' \in [Threads -> PCs]
      /\ At("waitTask")' \subseteq At("waitTask") /\ At("waitRoom")' = At("waitRoom")
      /\ At("waitTask")' # {} => Cardinality(At("gotTask")') = c("gotTask") + 1
      /\ At("notify")' = Where(f, "notify") /\ At("gotRoom")' = At("gotRoom")
  BY <1>2, <1>3, <1>5, <1>6, NotifyOneMoves
<1>8. QueueTypeOK'
  <2>1. \A s \in Threads : pc'[s] \in {"put", "waitRoom", "gotRoom"} => item'[s] \in Values
    <3> SUFFICES ASSUME NEW s \in Threads, pc'[s] \in {"put", "waitRoom", "gotRoom"}
                 PROVE  item[s] \in Values
      BY <1>1
    <3>1. pc'[s] = f[s]
      BY <1>2, <1>3 DEF NotifyOne, Woken
    <3>2. QED
      BY <1>2, <3>1 DEF QueueInv, QueueTypeOK
  <2>2. QED
    BY <1>1, <1>7, <2>1 DEF QueueInv, QueueTypeOK, bounded, PCs
<1>9. At("waitTask")' # {} => Len(queue_') <= Cardinality(At("gotTask")') + Cardinality(At("notify")')
  <2> SUFFICES ASSUME At("waitTask")' # {}
               PROVE  Len(queue_') <= Cardinality(At("gotTask")') + Cardinality(At("notify")')
    OBVIOUS
  <2>1. Len(queue_) <= c("gotTask") + c("notify")
    BY <1>7 DEF QueueInv, NotifiesKept
  <2>2. c("gotTask") \in Nat /\ Len(queue_) \in Nat /\ Cardinality(At("notify")') \in Nat
    BY AtIs
  <2>3. QED
    BY <1>1, <1>4, <1>7, <2>1, <2>2
<1>10. At("waitRoom")' # {} => capacity' <= Len(queue_') + Cardinality(At("gotRoom")')
  BY <1>1, <1>7 DEF QueueInv, NotifiesKept
<1>11. FirstInFirstOut'
  BY <1>1 DEF QueueInv, FirstInFirstOut
<1>12. QED
  BY <1>8, <1>9, <1>10, <1>11 DEF QueueInv, NotifiesKept

\* take(): it sleeps on an empty queue, or takes the front and tells a thread that waits
\* for room.
LEMMA TakeStep ==
  ASSUME QueueInv, NEW t \in Threads, Take(t)
  PROVE  QueueInv'
<1> DEFINE c(p) == Cardinality(At(p))
           f == Moved(pc, t, "out")
<1>1. pc[t] \in {"take", "gotTask"} /\ UNCHANGED <<capacity, given>>
  BY DEF Take
<1>2. CASE queue_ = << >> /\ pc' = [pc EXCEPT ![t] = "waitTask"] /\ UNCHANGED <<queue_, item, taken>>
  <2>1. pc' \in [Threads -> PCs] /\ pc'[t] = "waitTask" /\ \A s \in Threads \ {t} : pc'[s] = pc[s]
    BY <1>2, PcType DEF PCs
  <2>2. QueueTypeOK' /\ FirstInFirstOut'
    BY <1>1, <1>2, <2>1 DEF QueueInv, QueueTypeOK, FirstInFirstOut, bounded, PCs
  <2>3. At("waitRoom")' = At("waitRoom") /\ At("gotRoom")' = At("gotRoom")
    BY <1>1, <2>1 DEF At
  <2>4. Len(queue_') <= Cardinality(At("gotTask")') + Cardinality(At("notify")')
    BY <1>2, AtIs
  <2>5. QED
    BY <1>1, <1>2, <2>2, <2>3, <2>4 DEF QueueInv, NotifiesKept
<1>3. ASSUME queue_ # << >>, item' = [item EXCEPT ![t] = Head(queue_)], queue_' = Tail(queue_),
             taken' = Append(taken, Head(queue_)), RoomNotify([pc EXCEPT ![t] = "out"])
      PROVE  QueueInv'
  <2>1. /\ Head(queue_) \in Values /\ queue_' \in Seq(Values) /\ taken' \in Seq(Values)
        /\ Len(queue_) = Len(queue_') + 1 /\ Len(queue_') \in Nat
    <3>1. queue_ \in Seq(Values) /\ taken \in Seq(Values)
      BY DEF QueueInv, QueueTypeOK
    <3>2. QED
      BY <1>3, <3>1
  <2>2. FirstInFirstOut'
    BY <1>1, <1>3, Histories DEF QueueInv, FirstInFirstOut
  <2>3. f \in [Threads -> PCs] /\ f[t] = "out" /\ \A s \in Threads \ {t} : f[s] = pc[s]
    BY PcType DEF Moved, PCs
  <2>4. (bounded /\ NotifyOne("waitRoom", f)) \/ (~bounded /\ pc' = f)
    <3>1. RoomNotify(f)
      BY <1>3 DEF Moved
    <3> HIDE DEF f
    <3>2. QED
      BY ONLY <3>1 DEF RoomNotify, bounded
  <2>5. c("gotTask") <= Cardinality(Where(f, "gotTask")) + 1
    <3>1. CASE pc[t] = "gotTask"
      <4>1. pc \in [Threads -> PCs] /\ "gotTask" \in PCs /\ "out" \in PCs
        BY PcType DEF PCs
      <4>2. Cardinality(Where(pc, "gotTask")) = Cardinality(Where(f, "gotTask")) + 1
        BY ONLY <3>1, <4>1, t \in Threads, Move
      <4>3. QED
        BY <4>2, AtIs
    <3>2. CASE pc[t] # "gotTask"
      <4>1. Where(f, "gotTask") = At("gotTask")
        BY <2>3, <3>2 DEF At, Where
      <4>2. QED
        BY <4>1, AtIs
    <3>3. QED
      BY <3>1, <3>2
  <2> HIDE DEF f
  <2>6. /\ Where(f, "waitTask") = At("waitTask") /\ Where(f, "notify") = At("notify")
        /\ Where(f, "gotRoom") = At("gotRoom") /\ Where(f, "waitRoom") = At("waitRoom")
    BY <1>1, <2>3 DEF At, Where
  <2>7. /\ pc' \in [Threads -> PCs] /\ At("waitTask")' = At("waitTask")
        /\ At("gotTask")' = Where(f, "gotTask") /\ At("notify")' = At("notify")
        /\ At("waitRoom")' \subseteq At("waitRoom")
        /\ bounded /\ At("waitRoom")' # {} => Cardinality(At("gotRoom")') = c("gotRoom") + 1
    <3>1. CASE ~bounded /\ pc' = f
      BY <2>3, <2>6, <3>1 DEF At, Where
    <3>2. CASE NotifyOne("waitRoom", f)
      <4>1. /\ Woken("waitRoom") = "gotRoom" /\ "waitTask" \in PCs /\ "notify" \in PCs
            /\ "gotTask" \in PCs /\ "waitRoom" \in PCs
        BY DEF Woken, PCs
      <4>2. QED
        BY <2>3, <2>6, <3>2, <4>1, NotifyOneMoves
    <3>3. QED
      BY <2>4, <3>1, <3>2
  <2>8. QueueTypeOK'
    <3>1. item' \in [Threads -> Values \cup {NoValue}]
      BY <1>3, <2>1 DEF QueueInv, QueueTypeOK
    <3>2. \A s \in Threads : pc'[s] \in {"put", "waitRoom", "gotRoom"} => item'[s] \in Values
      <4> SUFFICES ASSUME NEW s \in Threads, pc'[s] \in {"put", "waitRoom", "gotRoom"}
                   PROVE  item'[s] \in Values
        OBVIOUS
      <4>1. f[s] \in {"put", "waitRoom", "gotRoom"}
        <5>1. CASE pc' = f
          BY <5>1
        <5>2. CASE NotifyOne("waitRoom", f)
          BY <1>1, <2>3, <5>2 DEF NotifyOne, Woken, At
        <5>3. QED
          BY <2>4, <5>1, <5>2
      <4>2. s # t /\ pc[s] \in {"put", "waitRoom", "gotRoom"}
        BY <2>3, <4>1
      <4>3. item'[s] = item[s]
        BY <1>3, <4>2 DEF QueueInv, QueueTypeOK
      <4>4. QED
        BY <4>2, <4>3 DEF QueueInv, QueueTypeOK
    <3>3. bounded' => Len(queue_') <= capacity'
      BY <1>1, <2>1, AtIs DEF QueueInv, QueueTypeOK, bounded
    <3>4. QED
      BY <1>1, <2>1, <2>7, <3>1, <3>2, <3>3 DEF QueueInv, QueueTypeOK, PCs
  <2>9. At("waitTask")' # {} => Len(queue_') <= Cardinality(At("gotTask")') + Cardinality(At("notify")')
    <3> SUFFICES ASSUME At("waitTask")' # {}
                 PROVE  Len(queue_') <= Cardinality(At("gotTask")') + Cardinality(At("notify")')
      OBVIOUS
    <3>1. Len(queue_) <= c("gotTask") + c("notify")
      BY <2>7 DEF QueueInv, NotifiesKept
    <3>2. /\ c("gotTask") \in Nat /\ c("notify") \in Nat /\ Cardinality(At("gotTask")') \in Nat
          /\ c("gotTask") <= Cardinality(At("gotTask")') + 1
      BY <2>5, <2>7, AtIs
    <3>3. QED
      BY <2>1, <2>7, <3>1, <3>2
  <2>10. At("waitRoom")' # {} => capacity' <= Len(queue_') + Cardinality(At("gotRoom")')
    <3> SUFFICES ASSUME At("waitRoom")' # {}
                 PROVE  capacity <= Len(queue_') + Cardinality(At("gotRoom")')
      BY <1>1
    <3>1. c("gotRoom") \in Nat /\ Cardinality(At("gotRoom")') \in Nat /\ capacity \in Int
      BY AtIs
    <3>2. CASE bounded
      <4>1. capacity <= Len(queue_) + c("gotRoom")
        BY <2>7 DEF QueueInv, NotifiesKept
      <4>2. QED
        BY <2>1, <2>7, <3>1, <3>2, <4>1
    <3>3. CASE ~bounded
      BY <2>1, <3>1, <3>3 DEF bounded, Unbounded
    <3>4. QED
      BY <3>2, <3>3
  <2>11. QED
    BY <2>2, <2>8, <2>9, <2>10 DEF QueueInv, NotifiesKept
<1>4. QED
  BY <1>2, <1>3 DEF Take

\* Every step keeps the invariant.
LEMMA QueueInductive == QueueInv /\ [QueueNext]_queueVars => QueueInv'
<1> SUFFICES ASSUME QueueInv, [QueueNext]_queueVars PROVE QueueInv'
  OBVIOUS
<1>1. ASSUME NEW t \in Threads, QueueStep(t) PROVE QueueInv'
  BY <1>1, PutStep, NotifyStep, TakeStep DEF QueueStep
<1>2. ASSUME NEW t \in Threads, SpuriousWakeup(t) PROVE QueueInv'
  <2> DEFINE q == Woken(pc[t])
  <2>1. /\ pc[t] \in {"waitTask", "waitRoom"} /\ pc' = Moved(pc, t, q)
        /\ UNCHANGED <<capacity, queue_, item, given, taken>>
    BY <1>2 DEF SpuriousWakeup, Moved
  <2>2. q \in PCs /\ q \notin {"waitTask", "waitRoom"} /\ q \in {"gotTask", "gotRoom"}
        /\ (q \in {"put", "gotRoom"} => pc[t] = "waitRoom")
    BY <2>1 DEF Woken, PCs
  <2>3. item' \in [Threads -> Values \cup {NoValue}] /\ (q \in {"put", "gotRoom"} => item'[t] \in Values)
        /\ \A s \in Threads \ {t} : item'[s] = item[s]
    BY <2>1, <2>2 DEF QueueInv, QueueTypeOK
  <2> HIDE DEF q
  <2>4. QED
    BY <2>1, <2>2, <2>3, HarmlessStep
<1>3. ASSUME NEW t \in Threads, CallTake(t) PROVE QueueInv'
  <2>1. /\ pc[t] = "out" /\ pc' = Moved(pc, t, "take")
        /\ UNCHANGED <<capacity, queue_, item, given, taken>>
    BY <1>3 DEF CallTake, Moved
  <2>2. "take" \in PCs /\ item' \in [Threads -> Values \cup {NoValue}]
        /\ \A s \in Threads \ {t} : item'[s] = item[s]
    BY <2>1 DEF PCs, QueueInv, QueueTypeOK
  <2>3. QED
    BY <2>1, <2>2, HarmlessStep
<1>4. ASSUME NEW t \in Threads, NEW v \in Values, CallPut(t, v) PROVE QueueInv'
  <2>1. /\ pc[t] = "out" /\ pc' = Moved(pc, t, "put") /\ item' = [item EXCEPT ![t] = v]
        /\ UNCHANGED <<capacity, queue_, given, taken>>
    BY <1>4 DEF CallPut, Moved
  <2>2. "put" \in PCs /\ item' \in [Threads -> Values \cup {NoValue}] /\ item'[t] \in Values
        /\ \A s \in Threads \ {t} : item'[s] = item[s]
    BY <2>1 DEF PCs, QueueInv, QueueTypeOK
  <2>3. QED
    BY <2>1, <2>2, HarmlessStep
<1>5. CASE UNCHANGED queueVars
  BY <1>5 DEF queueVars, QueueInv, QueueTypeOK, NotifiesKept, FirstInFirstOut, At, bounded
<1>6. QED
  BY <1>1, <1>2, <1>3, <1>4, <1>5 DEF QueueNext

\* The queues by themselves, under any calls.
LEMMA QueueInvariant == QueueSpec => []QueueInv
  BY QueueInitInv, QueueInductive, PTL DEF QueueSpec

--------------------------------------------------------------------------------
(* The latch.                                                              *)

LatchPCs == {"wait", "asleep", "woken", "count", "notify", "passed"}

LatchInv ==
    /\ count_ \in Int /\ lowered \in [Counters -> Int] /\ missed \in BOOLEAN
    /\ lpc \in [Waiters \cup Counters -> LatchPCs]
    /\ OpeningAnnounced

\* The latch by itself, under any order of its threads.
LEMMA LatchInvariant == LatchSpec => []LatchInv
<1>1. LatchInit => LatchInv
  <2> SUFFICES ASSUME LatchInit PROVE LatchInv
    OBVIOUS
  <2>1. count_ \in Int /\ lowered \in [Counters -> Int] /\ missed \in BOOLEAN
    <3>1. count_ \in Nat /\ lowered = [t \in Counters |-> 1] /\ missed = FALSE
      BY DEF LatchInit
    <3>2. count_ \in Int /\ lowered \in [Counters -> Int]
      BY ONLY <3>1
    <3>3. missed \in BOOLEAN
      BY ONLY <3>1
    <3>4. QED
      BY <3>2, <3>3
  <2>2. lpc \in [Waiters \cup Counters -> LatchPCs] /\ \A w \in Waiters : lpc[w] = "wait"
    BY DEF LatchInit, LatchPCs
  <2>3. QED
    BY <2>1, <2>2 DEF LatchInv, OpeningAnnounced
<1>2. LatchInv /\ [LatchNext]_latchVars => LatchInv'
  <2> SUFFICES ASSUME LatchInv, [LatchNext]_latchVars PROVE LatchInv'
    OBVIOUS
  <2>1. ASSUME NEW w \in Waiters, Wait(w) PROVE LatchInv'
    <3>1. /\ count_' = count_ /\ lowered' = lowered /\ missed' = missed /\ count_ \in Int
          /\ lpc' \in [Waiters \cup Counters -> LatchPCs]
          /\ \A s \in (Waiters \cup Counters) \ {w} : lpc'[s] = lpc[s]
          /\ lpc'[w] = "asleep" => count_ > 0
      BY <2>1 DEF Wait, LatchInv, LatchPCs
    <3>2. ~(count_ > 0 /\ count_ <= 0)
      BY <3>1
    <3>3. OpeningAnnounced'
      BY <3>1, <3>2 DEF LatchInv, OpeningAnnounced
    <3>4. QED
      BY <3>1, <3>3 DEF LatchInv
  <2>2. ASSUME NEW w \in Waiters, WaitSpurious(w) PROVE LatchInv'
    <3>1. /\ count_' = count_ /\ lowered' = lowered /\ missed' = missed
          /\ lpc' \in [Waiters \cup Counters -> LatchPCs] /\ lpc'[w] = "woken"
          /\ \A s \in (Waiters \cup Counters) \ {w} : lpc'[s] = lpc[s]
      BY <2>2 DEF WaitSpurious, LatchInv, LatchPCs
    <3>2. OpeningAnnounced'
      BY <3>1 DEF LatchInv, OpeningAnnounced
    <3>3. QED
      BY <3>1, <3>2 DEF LatchInv
  <2>3. ASSUME NEW t \in Counters, Lower(t) PROVE LatchInv'
    <3>1. /\ count_' \in Int /\ lowered' \in [Counters -> Int] /\ missed' = missed
          /\ lpc' \in [Waiters \cup Counters -> LatchPCs] /\ missed \in BOOLEAN
      BY <2>3 DEF Lower, LatchInv, LatchPCs
    <3>2. /\ lpc[t] = "count" /\ lpc'[t] = "notify" /\ lowered'[t] = count_ - 1
          /\ \A s \in Counters \ {t} : lowered'[s] = lowered[s]
          /\ \A s \in (Waiters \cup Counters) \ {t} : lpc'[s] = lpc[s]
          /\ count_' = count_ - 1 /\ count_ \in Int
      BY <2>3 DEF Lower, LatchInv
    <3>3. OpeningAnnounced'
      <4> SUFFICES ASSUME count_' <= 0, NEW w \in Waiters, lpc'[w] = "asleep"
                   PROVE  missed' \/ \E s \in Counters : lpc'[s] = "notify" /\ lowered'[s] = 0
        BY DEF OpeningAnnounced
      <4>1. lpc[w] = "asleep"
        BY <3>2
      <4>2. CASE count_ = 1
        BY <3>2, <4>2
      <4>3. CASE count_ <= 0
        <5>1. missed \/ \E s \in Counters : lpc[s] = "notify" /\ lowered[s] = 0
          BY <4>1, <4>3 DEF LatchInv, OpeningAnnounced
        <5>2. QED
          BY <3>1, <3>2, <5>1
      <4>4. QED
        BY <3>2, <4>2, <4>3
    <3>4. QED
      BY <3>1, <3>3 DEF LatchInv
  <2>4. ASSUME NEW t \in Counters, NotifyAtZero(t) PROVE LatchInv'
    <3>1. /\ count_' = count_ /\ lowered' = lowered /\ missed' \in BOOLEAN
          /\ missed' = (missed \/ (lowered[t] = 0 /\ count_ # 0))
      BY <2>4 DEF NotifyAtZero, LatchInv
    <3>2. \A s \in Waiters \cup Counters :
            lpc'[s] = IF s = t THEN "passed"
                      ELSE IF count_ = 0 /\ s \in Roused THEN "woken" ELSE lpc[s]
      BY <2>4 DEF NotifyAtZero, LatchInv
    <3>3. lpc' \in [Waiters \cup Counters -> LatchPCs]
      BY <2>4 DEF NotifyAtZero, LatchInv, LatchPCs
    <3>4. OpeningAnnounced'
      <4> SUFFICES ASSUME count_ <= 0, NEW w \in Waiters, lpc'[w] = "asleep"
                   PROVE  missed' \/ \E s \in Counters : lpc'[s] = "notify" /\ lowered[s] = 0
        BY <3>1 DEF OpeningAnnounced
      <4>1. lpc[w] = "asleep" /\ count_ # 0
        BY <3>2 DEF Roused
      <4>2. missed \/ \E s \in Counters : lpc[s] = "notify" /\ lowered[s] = 0
        BY <4>1 DEF LatchInv, OpeningAnnounced
      <4>3. QED
        BY <3>1, <3>2, <4>1, <4>2
    <3>5. QED
      BY <3>1, <3>3, <3>4 DEF LatchInv
  <2>5. CASE UNCHANGED latchVars
    BY <2>5 DEF latchVars, LatchInv, OpeningAnnounced
  <2>6. QED
    BY <2>1, <2>2, <2>3, <2>4, <2>5 DEF LatchNext, CounterStep
<1>3. QED
  BY <1>1, <1>2, PTL DEF LatchSpec

--------------------------------------------------------------------------------
(* The program that uses both.                                             *)

\* What the test program does to its queue is what some threads may do to one.
THEOREM ProgramUsesQueue == Spec => QueueSpec
<1>1. Init => QueueInit
  BY DEF Init
<1>2. [Next]_vars => [QueueNext]_queueVars
  <2> SUFFICES ASSUME [Next]_vars PROVE [QueueNext]_queueVars
    OBVIOUS
  <2>1. ASSUME NEW w \in Workers, WorkerStep(w) PROVE [QueueNext]_queueVars
    BY <2>1 DEF WorkerStep, QueueMoves, LatchMoves, TakeNext, QueueNext
  <2>2. ASSUME NEW p \in Producers, ProducerStep(p) PROVE [QueueNext]_queueVars
    BY <2>2 DEF ProducerStep, QueueMoves, PutTask, Tasks, QueueNext
  <2>3. CASE PutQuit
    BY <2>3 DEF PutQuit, QueueNext
  <2>4. ASSUME NEW t \in Counters, CounterMoves(t) PROVE [QueueNext]_queueVars
    BY <2>4 DEF CounterMoves
  <2>5. ASSUME NEW t \in Threads, Spurious(t) PROVE [QueueNext]_queueVars
    BY <2>5 DEF Spurious, QueueNext
  <2>6. CASE UNCHANGED vars
    BY <2>6 DEF vars
  <2>7. QED
    BY <2>1, <2>2, <2>3, <2>4, <2>5, <2>6 DEF Next
<1>3. QED
  BY <1>1, <1>2, PTL DEF Spec, QueueSpec

\* And likewise its latch.
THEOREM ProgramUsesLatch == Spec => LatchSpec
<1>1. Init => LatchInit
  BY DEF Init
<1>2. [Next]_vars => [LatchNext]_latchVars
  <2> SUFFICES ASSUME [Next]_vars PROVE [LatchNext]_latchVars
    OBVIOUS
  <2>1. ASSUME NEW w \in Workers, WorkerStep(w) PROVE [LatchNext]_latchVars
    BY <2>1 DEF WorkerStep, QueueMoves, LatchMoves, TakeNext, LatchNext, Workers
  <2>2. ASSUME NEW p \in Producers, ProducerStep(p) PROVE [LatchNext]_latchVars
    BY <2>2 DEF ProducerStep, QueueMoves, PutTask
  <2>3. CASE PutQuit
    BY <2>3 DEF PutQuit
  <2>4. ASSUME NEW t \in Counters, CounterMoves(t) PROVE [LatchNext]_latchVars
    BY <2>4 DEF CounterMoves, LatchNext
  <2>5. ASSUME NEW t \in Threads, Spurious(t) PROVE [LatchNext]_latchVars
    BY <2>5 DEF Spurious, LatchNext, Workers
  <2>6. CASE UNCHANGED vars
    BY <2>6 DEF vars
  <2>7. QED
    BY <2>1, <2>2, <2>3, <2>4, <2>5, <2>6 DEF Next
<1>3. QED
  BY <1>1, <1>2, PTL DEF Spec, LatchSpec

\* No notify_one of put() and take() is lost, for any number of threads and any capacity
\* (BlockingQueue.h:29-60, BoundedBlockingQueue.h:40-76).
THEOREM NoNotifyLost == Spec => []NotifiesKept
<1>1. QueueInv => NotifiesKept
  BY DEF QueueInv
<1>2. QED
  BY <1>1, ProgramUsesQueue, QueueInvariant, PTL

\* What is taken is what was put, in order, for any number of threads and any capacity
\* (BoundedBlockingQueue.h:40-76, BlockingQueue.h:29-60).
THEOREM QueueIsFifo == Spec => []FirstInFirstOut
<1>1. QueueInv => FirstInFirstOut
  BY DEF QueueInv
<1>2. QED
  BY <1>1, ProgramUsesQueue, QueueInvariant, PTL

\* A sleeper at an open latch has a notify_all coming, unless a further countdown got in
\* first, for any number of waiters and countdowns (CountDownLatch.cc:9-24).
THEOREM LatchAnnounces == Spec => []OpeningAnnounced
<1>1. LatchInv => OpeningAnnounced
  BY DEF LatchInv
<1>2. QED
  BY <1>1, ProgramUsesLatch, LatchInvariant, PTL
================================================================================
