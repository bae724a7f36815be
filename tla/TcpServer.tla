------------------------------- MODULE TcpServer -------------------------------
(***************************************************************************)
(* ham/net/TcpServer.{h,cc} and Acceptor.{h,cc} over the io threads of     *)
(* EventLoopThreadPool: many connections, the descriptors of the process   *)
(* and the lifetime of the connection objects.                             *)
(*                                                                         *)
(* Every loop is the serial executor that EventLoop implements: a queue of *)
(* functors, run in order until the loop is left.  A connection is what    *)
(* TcpConnection does at the server's interface: "up" is kConnected,       *)
(* "shut" kDisconnecting or kDisconnected with the channel still reading,  *)
(* "closed" after handleClose with the channel still registered.  It is    *)
(* alive as long as connections_, a functor or a thread in one of its      *)
(* calls holds its shared_ptr, and its descriptor is open as long as it is *)
(* alive (~Socket).  The k-th client is connection k, accepted or not.     *)
(***************************************************************************)
EXTENDS EventLoopThreadPool, FiniteSets

CONSTANTS MaxClients,  \* bound: clients that come
          MaxFds,      \* the descriptors left for connections and idleFd_
          MaxOthers,   \* bound: descriptors other code of the process takes
          Ended        \* the connections that user code shuts down or forces closed

ASSUME BoundsAssumption == MaxClients \in Nat /\ MaxFds \in Nat \ {0} /\ MaxOthers \in Nat
ASSUME EndedAssumption == Ended \subseteq 1..MaxClients

VARIABLES starts,               \* calls of start()
          \* Acceptor
          listening_, idleFd_, backlog,
          \* connections
          connections_, conn, come,
          \* the loops' functors, and the connections held by functors already run
          queue, held,
          \* the connections some thread is forcing closed, between forceClose's test and
          \* its store; history: those with such a call, and those on which the store came
          \* after a close
          forcing, forced, overwritten,
          \* other code of the process; history: it took a descriptor while the handler had
          \* given up its reserve
          others, taken

acceptorVars == <<listening_, idleFd_>>
connVars == <<connections_, conn>>
loopVars == <<queue, held>>
clientVars == <<backlog, come>>
otherVars == <<others, taken>>
forceVars == <<forcing, forced, overwritten>>
vars == <<threadVars, poolVars, base, aborted, starts, acceptorVars, connVars, clientVars,
          loopVars, otherVars, forceVars>>

Clients == 1..MaxClients
Fds == 1..MaxFds
NoFd == -1
Loops == 0..MaxThreads
Functor(op, c) == [op |-> op, conn |-> c]

\* The constructors; setNumOfThreads has been called.
Init ==
    /\ PoolInit
    /\ starts = 0
    /\ listening_ = FALSE /\ idleFd_ = 1 /\ backlog = << >>
    /\ connections_ = {} /\ come = 0
    /\ conn = [c \in Clients |-> [at |-> "none", fd |-> NoFd, loop |-> 0]]
    /\ queue = [l \in Loops |-> << >>] /\ held = [l \in Loops |-> {}]
    /\ others = {} /\ taken = FALSE
    /\ forcing = {} /\ forced = {} /\ overwritten = {}

--------------------------------------------------------------------------------
(* Lifetimes and descriptors.                                              *)

Holds(q) == {q[i].conn : i \in 1..Len(q)}
Alive == connections_ \cup forcing \cup UNION {Holds(queue[l]) \cup held[l] : l \in Loops}
UsedFds == {conn[c].fd : c \in Alive} \cup {idleFd_} \cup others
FreeFds == Fds \ UsedFds

\* The kernel hands out a free descriptor; nothing depends on which.
NewFd == IF FreeFds = {} THEN NoFd ELSE CHOOSE f \in FreeFds : TRUE

Registered == {c \in Clients : conn[c].at \in {"up", "shut", "closed"}}

--------------------------------------------------------------------------------
(* The connection's operations at the server's interface.                  *)

At(c, at) == [conn EXCEPT ![c].at = at]

\* destoryConnection disables the channel in kConnected only, and ends in
\* Epoller::removeChannel, which asserts that the channel has no events and is registered.
destoryConnection(c) ==
    IF conn[c].at \in {"up", "closed"} THEN conn' = At(c, "destroyed") /\ UNCHANGED aborted
    ELSE /\ aborted' = IF c \in Registered THEN "isNoneEvent" ELSE "channelMap"
         /\ UNCHANGED conn

\* queueInLoop on a loop that may be null or gone.
QueueInLoop(l, f) ==
    IF LoopAlive(l) THEN queue' = [queue EXCEPT ![l] = Append(@, f)] /\ UNCHANGED aborted
                    ELSE aborted' = "danglingLoop" /\ UNCHANGED queue

--------------------------------------------------------------------------------
(* start().                                                                *)

\* A second call fails on the thread pool's assert(!started_).
Start ==
    /\ Running /\ base = "free" /\ starts < 2
    /\ starts' = starts + 1
    /\ IF starts = 0
       THEN base' = (IF numOfThreads_ = 0 THEN "listen" ELSE "spawn") /\ UNCHANGED aborted
       ELSE aborted' = "started" /\ UNCHANGED base
    /\ UNCHANGED <<threadVars, poolVars, acceptorVars, connVars, clientVars, loopVars, otherVars,
                   forceVars>>

Listen ==
    /\ BaseMoves("listen", "free")
    /\ listening_' = TRUE
    /\ UNCHANGED <<threadVars, poolVars, aborted, starts, idleFd_, connVars, clientVars,
                   loopVars, otherVars, forceVars>>

--------------------------------------------------------------------------------
(* Acceptor::handleRead, on the base loop.                                 *)

AcceptEvent == Running /\ base = "free" /\ held[0] = {} /\ listening_ /\ backlog # << >>

\* newConnectionCallback; establishConnection runs at once on the base loop.
newConnectionCallback(c) ==
    /\ nextLoopIdx_' = NextIdx
    /\ connections_' = connections_ \cup {c}
    /\ conn' = [conn EXCEPT ![c] = [at |-> IF getNextLoop = 0 THEN "up" ELSE "connecting",
                                    fd |-> NewFd, loop |-> getNextLoop]]
    /\ IF getNextLoop = 0 THEN UNCHANGED <<queue, aborted>>
       ELSE QueueInLoop(getNextLoop, Functor("establishConnection", c))

Accept ==
    /\ AcceptEvent /\ FreeFds # {}
    /\ backlog' = Tail(backlog)
    /\ newConnectionCallback(Head(backlog))
    /\ UNCHANGED <<threadVars, numOfThreads_, loops_, joined, base, starts,
                   acceptorVars, come, held, otherVars, forceVars>>

\* Seeded fault: accept is tried again with the reserve still open.
CloseIdle_Keeps ==
    /\ AcceptEvent /\ FreeFds = {}
    /\ base' = "acceptIdle"
    /\ UNCHANGED <<threadVars, poolVars, aborted, starts, acceptorVars, connVars, clientVars,
                   loopVars, otherVars, forceVars>>

\* EMFILE: give up the reserve.  When logging has overwritten errno the handler returns
\* instead, and is called again: the listening socket stays readable.
CloseIdle ==
    /\ AcceptEvent /\ FreeFds = {}
    /\ idleFd_' = NoFd
    /\ base' = "acceptIdle"
    /\ UNCHANGED <<threadVars, poolVars, aborted, starts, listening_, connVars, clientVars,
                   loopVars, otherVars, forceVars>>

\* Take the client, unless it has gone or the descriptor has.
AcceptIdle ==
    /\ BaseMoves("acceptIdle", "closeIdle")
    /\ IF backlog = << >> \/ NewFd = NoFd
       THEN idleFd_' = NoFd /\ UNCHANGED backlog
       ELSE idleFd_' = NewFd /\ backlog' = Tail(backlog)
    /\ UNCHANGED <<threadVars, poolVars, aborted, starts, listening_, connVars, come,
                   loopVars, otherVars, forceVars>>

CloseAccepted ==
    /\ BaseMoves("closeIdle", "reopenIdle")
    /\ idleFd_' = NoFd
    /\ UNCHANGED <<threadVars, poolVars, aborted, starts, listening_, connVars, clientVars,
                   loopVars, otherVars, forceVars>>

ReopenIdle ==
    /\ BaseMoves("reopenIdle", "free")
    /\ idleFd_' = NewFd
    /\ UNCHANGED <<threadVars, poolVars, aborted, starts, listening_, connVars, clientVars,
                   loopVars, otherVars, forceVars>>

--------------------------------------------------------------------------------
(* Connections on their loops.                                             *)

LoopRuns(l) == Running /\ IF l = 0 THEN base = "free" ELSE thread[l] = "loop"

\* Seeded fault: the connection is erased, and destoryConnection is not queued.
removeConnectionInLoop_Erase(c, q) ==
    /\ connections_' = connections_ \ {c}
    /\ queue' = q /\ UNCHANGED aborted

removeConnectionInLoop(c, q) ==
    /\ connections_' = connections_ \ {c}
    /\ IF LoopAlive(conn[c].loop)
       THEN /\ queue' = [q EXCEPT ![conn[c].loop] = Append(@, Functor("destoryConnection", c))]
            /\ UNCHANGED aborted
       ELSE aborted' = "danglingLoop" /\ queue' = q

\* handleClose; closeCallback_ is removeConnection.  disableAll registers the channel
\* again if it was removed.
handleClose(c, q) ==
    /\ conn' = At(c, "closed")
    /\ IF conn[c].loop = 0 THEN removeConnectionInLoop(c, q)
       ELSE /\ queue' = [q EXCEPT ![0] = Append(@, Functor("removeConnectionInLoop", c))]
            /\ UNCHANGED <<connections_, aborted>>

\* The end of the stream, read on the connection's loop.
HandleClose(c) ==
    /\ conn[c].at \in {"up", "shut"}
    /\ LoopRuns(conn[c].loop) /\ held[conn[c].loop] = {}
    /\ handleClose(c, queue)
    /\ UNCHANGED <<threadVars, poolVars, base, starts, acceptorVars, clientVars, held, otherVars,
                   forceVars>>

\* forceCloseInLoop closes a connection that is kConnected or kDisconnecting; a shutdown()
\* may have made it kDisconnected since forceClose() queued this.
forceCloseInLoop(c, q) ==
    \/ (conn[c].at = "shut" \/ c \in overwritten) /\ handleClose(c, q)
    \/ queue' = q /\ UNCHANGED <<connVars, aborted>>

\* The loop runs its next functor, which keeps its connection until the batch ends; no
\* handler runs before that.
RunFunctor(l) ==
    /\ LoopRuns(l) /\ queue[l] # << >>
    /\ LET f == Head(queue[l])
           q == [queue EXCEPT ![l] = Tail(@)]
       IN /\ held' = [held EXCEPT ![l] = @ \cup {f.conn}]
          /\ \/ /\ f.op = "establishConnection"
                /\ conn' = At(f.conn, "up") /\ queue' = q /\ UNCHANGED <<connections_, aborted>>
             \/ /\ f.op = "removeConnectionInLoop"
                /\ removeConnectionInLoop(f.conn, q) /\ UNCHANGED conn
             \/ /\ f.op = "destoryConnection"
                /\ destoryConnection(f.conn) /\ queue' = q /\ UNCHANGED connections_
             \/ /\ f.op = "forceCloseInLoop"
                /\ forceCloseInLoop(f.conn, q)
    /\ UNCHANGED <<threadVars, poolVars, base, starts, acceptorVars, clientVars, otherVars,
                   forceVars>>

EndBatch(l) ==
    /\ LoopRuns(l) /\ held[l] # {}
    /\ held' = [held EXCEPT ![l] = {}]
    /\ UNCHANGED <<threadVars, poolVars, base, aborted, starts, acceptorVars, connVars,
                   clientVars, queue, otherVars, forceVars>>

\* shutdown() on any thread.  A shutdown() whose store comes after a close matters to a
\* later forceClose() only, as the late store of forceClose() itself does.
UserShutdown(c) ==
    /\ Running /\ c \in Ended /\ conn[c].at = "up"
    /\ conn' = At(c, "shut")
    /\ UNCHANGED <<threadVars, poolVars, base, aborted, starts, acceptorVars, connections_,
                   clientVars, loopVars, otherVars, forceVars>>

\* forceClose(), on any thread, tests state_ and then stores kDisconnecting and queues
\* forceCloseInLoop.  Bound: one call for a connection.
ForceClose(c) ==
    /\ Running /\ c \in Ended \ forced /\ conn[c].at \in {"up", "shut"}
    /\ forcing' = forcing \cup {c} /\ forced' = forced \cup {c}
    /\ UNCHANGED <<threadVars, poolVars, base, aborted, starts, acceptorVars, connVars, clientVars,
                   loopVars, otherVars, overwritten>>

StoreDisconnecting(c) ==
    /\ Running /\ c \in forcing
    /\ conn' = IF conn[c].at = "up" THEN At(c, "shut") ELSE conn
    /\ overwritten' = IF conn[c].at \in {"closed", "destroyed"} THEN overwritten \cup {c}
                                                             ELSE overwritten
    /\ QueueInLoop(conn[c].loop, Functor("forceCloseInLoop", c))
    /\ forcing' = IF LoopAlive(conn[c].loop) THEN forcing \ {c} ELSE forcing
    /\ UNCHANGED <<threadVars, poolVars, base, starts, acceptorVars, connections_, clientVars, held,
                   otherVars, forced>>

--------------------------------------------------------------------------------
(* ~TcpServer: the base loop has been left, and its thread destroys the    *)
(* server: the connections, then the thread pool, then the acceptor.       *)

BaseStops ==
    /\ BaseMoves("free", "stopped") /\ held[0] = {}
    /\ UNCHANGED <<threadVars, poolVars, aborted, starts, acceptorVars, connVars, clientVars,
                   loopVars, otherVars, forceVars>>

Destruct ==
    /\ BaseMoves("stopped", "destory")
    /\ UNCHANGED <<threadVars, poolVars, aborted, starts, acceptorVars, connVars, clientVars,
                   loopVars, otherVars, forceVars>>

\* One connection after the other, in the order of their names as strings, which may be any.
\* destoryConnection begins with assertInLoopThread.  The map goes when all have been called.
DestoryNext ==
    /\ Running /\ base = "destory"
    /\ LET left == {c \in connections_ : conn[c].at # "destroyed"} IN
       IF left = {}
       THEN base' = "pool" /\ connections_' = {} /\ UNCHANGED <<conn, aborted>>
       ELSE /\ \E c \in left :
                 IF conn[c].loop = 0 THEN destoryConnection(c)
                 ELSE aborted' = "notInLoopThread" /\ UNCHANGED conn
            /\ UNCHANGED <<base, connections_>>
    /\ UNCHANGED <<threadVars, poolVars, starts, acceptorVars, clientVars, loopVars, otherVars,
                   forceVars>>

\* ~Acceptor: the clients still waiting are reset with the listening socket.
DestroyAcceptor ==
    /\ joined = Len(loops_)
    /\ BaseMoves("pool", "gone")
    /\ listening_' = FALSE /\ idleFd_' = NoFd /\ backlog' = << >>
    /\ UNCHANGED <<threadVars, poolVars, aborted, starts, connVars, come, loopVars, otherVars,
                   forceVars>>

--------------------------------------------------------------------------------
(* Threads, clients and the rest of the process.                           *)

OnlyThreads ==
    UNCHANGED <<starts, acceptorVars, connVars, clientVars, loopVars, otherVars, forceVars>>

\* With its loop go the functors that have not run.
EndOfThread(i) ==
    /\ EndThread(i)
    /\ queue' = [queue EXCEPT ![i] = << >>] /\ held' = [held EXCEPT ![i] = {}]
    /\ UNCHANGED <<starts, acceptorVars, connVars, clientVars, otherVars, forceVars>>

ClientComes ==
    /\ Running /\ listening_ /\ come < MaxClients
    /\ come' = come + 1
    /\ backlog' = Append(backlog, come')
    /\ UNCHANGED <<threadVars, poolVars, base, aborted, starts, acceptorVars, connVars,
                   loopVars, otherVars, forceVars>>

ClientGivesUp ==
    /\ Running
    /\ \E i \in 1..Len(backlog) :
         backlog' = SubSeq(backlog, 1, i - 1) \o SubSeq(backlog, i + 1, Len(backlog))
    /\ UNCHANGED <<threadVars, poolVars, base, aborted, starts, acceptorVars, connVars, come,
                   loopVars, otherVars, forceVars>>

OtherOpens ==
    /\ Running /\ Cardinality(others) < MaxOthers /\ FreeFds # {}
    /\ others' = others \cup {NewFd}
    /\ taken' = (taken \/ idleFd_ = NoFd)
    /\ UNCHANGED <<threadVars, poolVars, base, aborted, starts, acceptorVars, connVars,
                   clientVars, loopVars, forceVars>>

OtherCloses ==
    /\ Running
    /\ \E f \in others : others' = others \ {f}
    /\ UNCHANGED <<taken, threadVars, poolVars, base, aborted, starts, acceptorVars, connVars,
                   clientVars, loopVars, forceVars>>

--------------------------------------------------------------------------------
HandleRead == Accept \/ CloseIdle
IdleStep == AcceptIdle \/ CloseAccepted \/ ReopenIdle
StartCall == (StartStep /\ OnlyThreads) \/ Listen
StopCall == DestoryNext \/ (StopStep /\ OnlyThreads) \/ DestroyAcceptor
LoopStep(l) == RunFunctor(l) \/ EndBatch(l)
IoThreadStep(i) == (ThreadStep(i) /\ OnlyThreads) \/ EndOfThread(i) \/ LoopStep(i)
UserEnds(c) == UserShutdown(c) \/ ForceClose(c) \/ StoreDisconnecting(c)

Next ==
    \/ Start \/ StartCall \/ (SpuriousWakeup /\ OnlyThreads)
    \/ HandleRead \/ IdleStep \/ LoopStep(0)
    \/ BaseStops \/ Destruct \/ StopCall
    \/ \E i \in IoThreads : IoThreadStep(i) \/ (UserQuits(i) /\ OnlyThreads)
    \/ \E c \in Clients : HandleClose(c) \/ UserEnds(c)
    \/ ClientComes \/ ClientGivesUp \/ OtherOpens \/ OtherCloses

\* The base thread finishes the calls it is in, and its loop both handles the listening
\* socket, readable while a client waits, and runs functors; the io threads keep running.
\* Nothing makes clients, users and other code act.
Fairness ==
    /\ WF_vars(StartCall \/ StopCall \/ IdleStep)
    /\ WF_vars(HandleRead) /\ WF_vars(LoopStep(0))
    /\ \A i \in IoThreads : WF_vars(IoThreadStep(i))

Spec == Init /\ [][Next]_vars /\ Fairness

--------------------------------------------------------------------------------
(* Properties.                                                             *)

\* No descriptor is closed, and so free to be handed out again, while a loop that still
\* exists has its channel in the epoller, a connection that is closed twice included; and
\* connections_ has exactly the connections whose removal has not reached the base loop,
\* but for those closed twice, whose second removal comes later.  The shared_ptr has to
\* travel with the functors from loop to loop for that (TcpServer.cc:80, 90).
ConnectionsAccounted ==
    Running =>
        /\ \A c \in Registered : LoopAlive(conn[c].loop) => c \in Alive
        /\ \A c, d \in Alive : c # d => conn[c].fd # conn[d].fd
        /\ base # "destory" =>
             \A c \in Clients \ overwritten :
               c \in connections_ <=>
                 \/ conn[c].at \in {"connecting", "up", "shut"}
                 \/ /\ conn[c].at = "closed"
                    /\ \E i \in 1..Len(queue[0]) :
                         queue[0][i] = Functor("removeConnectionInLoop", c)

\* The process ends by itself only in these ways: start() was called twice; user code quit
\* an io loop that the server still uses, waits for or joins (EventLoopThread.cc:30-35, 18);
\* the server is destroyed with a connection on an io loop (TcpServer.cc:33); or, while the
\* server is destroyed, quit() wakes a loop that has seen quit_ and is no more
\* (EventLoop.cc:121-128), which is the loop about to be joined and no other; another
\* thread's forceClose() outlives the io loop it queues to (TcpConnection.cc:67).
\* removeChannel's assertions (Epoller.cc:98, 99) fail in two cases: ~TcpServer meets a
\* connection of its own loop that was shut down and still reads, which destoryConnection
\* does not disable (TcpConnection.cc:52), or a forceClose() stored its kDisconnecting after
\* a close (TcpConnection.cc:66), and the connection is closed and removed twice.
NoSurprise ==
    /\ aborted = "started" => starts = 2
    /\ aborted \in {"terminate", "nullLoop"} => userQuit # {}
    /\ aborted = "danglingLoop" =>
         userQuit # {} \/ (forcing # {} /\ base \in {"pool", "quit", "wakeup", "join", "gone"})
    /\ aborted = "notInLoopThread" => base = "destory" /\ numOfThreads_ > 0
    /\ aborted = "quitLate" =>
         base = "wakeup" /\ quit_[Joining] /\ thread[Joining] \in {"cleared", "done"}
    /\ aborted = "isNoneEvent" =>
         base = "destory" /\ \E c \in connections_ : conn[c].loop = 0 /\ conn[c].at = "shut"
    /\ aborted = "channelMap" => overwritten # {}

\* When ~TcpServer returns, every io thread has ended, no connection is up or shut down but
\* reading, and no descriptor is left open but those of connections whose last functor was
\* still queued to the base loop or that another thread's forceClose() holds.
NothingLeft ==
    base = "gone" /\ Running =>
        /\ \A i \in IoThreads : thread[i] \in {"none", "done"}
        /\ \A c \in Clients : conn[c].at \notin {"up", "shut"}
        /\ UsedFds \subseteq
             others \cup {NoFd} \cup {conn[c].fd : c \in Holds(queue[0]) \cup forcing}

\* A waiting client is accepted or turned away even when no descriptor is left, by way
\* of idleFd_ (Acceptor.cc:62-68), unless other code took the reserve between two steps
\* of the handler, or the server stops.  (The handler logs before it reads errno,
\* Acceptor.cc:61; that logging does not overwrite EMFILE on every call is assumed.)
ClientsServed ==
    \A c \in Clients :
        (\E i \in 1..Len(backlog) : backlog[i] = c)
          ~> \/ \A i \in 1..Len(backlog) : backlog[i] # c
             \/ taken \/ base = "stopped" \/ ~Running

\* start(), the handler and ~TcpServer return: startLoop() does not sleep through its
\* notify and join() gets its thread, unless user code quit an io loop or the process ends
\* on the way in one of the ways NoSurprise lists.
CallsReturn ==
    base \notin {"free", "stopped", "gone"}
        ~> (base \in {"free", "gone"} \/ ~Running \/ userQuit # {})
================================================================================
