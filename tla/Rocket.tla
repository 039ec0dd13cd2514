------------------------------- MODULE Rocket -------------------------------
(***************************************************************************)
(* The threads of the Rocket web server (gluon/rocket.py) and the          *)
(* connections they pass on through two unbounded queues: the listener     *)
(* puts what it accepts on active_queue, a worker takes a connection from  *)
(* there, serves its requests and either closes it or, when the client is  *)
(* silent, hands it to the monitor through monitor_queue; the monitor      *)
(* waits on all of them, puts the readable ones back, closes stale ones    *)
(* and resizes the pool of workers.  A None in a queue is a death threat.  *)
(*                                                                         *)
(* Rocket.stop runs twice when web2py shuts down: in HttpServer's signal   *)
(* handler, and again when Rocket.start finds the monitor dead.            *)
(***************************************************************************)
EXTENDS Integers, Sequences, FiniteSets

CONSTANTS
    Conn,        \* connections that clients may open
    NoConn,      \* no connection
    Die,         \* the None of the queues
    Thread,      \* places for worker threads
    MinThreads,  \* option minthreads
    MaxThreads   \* option maxthreads; 0 means no limit

ASSUME ConnAssumption == NoConn \notin Conn /\ Die \notin Conn
ASSUME ThreadAssumption ==
    /\ IsFiniteSet(Thread)
    /\ MinThreads \in 1..Cardinality(Thread)
    /\ MaxThreads \in 0..Cardinality(Thread)

VARIABLES
    sock,       \* what became of a connection's socket
    active,     \* active_queue
    waiting,    \* monitor_queue
    watched,    \* Monitor.connections
    worker,     \* where each worker thread is
    work,       \* the connection that a worker serves
    doomed,     \* ThreadPool.check_for_dead_threads
    listener,   \* the listener: up, asked to end (not ready), down
    monitor,    \* where the monitor thread is
    readable,   \* what its select returned and it has still to put back
    restoring,  \* what it has put on active_queue and not yet removed
    change,     \* what dynamic_resize decided: threads to add, or -1
    watching,   \* Monitor.active
    stopper,    \* where the thread that runs Rocket.stop is
    stops,      \* calls of Rocket.stop that are over
    overlap     \* history: the dying threads counted when a worker was last threatened

connVars == <<sock, active, waiting, watched>>
poolVars == <<worker, work, doomed>>
monitorVars == <<monitor, readable, restoring, change, watching>>
stopVars == <<listener, stopper, stops>>
rocketVars == <<connVars, poolVars, monitorVars, stopVars, overlap>>

\* ThreadPool.__init__: grow_threshold.
GrowThreshold == MaxThreads \div 10 + 2

\* ThreadPool.threads: a thread stays in the set until it is found dead.
Threads == {t \in Thread : worker[t] # "none"}
Dying == {t \in Thread : worker[t] = "dying"}
Dead == {t \in Thread : worker[t] = "dead"}
Living == {t \in Thread : worker[t] \in {"idle", "serving"}}
Threats == {i \in DOMAIN active : active[i] = Die}

Close(c) == sock' = [sock EXCEPT ![c] = "closed"]

RocketInit ==
    /\ sock = [c \in Conn |-> "new"]
    /\ active = <<>> /\ waiting = <<>> /\ watched = {}
    /\ \E T \in SUBSET Thread :
          /\ Cardinality(T) = MinThreads
          /\ worker = [t \in Thread |-> IF t \in T THEN "idle" ELSE "none"]
    /\ work = [t \in Thread |-> NoConn]
    /\ doomed = 0
    /\ listener = "up"
    /\ monitor = "loop" /\ readable = {} /\ restoring = NoConn /\ change = 0 /\ watching = TRUE
    /\ stopper = "running" /\ stops = 0
    /\ overlap = 0

-----------------------------------------------------------------------------
(* Listener.listen. *)

Accept(c) ==
    /\ listener # "down"
    /\ sock[c] = "new"
    /\ sock' = [sock EXCEPT ![c] = "open"]
    /\ active' = Append(active, c)
    /\ UNCHANGED <<waiting, watched, poolVars, monitorVars, stopVars, overlap>>

\* accept timed out, and the listener is not ready any more.
ListenerExits ==
    /\ listener = "asked"
    /\ listener' = "down"
    /\ UNCHANGED <<connVars, poolVars, monitorVars, stopper, stops, overlap>>

-----------------------------------------------------------------------------
(* Worker.run. *)

\* Slip: a LifoQueue.
SlipTakeNewest(t) ==
    /\ worker[t] = "idle"
    /\ active # <<>>
    /\ active[Len(active)] # Die
    /\ active' = SubSeq(active, 1, Len(active) - 1)
    /\ worker' = [worker EXCEPT ![t] = "serving"]
    /\ work' = [work EXCEPT ![t] = active[Len(active)]]
    /\ UNCHANGED <<sock, waiting, watched, doomed, monitorVars, stopVars, overlap>>

TakeConnection(t) ==
    /\ worker[t] = "idle"
    /\ active # <<>>
    /\ Head(active) # Die
    /\ active' = Tail(active)
    /\ worker' = [worker EXCEPT ![t] = "serving"]
    /\ work' = [work EXCEPT ![t] = Head(active)]
    /\ UNCHANGED <<sock, waiting, watched, doomed, monitorVars, stopVars, overlap>>

TakeThreat(t) ==
    /\ worker[t] = "idle"
    /\ active # <<>>
    /\ Head(active) = Die
    /\ active' = Tail(active)
    /\ worker' = [worker EXCEPT ![t] = "dying"]
    /\ UNCHANGED <<sock, waiting, watched, work, doomed, monitorVars, stopVars, overlap>>

\* The worker goes for its next connection.
Rests(t) ==
    /\ worker' = [worker EXCEPT ![t] = "idle"]
    /\ work' = [work EXCEPT ![t] = NoConn]
    /\ UNCHANGED <<active, watched, doomed, monitorVars, stopVars, overlap>>

\* The last request of the connection, an error, a client gone, or HTTP on an HTTPS port:
\* conn.close().  Requests that keep the connection alive do not show.
ServeLast(t) ==
    /\ worker[t] = "serving"
    /\ Close(work[t])
    /\ Rests(t)
    /\ UNCHANGED waiting

\* Slip: the timeout is handled, and the connection goes nowhere.
SlipTimeoutDropped(t) ==
    /\ worker[t] = "serving"
    /\ sock[work[t]] = "open"
    /\ Rests(t)
    /\ UNCHANGED <<sock, waiting>>

\* _handleError: SocketTimeout, the client is silent between two requests.
ServeTimeout(t) ==
    /\ worker[t] = "serving"
    /\ sock[work[t]] = "open"
    /\ waiting' = Append(waiting, work[t])
    /\ Rests(t)
    /\ UNCHANGED sock

\* _handleError: BadRequest is "handled", and what is handled is not closed.
ServeBadRequest(t) ==
    /\ worker[t] = "serving"
    /\ sock[work[t]] = "open"
    /\ sock' = [sock EXCEPT ![work[t]] = "left"]
    /\ Rests(t)
    /\ UNCHANGED waiting

\* The thread that returned from run is not alive any more.
WorkerExits(t) ==
    /\ worker[t] = "dying"
    /\ worker' = [worker EXCEPT ![t] = "dead"]
    /\ UNCHANGED <<connVars, work, doomed, monitorVars, stopVars, overlap>>

-----------------------------------------------------------------------------
(* Monitor.run. *)

\* while self.active: while not self.monitor_queue.empty()
MonitorTest ==
    /\ monitor \in {"loop", "receive"}
    /\ monitor' = IF monitor = "loop" /\ ~watching THEN "dead"
                  ELSE IF waiting = <<>> THEN "select" ELSE "get"
    /\ UNCHANGED <<connVars, poolVars, readable, restoring, change, watching, stopVars, overlap>>

MonitorGet ==
    /\ monitor = "get"
    /\ waiting # <<>>
    /\ Head(waiting) # Die
    /\ waiting' = Tail(waiting)
    /\ watched' = watched \cup {Head(waiting)}
    /\ monitor' = "receive"
    /\ UNCHANGED <<sock, active, poolVars, readable, restoring, change, watching, stopVars, overlap>>

\* A death threat: the monitor calls its own stop, which closes what it watches and what
\* waits, and leaves a threat in the queue; then it finds itself inactive.
MonitorThreatened ==
    /\ monitor = "get"
    /\ waiting # <<>>
    /\ Head(waiting) = Die
    /\ sock' = [c \in Conn |->
                  IF c \in watched \/ \E i \in DOMAIN waiting : waiting[i] = c
                  THEN "closed" ELSE sock[c]]
    /\ waiting' = <<Die>>
    /\ watched' = {}
    /\ watching' = FALSE
    /\ monitor' = "dead"
    /\ UNCHANGED <<active, poolVars, readable, restoring, change, stopVars, overlap>>

MonitorSelect ==
    /\ monitor = "select"
    /\ IF watching
       THEN /\ readable' \in SUBSET watched
            /\ monitor' = IF readable' = {} THEN "stale" ELSE "restore"
       ELSE monitor' = "dead" /\ UNCHANGED readable
    /\ UNCHANGED <<connVars, poolVars, restoring, change, watching, stopVars, overlap>>

\* self.active_queue.put(r)
MonitorRestore ==
    /\ monitor = "restore"
    /\ \E r \in readable :
          /\ active' = Append(active, r)
          /\ readable' = readable \ {r}
          /\ restoring' = r
    /\ monitor' = "remove"
    /\ UNCHANGED <<sock, waiting, watched, poolVars, change, watching, stopVars, overlap>>

\* Slip: what was put back stays watched.
SlipMonitorRemove ==
    /\ monitor = "remove"
    /\ restoring' = NoConn
    /\ monitor' = IF readable = {} THEN "stale" ELSE "restore"
    /\ UNCHANGED <<connVars, poolVars, readable, change, watching, stopVars, overlap>>

\* self.connections.remove(r); a KeyError when Monitor.stop popped it meanwhile.
MonitorRemove ==
    /\ monitor = "remove"
    /\ restoring' = NoConn
    /\ watched' = watched \ {restoring}
    /\ IF restoring \in watched
       THEN monitor' = (IF readable = {} THEN "stale" ELSE "restore") /\ UNCHANGED readable
       ELSE monitor' = "dead" /\ readable' = {}
    /\ UNCHANGED <<sock, active, waiting, poolVars, change, watching, stopVars, overlap>>

\* Connections older than the timeout are closed; when Monitor.stop empties the set
\* meanwhile, its iteration fails and ends the thread.
MonitorStale ==
    /\ monitor = "stale"
    /\ \/ \E old \in SUBSET watched :
             /\ sock' = [c \in Conn |-> IF c \in old THEN "closed" ELSE sock[c]]
             /\ watched' = watched \ old
             /\ monitor' = "resize"
       \/ /\ ~watching
          /\ monitor' = "dead"
          /\ UNCHANGED <<sock, watched>>
    /\ UNCHANGED <<active, waiting, poolVars, readable, restoring, change, watching,
                   stopVars, overlap>>

\* Slip: the dead are removed and not counted off.
SlipBringOut ==
    /\ worker' = [t \in Thread |-> IF t \in Dead THEN "none" ELSE worker[t]]
    /\ UNCHANGED doomed

\* ThreadPool.bring_out_your_dead
BringOutYourDead ==
    /\ worker' = [t \in Thread |-> IF t \in Dead THEN "none" ELSE worker[t]]
    /\ doomed' = doomed - Cardinality(Dead)

\* dynamic_resize up to the sizes it reads: pool is what bring_out_your_dead left.
MonitorCount ==
    LET pool == IF doomed > 0 THEN Threads \ Dead ELSE Threads
    IN  /\ monitor = "resize"
        /\ IF MaxThreads > MinThreads \/ MaxThreads = 0
           THEN /\ IF doomed > 0 THEN BringOutYourDead ELSE UNCHANGED <<worker, doomed>>
                /\ change' = IF active = <<>> /\ Cardinality(pool) > MinThreads THEN -1
                             ELSE IF Len(active) > GrowThreshold THEN Len(active) ELSE 0
           ELSE change' = 0 /\ UNCHANGED <<worker, doomed>>
        /\ monitor' = "change"
        /\ UNCHANGED <<connVars, work, readable, restoring, watching, stopVars, overlap>>

\* grow: amount = min([amount, self.max_threads - len(self.threads)])
Growth(n) ==
    LET room == MaxThreads - Cardinality(Threads)
    IN  IF room < 0 THEN 0 ELSE IF n < room THEN n ELSE room

MonitorResize ==
    /\ monitor = "change"
    /\ \/ /\ change = -1                        \* shrink()
          /\ doomed' = doomed + 1
          /\ active' = Append(active, Die)
          /\ overlap' = Cardinality(Dying \cup Dead)
          /\ UNCHANGED worker
       \/ /\ change >= 0                        \* grow(queueSize)
          /\ \E new \in SUBSET (Thread \ Threads) :
                /\ Cardinality(new) = Growth(change)
                /\ worker' = [t \in Thread |-> IF t \in new THEN "idle" ELSE worker[t]]
          /\ UNCHANGED <<active, doomed, overlap>>
    /\ change' = 0
    /\ monitor' = "loop"
    /\ UNCHANGED <<sock, waiting, watched, work, readable, restoring, watching, stopVars>>

-----------------------------------------------------------------------------
(* Rocket.stop. *)

\* The signal, or the second call by Rocket.start, whose monitor is dead.
StopListeners ==
    /\ stopper = "running"
    /\ stopper' = "listeners"
    /\ listener' = IF listener = "up" THEN "asked" ELSE listener
    /\ UNCHANGED <<connVars, poolVars, monitorVars, stops, overlap>>

\* The listeners are joined; Monitor.stop begins.
StopMonitor ==
    /\ stopper = "listeners"
    /\ listener = "down"
    /\ watching' = FALSE
    /\ stopper' = "drop"
    /\ UNCHANGED <<connVars, poolVars, monitor, readable, restoring, change, listener, stops, overlap>>

\* while self.connections: c = self.connections.pop(); c.close()
StopDrops ==
    /\ stopper = "drop"
    /\ \/ \E c \in watched :
             /\ watched' = watched \ {c}
             /\ Close(c)
             /\ UNCHANGED stopper
       \/ /\ watched = {}
          /\ stopper' = "flush"
          /\ UNCHANGED <<watched, sock>>
    /\ UNCHANGED <<active, waiting, poolVars, monitorVars, listener, stops, overlap>>

\* while not self.monitor_queue.empty(); at the end a None is placed.
StopTest ==
    /\ stopper = "flush"
    /\ IF waiting = <<>>
       THEN waiting' = <<Die>> /\ stopper' = "join"
       ELSE stopper' = "get" /\ UNCHANGED waiting
    /\ UNCHANGED <<sock, active, watched, poolVars, monitorVars, listener, stops, overlap>>

\* c = self.monitor_queue.get(), which waits when the monitor was faster.
StopGet ==
    /\ stopper = "get"
    /\ waiting # <<>>
    /\ waiting' = Tail(waiting)
    /\ IF Head(waiting) = Die THEN UNCHANGED sock ELSE Close(Head(waiting))
    /\ stopper' = "flush"
    /\ UNCHANGED <<active, watched, poolVars, monitorVars, listener, stops, overlap>>

\* Slip: as many threats as threads are wanted.
SlipStopWorkers ==
    /\ stopper = "join"
    /\ monitor = "dead"
    /\ doomed' = doomed + MinThreads
    /\ active' = active \o [i \in 1..MinThreads |-> Die]
    /\ stopper' = "workers"
    /\ UNCHANGED <<sock, waiting, watched, worker, work, monitorVars, listener, stops, overlap>>

\* The monitor is joined; ThreadPool.stop threatens every thread of the pool.
StopWorkers ==
    LET n == Cardinality(Threads)
    IN  /\ stopper = "join"
        /\ monitor = "dead"
        /\ doomed' = doomed + n
        /\ active' = active \o [i \in 1..n |-> Die]
        /\ stopper' = "workers"
        /\ UNCHANGED <<sock, waiting, watched, worker, work, monitorVars, listener, stops, overlap>>

\* Slip: Rocket.start returns without a second stop.
SlipStopReturns ==
    /\ stopper = "workers"
    /\ Threads = Dead
    /\ BringOutYourDead
    /\ stops' = stops + 1
    /\ stopper' = "ended"
    /\ UNCHANGED <<connVars, work, monitorVars, listener, overlap>>

\* The threads are joined and removed.
StopReturns ==
    /\ stopper = "workers"
    /\ Threads = Dead
    /\ BringOutYourDead
    /\ stops' = stops + 1
    /\ stopper' = IF stops = 0 THEN "running" ELSE "ended"
    /\ UNCHANGED <<connVars, work, monitorVars, listener, overlap>>

-----------------------------------------------------------------------------
WorkerNext(t) ==
    TakeConnection(t) \/ TakeThreat(t) \/ ServeLast(t) \/ ServeTimeout(t)
        \/ ServeBadRequest(t) \/ WorkerExits(t)
MonitorNext ==
    MonitorTest \/ MonitorGet \/ MonitorThreatened \/ MonitorSelect
        \/ MonitorRestore \/ MonitorRemove \/ MonitorStale \/ MonitorCount \/ MonitorResize
StopNext == StopMonitor \/ StopDrops \/ StopTest \/ StopGet \/ StopWorkers \/ StopReturns

RocketNext ==
    \/ \E c \in Conn : Accept(c)
    \/ ListenerExits
    \/ \E t \in Thread : WorkerNext(t)
    \/ MonitorNext
    \/ StopListeners
    \/ StopNext

RocketSpec == RocketInit /\ [][RocketNext]_rocketVars

\* The threads run, a worker's socket times out and the application ends, and Rocket.start
\* calls stop when the monitor is dead; clients need not connect, no signal need come, and no
\* connection need become readable or stale.
RocketFairSpec ==
    /\ RocketSpec
    /\ WF_rocketVars(ListenerExits)
    /\ \A t \in Thread : WF_rocketVars(WorkerNext(t))
    /\ WF_rocketVars(MonitorNext)
    /\ WF_rocketVars(StopNext)
    /\ WF_rocketVars(stops = 1 /\ StopListeners)

-----------------------------------------------------------------------------
(* Properties. *)

\* A connection is in one place: it is queued once at most, for a worker or for the monitor,
\* or served by one worker, or watched; only between put and remove in Monitor.run is it
\* still watched while it is somewhere else.
Queued(c, queue) == {i \in DOMAIN queue : queue[i] = c}
Server(c) == {t \in Thread : work[t] = c}
OneOwner ==
    \A c \in Conn :
        /\ \A i, j \in Queued(c, active) : i = j
        /\ \A i, j \in Queued(c, waiting) : i = j
        /\ \A t, u \in Server(c) : t = u
        /\ Queued(c, active) = {} \/ Queued(c, waiting) = {}
        /\ Server(c) = {} \/ Queued(c, active) \cup Queued(c, waiting) = {}
        /\ c \in watched \ {restoring} =>
               Server(c) \cup Queued(c, active) \cup Queued(c, waiting) = {}

\* No connection that the server accepted and did not close is forgotten.
NothingLost ==
    \A c \in Conn :
        sock[c] = "open" =>
            Server(c) # {} \/ Queued(c, active) # {} \/ Queued(c, waiting) # {} \/ c \in watched

\* The pool stays within its limits: never more threads than maxthreads (or the initial ones),
\* check_for_dead_threads counts the threats and the threads not yet removed, and the workers
\* that will remain are at least minthreads, but for those that were dying when they were
\* counted (dynamic_resize, bring_out_your_dead, shrink, grow).
PoolSize ==
    /\ Cardinality(Threads) <= MinThreads \/ Cardinality(Threads) <= MaxThreads
    /\ doomed = Cardinality(Threats) + Cardinality(Dying \cup Dead)
    /\ stopper # "workers" /\ stops = 0 =>
          Cardinality(Living) - Cardinality(Threats) + overlap >= MinThreads

\* A connection queued for the workers is taken by one, unless all workers are gone
\* (Worker.run, ThreadPool.shrink).  One connection stands for all: Accept tells none apart.
Served ==
    LET c == CHOOSE c \in Conn : TRUE
    IN  Queued(c, active) # {} ~> Queued(c, active) = {} \/ Living = {}

\* Rocket.stop comes to its end, unless its flush of monitor_queue saw a connection that the
\* monitor was about to take, and then waits for another one (Monitor.stop).
StopEnds ==
    stopper = "listeners" ~>
        stopper = "ended" \/ (stopper = "get" /\ waiting = <<>> /\ monitor = "dead")

\* At its end every accepted connection is closed: those queued for the workers were served
\* before the workers took their threats, and those that timed out meanwhile were flushed by
\* the second Monitor.stop; but not those that a bad request left, or an empty pool in the queue.
AllClosed ==
    stopper = "ended" =>
        \A c \in Conn : sock[c] = "open" => Queued(c, active) # {}

=============================================================================
