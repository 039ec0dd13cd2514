--------------------------- MODULE SchedulerProof ---------------------------
(***************************************************************************)
(* Theorems of SchedulerHistory, for any number of workers and tasks, any  *)
(* dependencies between these, any repeats and retries, and any delays,    *)
(* crashes, restarts and orders; the last of them is that SchedulerHistory *)
(* implements TaskLife.                                                    *)
(***************************************************************************)
EXTENDS SchedulerHistory, TLAPS, FiniteSetTheorems

-----------------------------------------------------------------------------
(* The inductive invariant. *)

Working == {"popped", "marked", "running"}

\* The types that the rest needs.
Shape ==
    /\ status \in [Task -> TaskStatus]
    /\ owner \in [Task -> Worker \cup {Nobody}]
    /\ visited \subseteq Deps
    /\ is_ticker \in [Worker -> BOOLEAN]
    /\ main \in [Worker -> {"off", "loop", "select", "assign"} \cup Working]
    /\ job = [w \in Worker |-> job[w]]
    /\ \A w \in Worker : main[w] \in Working => job[w].task \in Task
    /\ known \in [Worker -> SUBSET Worker]
    /\ todo \in [Worker -> SUBSET Task]

\* A dependency is visited when its child is done, and stays done.
VisitedDone == \A d \in visited : status[d[2]] = "COMPLETED" \/ d[2] \in raced

\* Whatever is on its way to be run has no dependency left.
WorkReady ==
    /\ \A t \in Task : status[t] \in {"ASSIGNED", "RUNNING"} => Ready(t)
    /\ \A w \in Worker : \A t \in todo[w] : Ready(t)
    /\ \A w \in Worker : main[w] \in Working => Ready(job[w].task)

SchedulerInv == Shape /\ HeldIsRunning /\ VisitedDone /\ WorkReady

-----------------------------------------------------------------------------

LEMMA InitialInv == HistoryInit => SchedulerInv
BY WorkerAssumption DEF HistoryInit, Init, SchedulerInv, Shape, Working, HeldIsRunning, Holds,
   VisitedDone, WorkReady, TaskStatus, Open, Final

\* A dependency once visited stays so.
LEMMA ReadyStays ==
    ASSUME NEW t, Ready(t), visited \subseteq visited'
    PROVE  Ready(t)'
BY DEF Ready

\* What every step of the history adds to raced.
LEMMA RacedGrows ==
    ASSUME HistoryNext
    PROVE  /\ raced \subseteq raced'
           /\ \A t \in Task : StaleMark(t) \/ TakenAway(t) \/ StaleStop(t) => t \in raced'
BY DEF HistoryNext

-----------------------------------------------------------------------------
(* The shape. *)

LEMMA WorkShape ==
    ASSUME Shape, NEW w \in Worker, WorkStep(w)
    PROVE  Shape'
<1> USE DEF Shape, Working, taskVars, rowVars, sharedVars, adminVars
<1>1. CASE PopRead(w)
    <2>1. PICK t \in Task, late \in BOOLEAN :
             job' = [job EXCEPT ![w] = [task |-> t, times_run |-> times_run[t] + 1,
                                        times_failed |-> times_failed[t], late |-> late, run |-> 0]]
        BY <1>1 DEF PopRead
    <2>2. job'[w].task = t /\ \A v \in Worker : v # w => job'[v] = job[v]
        BY <2>1
    <2>3. job' = [v \in Worker |-> job'[v]]
        BY <2>1
    <2> QED
        BY <1>1, <2>2, <2>3 DEF PopRead
<1>2. CASE PopWrite(w)
    BY <1>2 DEF PopWrite, TaskStatus
<1>3. CASE StartRun(w)
    BY <1>3 DEF StartRun
<1>4. CASE Execute(w)
    BY <1>4 DEF Execute
<1>5. CASE Report(w)
    <2>1. StatusAfter(w) \in TaskStatus
        BY DEF StatusAfter, TaskStatus, Open, Final
    <2>2. NowVisited(w) \subseteq Deps
        BY DEF NowVisited
    <2> QED
        BY <1>5, <2>1, <2>2 DEF Report
<1>6. CASE Exit(w)
    BY <1>6 DEF Exit, Gone
<1> QED
    BY <1>1, <1>2, <1>3, <1>4, <1>5, <1>6 DEF WorkStep

LEMMA AssignShape ==
    ASSUME Shape, NEW w \in Worker, AssignStep(w)
    PROVE  Shape'
<1> USE DEF Shape, Working, taskVars, rowVars, sharedVars, adminVars
<1>1. CASE BeginAssign(w)
    BY <1>1 DEF BeginAssign, TaskStatus, Final
<1>2. ASSUME NEW due \in SUBSET Available, SelectTasks(w, due) PROVE Shape'
    BY <1>2 DEF SelectTasks, Available
<1>3. CASE AssignTask(w)
    <2>1. PICK t \in todo[w], x \in known[w] :
             /\ todo' = [todo EXCEPT ![w] = @ \ {t}]
             /\ status' = IF status[t] \in Open THEN [status EXCEPT ![t] = "ASSIGNED"] ELSE status
             /\ owner' = IF status[t] \in Open THEN [owner EXCEPT ![t] = x] ELSE owner
        BY <1>3 DEF AssignTask
    <2> QED
        BY <1>3, <2>1 DEF AssignTask, TaskStatus, Open
<1>4. CASE EndAssign(w)
    BY <1>4 DEF EndAssign
<1> QED
    BY <1>1, <1>2, <1>3, <1>4 DEF AssignStep

LEMMA HeartbeatShape ==
    ASSUME Shape, NEW w \in Worker, HeartbeatStep(w)
    PROVE  Shape'
<1> USE DEF Shape, Working, taskVars, rowVars, mainVars, sharedVars, adminVars
<1>1. CASE HeartbeatRead(w)
    BY <1>1 DEF HeartbeatRead
<1>2. CASE HeartbeatDie(w)
    BY <1>2 DEF HeartbeatDie
<1>3. ASSUME NEW clean \in BOOLEAN, Heartbeat(w, clean) PROVE Shape'
    <2>1. status' \in [Task -> TaskStatus] /\ owner' \in [Task -> Worker \cup {Nobody}]
        BY <1>3 DEF Heartbeat, TaskStatus, Open
    <2>2. is_ticker' \in [Worker -> BOOLEAN]
        BY <1>3 DEF Heartbeat
    <2>3. UNCHANGED <<visited, main, job, known, todo>>
        BY <1>3 DEF Heartbeat
    <2> QED
        BY <2>1, <2>2, <2>3
<1> QED
    BY <1>1, <1>2, <1>3 DEF HeartbeatStep

LEMMA OtherShape ==
    ASSUME Shape, AdminStep \/ Nature
    PROVE  Shape'
<1> USE DEF Shape, Working, taskVars, rowVars, mainVars, sharedVars, adminVars
<1>1. ASSUME NEW t \in Task, QueueTask(t) PROVE Shape'
    BY <1>1 DEF QueueTask, TaskStatus, Open
<1>2. ASSUME NEW action \in Orders, Order(action) PROVE Shape'
    BY <1>2 DEF Order
<1>3. ASSUME NEW t \in Task, StopRead(t) PROVE Shape'
    BY <1>3 DEF StopRead
<1>4. CASE StopRunning
    BY <1>4 DEF StopRunning
<1>5. CASE StopQueued
    BY <1>5 DEF StopQueued, TaskStatus
<1>6. ASSUME NEW t \in Task, PassStopTime(t) PROVE Shape'
    BY <1>6 DEF PassStopTime
<1>7. ASSUME NEW w \in Worker, PassHeartbeats(w) PROVE Shape'
    BY <1>7 DEF PassHeartbeats
<1>8. ASSUME NEW w \in Worker, Crash(w) PROVE Shape'
    BY <1>8 DEF Crash, Gone
<1>9. ASSUME NEW w \in Worker, Restart(w) PROVE Shape'
    BY <1>9 DEF Restart
<1> QED
    BY <1>1, <1>2, <1>3, <1>4, <1>5, <1>6, <1>7, <1>8, <1>9 DEF AdminStep, Nature

LEMMA ShapeStep == Shape /\ HistoryNext => Shape'
BY WorkShape, AssignShape, HeartbeatShape, OtherShape DEF HistoryNext, Next

-----------------------------------------------------------------------------
(* Who holds a task. *)

\* A worker at work comes to hold what it marks, and holds nothing after its report.
LEMMA WorkHeld ==
    ASSUME Shape, HeldIsRunning, HistoryNext, NEW w \in Worker, WorkStep(w)
    PROVE  HeldIsRunning'
<1> SUFFICES ASSUME NEW v \in Worker, NEW t \in Task, t \notin raced', Holds(v, t)'
             PROVE  status'[t] = "RUNNING" /\ owner'[t] = v
    BY DEF HeldIsRunning
<1>0. t \notin raced /\ ~StaleMark(t)
    BY RacedGrows
<1> USE DEF Shape, Working, taskVars, rowVars, sharedVars, adminVars
<1>a. ASSUME UNCHANGED <<status, owner>>, Holds(v, t)
      PROVE  status'[t] = "RUNNING" /\ owner'[t] = v
    BY <1>a, <1>0 DEF HeldIsRunning
<1>1. CASE PopRead(w)
    <2>1. main'[w] = "popped" /\ \A x \in Worker : x # w => main'[x] = main[x] /\ job'[x] = job[x]
        BY <1>1 DEF PopRead
    <2> QED
        BY <1>1, <1>a, <2>1 DEF PopRead, Holds
<1>2. CASE PopWrite(w)
    <2>1. main[w] = "popped" /\ main'[w] = "marked" /\ job' = job
        BY <1>2 DEF PopWrite
    <2>2. \A x \in Worker : x # w => main'[x] = main[x]
        BY <1>2 DEF PopWrite
    <2>3. CASE v = w
        <3>1. job[w].task = t
            BY <2>1, <2>3 DEF Holds
        <3>2. status[t] = "ASSIGNED" /\ owner[t] = w
            BY <1>0, <2>1, <3>1 DEF StaleMark
        <3> QED
            BY <1>2, <2>3, <3>1, <3>2 DEF PopWrite
    <2>4. CASE v # w
        <3>1. Holds(v, t)
            BY <2>1, <2>2, <2>4 DEF Holds
        <3>2. status[t] = "RUNNING" /\ owner[t] = v
            BY <1>0, <3>1 DEF HeldIsRunning
        <3> QED
            BY <1>2, <3>2 DEF PopWrite
    <2> QED
        BY <2>3, <2>4
<1>3. CASE StartRun(w)
    BY <1>3, <1>a DEF StartRun, Holds
<1>4. CASE Execute(w)
    BY <1>4, <1>a DEF Execute, Holds
<1>5. CASE Report(w)
    <2>1. main[w] = "running" /\ main'[w] = "loop"
        BY <1>5 DEF Report
    <2>2. v # w /\ Holds(v, t)
        BY <1>5, <2>1 DEF Report, Holds
    <2>3. status[t] = "RUNNING" /\ owner[t] = v
        BY <1>0, <2>2 DEF HeldIsRunning
    <2>4. job[w].task # t
        <3> SUFFICES ASSUME job[w].task = t PROVE FALSE
            OBVIOUS
        <3>1. Holds(w, t)
            BY <2>1 DEF Holds
        <3> QED
            BY <1>0, <2>2, <2>3, <3>1 DEF HeldIsRunning
    <2>5. status'[t] = status[t] /\ owner' = owner
        BY <1>5, <2>4 DEF Report
    <2> QED
        BY <2>3, <2>5
<1>6. CASE Exit(w)
    BY <1>6, <1>a DEF Exit, Gone, Holds
<1> QED
    BY <1>1, <1>2, <1>3, <1>4, <1>5, <1>6 DEF WorkStep

\* The heartbeats of others do not touch a task that is held, unless they take it away.
LEMMA FreedRaces ==
    ASSUME Shape, HistoryNext, NEW w \in Worker, NEW clean \in BOOLEAN, Heartbeat(w, clean),
           NEW t \in Task, status[t] = "RUNNING"
    PROVE  \/ status'[t] = status[t] /\ owner'[t] = owner[t]
           \/ status'[t] = "QUEUED" /\ (t \in raced' \/ \A v \in Worker : ~Holds(v, t))
<1>1. CASE clean /\ t \in Freed(w)
    <2>1. owner[t] \in Worker /\ owner[t] # Nobody
        BY <1>1, WorkerAssumption DEF Freed, Dead
    <2>2. status'[t] = "QUEUED" /\ owner'[t] = Nobody
        BY <1>1 DEF Heartbeat, Shape
    <2> QED
        BY <2>1, <2>2, RacedGrows DEF TakenAway
<1>2. CASE ~(clean /\ t \in Freed(w))
    BY <1>2 DEF Heartbeat, Shape
<1> QED
    BY <1>1, <1>2

LEMMA OtherHeld ==
    ASSUME Shape, HeldIsRunning, HistoryNext,
           AdminStep \/ Nature \/ \E w \in Worker : AssignStep(w) \/ HeartbeatStep(w)
    PROVE  HeldIsRunning'
<1> SUFFICES ASSUME NEW v \in Worker, NEW t \in Task, t \notin raced', Holds(v, t)'
             PROVE  status'[t] = "RUNNING" /\ owner'[t] = v
    BY DEF HeldIsRunning
<1> USE DEF Shape, Working, taskVars, rowVars, mainVars, sharedVars, adminVars
<1>a. ASSUME Holds(v, t) PROVE status[t] = "RUNNING" /\ owner[t] = v
    BY <1>a, RacedGrows DEF HeldIsRunning
<1>b. ASSUME UNCHANGED <<status, owner, main, job>> PROVE status'[t] = "RUNNING" /\ owner'[t] = v
    BY <1>a, <1>b DEF Holds
<1>1. CASE AdminStep
    <2>1. ASSUME NEW u \in Task, QueueTask(u) PROVE status'[t] = "RUNNING" /\ owner'[t] = v
        BY <1>a, <2>1 DEF QueueTask, Holds
    <2>2. ASSUME NEW action \in Orders, Order(action) PROVE UNCHANGED <<status, owner, main, job>>
        BY <2>2 DEF Order
    <2>3. ASSUME NEW u \in Task, StopRead(u) PROVE UNCHANGED <<status, owner, main, job>>
        BY <2>3 DEF StopRead
    <2>4. CASE StopRunning
        BY <1>b, <2>4 DEF StopRunning
    <2>5. CASE StopQueued
        <3>1. Holds(v, t) /\ owner' = owner
            BY <2>5 DEF StopQueued, Holds
        <3>2. stopper.task # t
            BY <1>a, <2>5, <3>1, RacedGrows DEF StopQueued, StaleStop
        <3> QED
            BY <1>a, <2>5, <3>1, <3>2 DEF StopQueued
    <2> QED
        BY <1>1, <1>b, <2>1, <2>2, <2>3, <2>4, <2>5 DEF AdminStep
<1>2. CASE Nature
    <2>1. ASSUME NEW u \in Task, PassStopTime(u) PROVE UNCHANGED <<status, owner, main, job>>
        BY <2>1 DEF PassStopTime
    <2>2. ASSUME NEW w \in Worker, PassHeartbeats(w) PROVE UNCHANGED <<status, owner, main, job>>
        BY <2>2 DEF PassHeartbeats
    <2>3. ASSUME NEW w \in Worker, Crash(w) PROVE Holds(v, t) /\ UNCHANGED <<status, owner>>
        BY <2>3 DEF Crash, Gone, Holds
    <2>4. ASSUME NEW w \in Worker, Restart(w) PROVE Holds(v, t) /\ UNCHANGED <<status, owner>>
        BY <2>4 DEF Restart, Holds
    <2> QED
        BY <1>2, <1>a, <1>b, <2>1, <2>2, <2>3, <2>4 DEF Nature
<1>3. ASSUME NEW w \in Worker, AssignStep(w) PROVE status'[t] = "RUNNING" /\ owner'[t] = v
    <2>1. CASE BeginAssign(w)
        BY <1>a, <2>1 DEF BeginAssign, Holds, Overdue, Open
    <2>2. ASSUME NEW due \in SUBSET Available, SelectTasks(w, due)
          PROVE  status'[t] = "RUNNING" /\ owner'[t] = v
        BY <1>a, <2>2 DEF SelectTasks, Holds
    <2>3. CASE AssignTask(w)
        <3>1. Holds(v, t)
            BY <2>3 DEF AssignTask, Holds
        <3>2. PICK u \in todo[w], x \in known[w] :
                 /\ status' = IF status[u] \in Open THEN [status EXCEPT ![u] = "ASSIGNED"] ELSE status
                 /\ owner' = IF status[u] \in Open THEN [owner EXCEPT ![u] = x] ELSE owner
            BY <2>3 DEF AssignTask
        <3> QED
            BY <1>a, <3>1, <3>2 DEF Open
    <2>4. CASE EndAssign(w)
        BY <1>a, <2>4 DEF EndAssign, Holds
    <2> QED
        BY <1>3, <2>1, <2>2, <2>3, <2>4 DEF AssignStep
<1>4. ASSUME NEW w \in Worker, HeartbeatStep(w) PROVE status'[t] = "RUNNING" /\ owner'[t] = v
    <2>1. CASE HeartbeatRead(w)
        BY <1>b, <2>1 DEF HeartbeatRead
    <2>2. CASE HeartbeatDie(w)
        BY <1>b, <2>2 DEF HeartbeatDie
    <2>3. ASSUME NEW clean \in BOOLEAN, Heartbeat(w, clean)
          PROVE  status'[t] = "RUNNING" /\ owner'[t] = v
        <3>1. Holds(v, t)
            BY <2>3 DEF Heartbeat, Holds
        <3> QED
            BY <1>a, <2>3, <3>1, FreedRaces
    <2> QED
        BY <1>4, <2>1, <2>2, <2>3 DEF HeartbeatStep
<1> QED
    BY <1>1, <1>2, <1>3, <1>4

LEMMA HeldStep == Shape /\ HeldIsRunning /\ HistoryNext => HeldIsRunning'
BY WorkHeld, OtherHeld DEF HistoryNext, Next

-----------------------------------------------------------------------------
(* Tasks that have come to their end. *)

LEMMA FinalStep ==
    ASSUME Shape, HeldIsRunning, HistoryNext, NEW t \in Task, status[t] \in Final, t \notin raced'
    PROVE  status'[t] = status[t]
<1>0. t \notin raced /\ ~StaleMark(t) /\ ~StaleStop(t)
    BY RacedGrows
<1> USE DEF Shape, Working, Final, taskVars, rowVars, mainVars, sharedVars, adminVars
<1>1. ASSUME NEW w \in Worker, WorkStep(w) PROVE status'[t] = status[t]
    <2>1. CASE PopWrite(w)
        <3>1. job[w].task # t
            BY <1>0, <2>1 DEF PopWrite, StaleMark
        <3> QED
            BY <2>1, <3>1 DEF PopWrite
    <2>2. CASE Report(w)
        <3>1. job[w].task # t
            BY <1>0, <2>2 DEF Report, Holds, HeldIsRunning
        <3> QED
            BY <2>2, <3>1 DEF Report
    <2>3. CASE PopRead(w) \/ StartRun(w) \/ Execute(w) \/ Exit(w)
        BY <2>3 DEF PopRead, StartRun, Execute, Exit, Gone
    <2> QED
        BY <1>1, <2>1, <2>2, <2>3 DEF WorkStep
<1>2. ASSUME NEW w \in Worker, AssignStep(w) PROVE status'[t] = status[t]
    <2>1. CASE AssignTask(w)
        BY <2>1 DEF AssignTask, Open
    <2>2. CASE BeginAssign(w)
        BY <2>2 DEF BeginAssign, Overdue, Open
    <2>3. CASE EndAssign(w) \/ \E due \in SUBSET Available : SelectTasks(w, due)
        BY <2>3 DEF EndAssign, SelectTasks
    <2> QED
        BY <1>2, <2>1, <2>2, <2>3 DEF AssignStep
<1>3. ASSUME NEW w \in Worker, HeartbeatStep(w) PROVE status'[t] = status[t]
    BY <1>3 DEF HeartbeatStep, HeartbeatRead, HeartbeatDie, Heartbeat, Freed
<1>4. CASE AdminStep
    <2>1. CASE StopQueued
        BY <1>0, <2>1 DEF StopQueued, StaleStop
    <2>2. CASE \E u \in Task : QueueTask(u)
        BY <2>2 DEF QueueTask
    <2>3. CASE \/ \E action \in Orders : Order(action)
               \/ \E u \in Task : StopRead(u)
               \/ StopRunning
        BY <2>3 DEF Order, StopRead, StopRunning
    <2> QED
        BY <1>4, <2>1, <2>2, <2>3 DEF AdminStep
<1>5. CASE Nature
    BY <1>5 DEF Nature, PassStopTime, PassHeartbeats, Crash, Gone, Restart
<1> QED
    BY <1>1, <1>2, <1>3, <1>4, <1>5 DEF HistoryNext, Next

-----------------------------------------------------------------------------
(* Dependencies. *)

LEMMA VisitedStep ==
    ASSUME Shape, HeldIsRunning, VisitedDone, HistoryNext
    PROVE  VisitedDone' /\ visited \subseteq visited'
<1> USE DEF Shape, taskVars
<1>1. ASSUME NEW d \in visited PROVE status'[d[2]] = "COMPLETED" \/ d[2] \in raced'
    <2>1. d[2] \in Task
        BY TaskAssumption
    <2>2. CASE d[2] \in raced
        BY <2>2, RacedGrows
    <2>3. CASE d[2] \notin raced
        BY <2>1, <2>3, FinalStep DEF VisitedDone, Final
    <2> QED
        BY <2>2, <2>3
<1>2. ASSUME NEW w \in Worker, Report(w) PROVE VisitedDone' /\ visited \subseteq visited'
    <2>1. ASSUME NEW d \in NowVisited(w) PROVE status'[d[2]] = "COMPLETED"
        <3>1. StatusAfter(w) = "COMPLETED" /\ d[2] = job[w].task
            BY DEF NowVisited
        <3>2. job[w].task \in Task
            BY <1>2 DEF Report, Working
        <3> QED
            BY <1>2, <3>1, <3>2 DEF Report
    <2>2. visited' = visited \cup NowVisited(w)
        BY <1>2 DEF Report
    <2> QED
        BY <1>1, <2>1, <2>2 DEF VisitedDone
<1>3. ASSUME NEW w \in Worker, WorkStep(w), ~Report(w) PROVE visited' = visited
    BY <1>3 DEF WorkStep, PopRead, PopWrite, StartRun, Execute, Exit, Gone
<1>4. ASSUME NEW w \in Worker, AssignStep(w) PROVE visited' = visited
    BY <1>4 DEF AssignStep, BeginAssign, SelectTasks, AssignTask, EndAssign
<1>5. ASSUME NEW w \in Worker, HeartbeatStep(w) PROVE visited' = visited
    BY <1>5 DEF HeartbeatStep, HeartbeatRead, HeartbeatDie, Heartbeat
<1>6. ASSUME AdminStep PROVE visited' = visited
    BY <1>6 DEF AdminStep, QueueTask, Order, StopRead, StopRunning, StopQueued
<1>7. ASSUME Nature PROVE visited' = visited
    BY <1>7 DEF Nature, PassStopTime, PassHeartbeats, Crash, Gone, Restart
<1> QED
    BY <1>1, <1>2, <1>3, <1>4, <1>5, <1>6, <1>7 DEF HistoryNext, Next, VisitedDone

\* From the ticker's SELECT to the run, what was ready is still ready.
LEMMA ReadyStep ==
    ASSUME Shape, HeldIsRunning, VisitedDone, WorkReady, HistoryNext
    PROVE  WorkReady'
<1>0. \A t \in Task : Ready(t) => Ready(t)'
    BY VisitedStep, ReadyStays
<1>a. ASSUME UNCHANGED <<main, job, todo>>,
             \A t \in Task : status'[t] \in {"ASSIGNED", "RUNNING"} =>
                 status[t] \in {"ASSIGNED", "RUNNING"}
      PROVE  WorkReady'
    BY <1>0, <1>a DEF WorkReady, Shape
<1> USE DEF Shape, Working, WorkReady, taskVars, rowVars, mainVars, sharedVars, adminVars
<1>1. ASSUME NEW w \in Worker, WorkStep(w) PROVE WorkReady'
    <2>1. CASE PopRead(w)
        <3>1. PICK t \in Task : status[t] = "ASSIGNED" /\ job'[w].task = t
            BY <2>1 DEF PopRead
        <3>2. \A v \in Worker : v # w => main'[v] = main[v] /\ job'[v] = job[v]
            BY <2>1 DEF PopRead
        <3> QED
            BY <1>0, <2>1, <3>1, <3>2 DEF PopRead
    <2>2. CASE PopWrite(w)
        BY <1>0, <2>2 DEF PopWrite
    <2>3. CASE StartRun(w)
        <3>1. \A v \in Worker : job'[v].task = job[v].task
            BY <2>3 DEF StartRun
        <3> QED
            BY <1>0, <2>3, <3>1 DEF StartRun
    <2>4. CASE Execute(w)
        BY <1>a, <2>4 DEF Execute
    <2>5. CASE Report(w)
        <3>1. StatusAfter(w) \notin {"ASSIGNED", "RUNNING"}
            BY DEF StatusAfter
        <3>2. \A v \in Worker : main'[v] \in Working => main[v] \in Working /\ job'[v] = job[v]
            BY <2>5 DEF Report
        <3>3. \A t \in Task : status'[t] = status[t] \/ status'[t] = StatusAfter(w)
            BY <2>5 DEF Report
        <3> QED
            BY <1>0, <2>5, <3>1, <3>2, <3>3 DEF Report
    <2>6. CASE Exit(w)
        BY <1>0, <2>6 DEF Exit, Gone
    <2> QED
        BY <1>1, <2>1, <2>2, <2>3, <2>4, <2>5, <2>6 DEF WorkStep
<1>2. ASSUME NEW w \in Worker, AssignStep(w) PROVE WorkReady'
    <2>1. CASE BeginAssign(w)
        BY <1>0, <2>1 DEF BeginAssign
    <2>2. ASSUME NEW due \in SUBSET Available, SelectTasks(w, due) PROVE WorkReady'
        BY <1>0, <2>2 DEF SelectTasks, Available
    <2>3. CASE AssignTask(w)
        <3>1. PICK t \in todo[w], x \in known[w] :
                 /\ todo' = [todo EXCEPT ![w] = @ \ {t}]
                 /\ status' = IF status[t] \in Open THEN [status EXCEPT ![t] = "ASSIGNED"] ELSE status
            BY <2>3 DEF AssignTask
        <3>2. main' = main /\ job' = job
            BY <2>3 DEF AssignTask
        <3> QED
            BY <1>0, <3>1, <3>2
    <2>4. CASE EndAssign(w)
        BY <1>0, <2>4 DEF EndAssign
    <2> QED
        BY <1>2, <2>1, <2>2, <2>3, <2>4 DEF AssignStep
<1>3. ASSUME NEW w \in Worker, HeartbeatStep(w) PROVE WorkReady'
    BY <1>3, <1>a DEF HeartbeatStep, HeartbeatRead, HeartbeatDie, Heartbeat
<1>4. CASE AdminStep
    BY <1>4, <1>a DEF AdminStep, QueueTask, Order, StopRead, StopRunning, StopQueued
<1>5. CASE Nature
    <2>1. CASE \/ \E t \in Task : PassStopTime(t)
               \/ \E w \in Worker : PassHeartbeats(w)
        BY <1>a, <2>1 DEF PassStopTime, PassHeartbeats
    <2>2. CASE \E w \in Worker : Crash(w) \/ Restart(w)
        BY <1>0, <2>2 DEF Crash, Gone, Restart
    <2> QED
        BY <1>5, <2>1, <2>2 DEF Nature
<1> QED
    BY <1>1, <1>2, <1>3, <1>4, <1>5 DEF HistoryNext, Next

LEMMA StutterKeeps == SchedulerInv /\ UNCHANGED vars => SchedulerInv'
BY DEF vars, schedulerVars, taskVars, rowVars, mainVars, SchedulerInv, Shape, Working,
   HeldIsRunning, Holds, VisitedDone, WorkReady, Ready

-----------------------------------------------------------------------------
(* The theorems. *)

\* What follows rests on this invariant.
THEOREM SchedulerInvariant == HistorySpec => []SchedulerInv
<1>1. SchedulerInv /\ [HistoryNext]_vars => SchedulerInv'
    BY ShapeStep, HeldStep, VisitedStep, ReadyStep, StutterKeeps DEF SchedulerInv
<1> QED
    BY InitialInv, <1>1, PTL DEF HistorySpec

\* A task that was not lost belongs by its row to the worker that is at work on it.
THEOREM HeldTasksRun == HistorySpec => []HeldIsRunning
<1>1. SchedulerInv => HeldIsRunning
    BY DEF SchedulerInv
<1> QED
    BY <1>1, SchedulerInvariant, PTL

\* It is run by one worker at a time.
THEOREM OneAtATime == HistorySpec => []OneRunner
<1>1. SchedulerInv => OneRunner
    BY DEF SchedulerInv, HeldIsRunning, OneRunner
<1> QED
    BY <1>1, SchedulerInvariant, PTL

\* A parent is not taken up before its children are done.
THEOREM ChildrenGoFirst == HistorySpec => []ChildrenFirst
<1>1. SchedulerInv => ChildrenFirst
    <2> SUFFICES ASSUME SchedulerInv, NEW d \in Deps,
                        status[d[1]] = "RUNNING" \/ \E w \in Worker : Holds(w, d[1])
                 PROVE  status[d[2]] = "COMPLETED" \/ d[2] \in raced
        BY DEF ChildrenFirst
    <2>1. d[1] \in Task
        BY TaskAssumption
    <2>2. Ready(d[1])
        BY <2>1 DEF SchedulerInv, WorkReady, Holds, Working
    <2>3. d \in visited
        BY <2>2 DEF Ready
    <2> QED
        BY <2>3 DEF SchedulerInv, VisitedDone
<1> QED
    BY <1>1, SchedulerInvariant, PTL

\* A task that has come to its end and was not lost stays there.
THEOREM EndsAreFinal == HistorySpec => FinalStays
<1>1. SchedulerInv /\ [HistoryNext]_vars =>
          [\A t \in Task : status[t] \in Final /\ t \notin raced' => status'[t] = status[t]]_vars
    BY FinalStep DEF SchedulerInv
<1> QED
    BY <1>1, SchedulerInvariant, PTL DEF HistorySpec, FinalStays

\* At most one row says that its worker is the ticker.
THEOREM NoTwoTickers == HistorySpec => []OneTickerRow
<1>1. HistoryInit => OneTickerRow
    BY DEF HistoryInit, Init, OneTickerRow
<1>2. ASSUME SchedulerInv, OneTickerRow, [HistoryNext]_vars PROVE OneTickerRow'
    <2> USE DEF OneTickerRow
    <2>1. ASSUME NEW w \in Worker, NEW clean \in BOOLEAN, Heartbeat(w, clean) PROVE OneTickerRow'
        <3>1. \A u, v \in Worker : Tickers(w)[u] /\ Tickers(w)[v] => u = v
            BY <1>2 DEF Tickers, SchedulerInv, Shape
        <3>2. \A v \in Worker : is_ticker'[v] => IF clean THEN Tickers(w)[v] ELSE is_ticker[v]
            BY <2>1 DEF Heartbeat
        <3> QED
            BY <1>2, <3>1, <3>2
    <2>2. ASSUME NEW w \in Worker, WorkStep(w) \/ AssignStep(w) \/ HeartbeatRead(w) \/ HeartbeatDie(w)
          PROVE  OneTickerRow'
        BY <1>2, <2>2 DEF rowVars, WorkStep, PopRead, PopWrite, StartRun, Execute, Report, Exit, Gone,
           AssignStep, BeginAssign, SelectTasks, AssignTask, EndAssign, HeartbeatRead, HeartbeatDie
    <2>3. CASE AdminStep
        BY <1>2, <2>3 DEF rowVars, AdminStep, QueueTask, Order, StopRead, StopRunning, StopQueued
    <2>4. CASE Nature
        BY <1>2, <2>4 DEF rowVars, Nature, PassStopTime, PassHeartbeats, Crash, Gone, Restart
    <2>5. CASE UNCHANGED vars
        BY <1>2, <2>5 DEF vars, schedulerVars, rowVars
    <2> QED
        BY <1>2, <2>1, <2>2, <2>3, <2>4, <2>5 DEF HistoryNext, Next, HeartbeatStep
<1> QED
    BY <1>1, <1>2, SchedulerInvariant, PTL DEF HistorySpec

-----------------------------------------------------------------------------
(* What the refinement needs beside SchedulerInv: a worker that holds a    *)
(* task which was not lost has counted it right.                           *)

Counters ==
    /\ times_run = [t \in Task |-> times_run[t]]
    /\ times_failed = [t \in Task |-> times_failed[t]]

CountsKnown ==
    \A w \in Worker, t \in Task \ raced :
        Holds(w, t) => job[w].times_run = times_run[t] + 1 /\ job[w].times_failed = times_failed[t]

LifeInv == SchedulerInv /\ Counters /\ CountsKnown

LEMMA InitialLifeInv == HistoryInit => LifeInv
<1> SUFFICES ASSUME HistoryInit PROVE LifeInv
    OBVIOUS
<1>1. SchedulerInv
    BY InitialInv
<1>2. Counters /\ CountsKnown
    BY DEF HistoryInit, Init, Counters, CountsKnown, Holds
<1> QED
    BY <1>1, <1>2 DEF LifeInv

\* The columns are functions of the tasks, and that is all the rest needs.
LEMMA KeepCounts ==
    ASSUME Counters, UNCHANGED <<times_run, times_failed>>
    PROVE  Counters'
BY DEF Counters

\* A step that marks nothing and counts nothing keeps what holders know.
LEMMA KeepKnown ==
    ASSUME HistoryNext, CountsKnown, UNCHANGED <<times_run, times_failed>>,
           \A w \in Worker, t \in Task : Holds(w, t)' => Holds(w, t) /\
               job'[w].times_run = job[w].times_run /\ job'[w].times_failed = job[w].times_failed
    PROVE  CountsKnown'
BY RacedGrows DEF CountsKnown

LEMMA CountStep ==
    ASSUME LifeInv, HistoryNext
    PROVE  Counters' /\ CountsKnown'
<1> USE DEF LifeInv, SchedulerInv, Shape, Working, taskVars, rowVars, mainVars, sharedVars, adminVars
<1>1. ASSUME NEW w \in Worker, WorkStep(w) PROVE Counters' /\ CountsKnown'
    <2>1. CASE PopRead(w)
        <3>1. main'[w] = "popped" /\ \A x \in Worker : x # w => main'[x] = main[x] /\ job'[x] = job[x]
            BY <2>1 DEF PopRead
        <3> QED
            BY <2>1, <3>1, KeepCounts, KeepKnown DEF PopRead, Holds
    <2>2. CASE PopWrite(w)
        <3>1. main[w] = "popped" /\ main'[w] = "marked" /\ job' = job
            BY <2>2 DEF PopWrite
        <3>2. \A x \in Worker : x # w => main'[x] = main[x]
            BY <2>2 DEF PopWrite
        <3>3. UNCHANGED <<times_run, times_failed>>
            BY <2>2 DEF PopWrite
        <3>4. ASSUME NEW v \in Worker, NEW t \in Task, t \notin raced', Holds(v, t)'
              PROVE  job[v].times_run = times_run[t] + 1 /\ job[v].times_failed = times_failed[t]
            <4>1. t \notin raced /\ ~StaleMark(t)
                BY <3>4, RacedGrows
            <4>2. CASE v = w
                <5>1. job[w].task = t
                    BY <3>1, <3>4, <4>2 DEF Holds
                <5> QED
                    BY <3>1, <4>1, <4>2, <5>1 DEF StaleMark
            <4>3. CASE v # w
                BY <3>1, <3>2, <3>4, <4>1, <4>3 DEF Holds, CountsKnown
            <4> QED
                BY <4>2, <4>3
        <3> QED
            BY <3>1, <3>3, <3>4, KeepCounts DEF CountsKnown
    <2>3. CASE StartRun(w)
        <3>1. main[w] = "marked" /\ main' = [main EXCEPT ![w] = "running"]
            BY <2>3 DEF StartRun
        <3>2. \A v \in Worker : /\ job'[v].task = job[v].task
                                /\ job'[v].times_run = job[v].times_run
                                /\ job'[v].times_failed = job[v].times_failed
            BY <2>3 DEF StartRun
        <3>3. \A v \in Worker, t \in Task : Holds(v, t)' => Holds(v, t)
            BY <3>1, <3>2 DEF Holds
        <3> QED
            BY <2>3, <3>2, <3>3, KeepCounts, KeepKnown DEF StartRun
    <2>4. CASE Execute(w) \/ Exit(w)
        <3>1. UNCHANGED <<times_run, times_failed>>
            BY <2>4 DEF Execute, Exit, Gone
        <3>2. \A v \in Worker : main'[v] \in {"marked", "running"} => main'[v] = main[v] /\ job'[v] = job[v]
            BY <2>4 DEF Execute, Exit, Gone
        <3> QED
            BY <3>1, <3>2, KeepCounts, KeepKnown DEF Holds
    <2>5. CASE Report(w)
        <3> DEFINE u == job[w].task
        <3>1. main[w] = "running" /\ main'[w] = "loop" /\ u \in Task
            BY <2>5 DEF Report
        <3>2. \A v \in Worker : v # w => main'[v] = main[v] /\ job'[v] = job[v]
            BY <2>5 DEF Report
        <3>3. \A t \in Task : t # u => times_run'[t] = times_run[t] /\ times_failed'[t] = times_failed[t]
            BY <2>5 DEF Report, Counters
        <3>4. ASSUME NEW v \in Worker, NEW t \in Task, t \notin raced', Holds(v, t)'
              PROVE  job'[v].times_run = times_run'[t] + 1 /\ job'[v].times_failed = times_failed'[t]
            <4>1. t \notin raced
                BY <3>4, RacedGrows
            <4>2. v # w /\ Holds(v, t)
                BY <3>1, <3>2, <3>4 DEF Holds
            <4>3. t # u
                <5> SUFFICES ASSUME t = u PROVE FALSE
                    OBVIOUS
                <5>1. Holds(w, t)
                    BY <3>1 DEF Holds
                <5> QED
                    BY <4>1, <4>2, <5>1 DEF HeldIsRunning
            <4> QED
                BY <3>2, <3>3, <4>1, <4>2, <4>3 DEF CountsKnown
        <3>5. CountsKnown'
            BY <3>4 DEF CountsKnown
        <3> QED
            BY <2>5, <3>5 DEF Report, Counters
    <2> QED
        BY <1>1, <2>1, <2>2, <2>3, <2>4, <2>5 DEF WorkStep
<1>2. ASSUME \/ \E w \in Worker : AssignStep(w) \/ HeartbeatStep(w)
             \/ AdminStep
             \/ Nature
      PROVE  Counters' /\ CountsKnown'
    <2>1. UNCHANGED <<times_run, times_failed>>
        BY <1>2 DEF AssignStep, BeginAssign, SelectTasks, AssignTask, EndAssign,
           HeartbeatStep, HeartbeatRead, HeartbeatDie, Heartbeat,
           AdminStep, QueueTask, Order, StopRead, StopRunning, StopQueued,
           Nature, PassStopTime, PassHeartbeats, Crash, Gone, Restart
    <2>2. \A v \in Worker : main'[v] \in {"marked", "running"} => main'[v] = main[v] /\ job'[v] = job[v]
        <3>1. ASSUME NEW w \in Worker, AssignStep(w)
              PROVE  \A v \in Worker : main'[v] \in {"marked", "running"} => main'[v] = main[v] /\ job'[v] = job[v]
            BY <3>1 DEF AssignStep, BeginAssign, SelectTasks, AssignTask, EndAssign
        <3>2. ASSUME NEW w \in Worker, HeartbeatStep(w) PROVE main' = main /\ job' = job
            BY <3>2 DEF HeartbeatStep, HeartbeatRead, HeartbeatDie, Heartbeat
        <3>3. ASSUME AdminStep PROVE main' = main /\ job' = job
            BY <3>3 DEF AdminStep, QueueTask, Order, StopRead, StopRunning, StopQueued
        <3>4. ASSUME Nature
              PROVE  \A v \in Worker : main'[v] \in {"marked", "running"} => main'[v] = main[v] /\ job'[v] = job[v]
            BY <3>4 DEF Nature, PassStopTime, PassHeartbeats, Crash, Gone, Restart
        <3> QED
            BY <1>2, <3>1, <3>2, <3>3, <3>4
    <2> QED
        BY <2>1, <2>2, KeepCounts, KeepKnown DEF Holds
<1> QED
    BY <1>1, <1>2 DEF HistoryNext, Next

LEMMA LifeInvStep == LifeInv /\ [HistoryNext]_vars => LifeInv'
<1>1. SchedulerInv /\ [HistoryNext]_vars => SchedulerInv'
    BY ShapeStep, HeldStep, VisitedStep, ReadyStep, StutterKeeps DEF SchedulerInv
<1>2. LifeInv /\ UNCHANGED vars => Counters' /\ CountsKnown'
    BY DEF LifeInv, Counters, CountsKnown, Holds, vars, schedulerVars, taskVars, mainVars
<1> QED
    BY <1>1, <1>2, CountStep DEF LifeInv

-----------------------------------------------------------------------------
(* The steps of a task that is not lost. *)

Uncounted(t) == times_run'[t] = times_run[t] /\ times_failed'[t] = times_failed[t]
Kept(t) == status'[t] = status[t] /\ Uncounted(t)

Moved(t) ==
    \/ Kept(t)
    \/ status[t] = "none" /\ status'[t] = "QUEUED" /\ Uncounted(t)
    \/ status[t] \in Open /\ status'[t] \in {"ASSIGNED", "EXPIRED"} /\ Uncounted(t)
    \/ status[t] = "QUEUED" /\ status'[t] = "STOPPED" /\ Uncounted(t)
    \/ status[t] = "ASSIGNED" /\ status'[t] = "RUNNING" /\ Ready(t) /\ Uncounted(t)
    \/ status[t] = "RUNNING" /\ status'[t] = "QUEUED" /\ Uncounted(t)
    \/ /\ status[t] = "RUNNING"
       /\ status'[t] \in IF Repeats[t] = 0 \/ times_run[t] + 1 < Repeats[t]
                         THEN {"QUEUED", "EXPIRED"} ELSE {"COMPLETED"}
       /\ times_run'[t] = times_run[t] + 1 /\ times_failed'[t] = 0
    \/ /\ status[t] = "RUNNING"
       /\ status'[t] \in IF RetryFailed[t] = -1 \/ times_failed[t] < RetryFailed[t]
                         THEN {"QUEUED"} ELSE {"FAILED", "TIMEOUT"}
       /\ times_run'[t] = times_run[t] /\ times_failed'[t] = times_failed[t] + 1

LEMMA WorkMoves ==
    ASSUME LifeInv, HistoryNext, NEW w \in Worker, WorkStep(w), NEW t \in Task, t \notin raced'
    PROVE  Moved(t)
<1>0. t \notin raced /\ ~StaleMark(t)
    BY RacedGrows
<1> USE DEF LifeInv, SchedulerInv, Shape, Working, taskVars, rowVars, sharedVars, adminVars,
        Moved, Kept, Uncounted
<1>1. CASE PopRead(w) \/ StartRun(w) \/ Execute(w) \/ Exit(w)
    BY <1>1 DEF PopRead, StartRun, Execute, Exit, Gone
<1>2. CASE PopWrite(w)
    <2>1. main[w] = "popped" /\ main'[w] = "marked"
        BY <1>2 DEF PopWrite
    <2>2. CASE job[w].task = t
        <3>1. status[t] = "ASSIGNED"
            BY <1>0, <2>1, <2>2 DEF StaleMark
        <3>2. Ready(t)
            BY <3>1 DEF WorkReady
        <3> QED
            BY <1>2, <2>2, <3>1, <3>2 DEF PopWrite
    <2>3. CASE job[w].task # t
        BY <1>2, <2>3 DEF PopWrite
    <2> QED
        BY <2>2, <2>3
<1>3. CASE Report(w)
    <2>1. CASE job[w].task # t
        BY <1>3, <2>1 DEF Report, Counters
    <2>2. CASE job[w].task = t
        <3>1. Holds(w, t)
            BY <1>3, <2>2 DEF Report, Holds
        <3>2. status[t] = "RUNNING"
            BY <1>0, <3>1 DEF HeldIsRunning
        <3>3. job[w].times_run = times_run[t] + 1 /\ job[w].times_failed = times_failed[t]
            BY <1>0, <3>1 DEF CountsKnown
        <3>4. status'[t] = StatusAfter(w)
            BY <1>3, <2>2 DEF Report
        <3>5. CASE result[w] = "COMPLETED"
            <4>1. StatusAfter(w) \in IF Repeats[t] = 0 \/ times_run[t] + 1 < Repeats[t]
                                     THEN {"QUEUED", "EXPIRED"} ELSE {"COMPLETED"}
                BY <2>2, <3>3, <3>5 DEF StatusAfter
            <4>2. times_run'[t] = times_run[t] + 1 /\ times_failed'[t] = 0
                BY <1>3, <2>2, <3>3, <3>5 DEF Report, Counters
            <4> QED
                BY <3>2, <3>4, <4>1, <4>2
        <3>6. CASE result[w] # "COMPLETED"
            <4>1. StatusAfter(w) \in IF RetryFailed[t] = -1 \/ times_failed[t] < RetryFailed[t]
                                     THEN {"QUEUED"} ELSE {"FAILED", "TIMEOUT"}
                BY <2>2, <3>3, <3>6 DEF StatusAfter
            <4>2. times_run'[t] = times_run[t] /\ times_failed'[t] = times_failed[t] + 1
                BY <1>3, <2>2, <3>6 DEF Report, Counters
            <4> QED
                BY <3>2, <3>4, <4>1, <4>2
        <3> QED
            BY <3>5, <3>6
    <2> QED
        BY <2>1, <2>2
<1> QED
    BY <1>1, <1>2, <1>3 DEF WorkStep

LEMMA OtherMoves ==
    ASSUME LifeInv, HistoryNext, NEW t \in Task, t \notin raced',
           AdminStep \/ Nature \/ \E w \in Worker : AssignStep(w) \/ HeartbeatStep(w)
    PROVE  Moved(t)
<1>0. t \notin raced /\ ~StaleStop(t)
    BY RacedGrows
<1> USE DEF LifeInv, SchedulerInv, Shape, taskVars, rowVars, mainVars, sharedVars, adminVars,
        Moved, Kept, Uncounted
<1>1. CASE AdminStep
    <2>1. ASSUME NEW u \in Task, QueueTask(u) PROVE Moved(t)
        BY <2>1 DEF QueueTask
    <2>2. CASE \/ \E action \in Orders : Order(action)
               \/ \E u \in Task : StopRead(u)
               \/ StopRunning
        BY <2>2 DEF Order, StopRead, StopRunning
    <2>3. CASE StopQueued
        <3>1. Uncounted(t)
            BY <2>3 DEF StopQueued
        <3>2. status'[t] = status[t] \/ status'[t] = "STOPPED"
            BY <2>3 DEF StopQueued
        <3> QED
            BY <1>0, <3>1, <3>2 DEF StaleStop
    <2> QED
        BY <1>1, <2>1, <2>2, <2>3 DEF AdminStep
<1>2. CASE Nature
    BY <1>2 DEF Nature, PassStopTime, PassHeartbeats, Crash, Gone, Restart
<1>3. ASSUME NEW w \in Worker, AssignStep(w) PROVE Moved(t)
    <2>1. CASE BeginAssign(w)
        BY <2>1 DEF BeginAssign, Overdue
    <2>2. CASE AssignTask(w)
        <3>1. Uncounted(t)
            BY <2>2 DEF AssignTask
        <3>2. status'[t] = status[t] \/ (status[t] \in Open /\ status'[t] = "ASSIGNED")
            BY <2>2 DEF AssignTask
        <3> QED
            BY <3>1, <3>2
    <2>3. CASE EndAssign(w) \/ \E due \in SUBSET Available : SelectTasks(w, due)
        BY <2>3 DEF EndAssign, SelectTasks
    <2> QED
        BY <1>3, <2>1, <2>2, <2>3 DEF AssignStep
<1>4. ASSUME NEW w \in Worker, HeartbeatStep(w) PROVE Moved(t)
    BY <1>4 DEF HeartbeatStep, HeartbeatRead, HeartbeatDie, Heartbeat, Freed
<1> QED
    BY <1>1, <1>2, <1>3, <1>4

-----------------------------------------------------------------------------
(* The refinement. *)

\* The children of a task that is ready are done, or lost.
LEMMA ReadyChildren ==
    ASSUME LifeInv, NEW t \in Task, Ready(t), NEW d \in Deps, d[1] = t
    PROVE  d[2] \in Task /\ (status[d[2]] = "COMPLETED" \/ d[2] \in raced)
<1>1. d \in visited
    BY DEF Ready
<1> QED
    BY <1>1, TaskAssumption DEF LifeInv, SchedulerInv, VisitedDone

\* Every step of the scheduler is, for every task, a step of its life.
LEMMA LifeStep ==
    ASSUME LifeInv, HistoryNext
    PROVE  Life!LifeNext
<1> USE DEF Unless
<1> SUFFICES ASSUME NEW t \in Task
             PROVE  \/ Life!Stay(t) \/ Life!Queue(t) \/ Life!Assign(t) \/ Life!Expire(t)
                    \/ Life!Disable(t) \/ Life!Start(t) \/ Life!Succeed(t) \/ Life!Fail(t)
                    \/ Life!Recover(t) \/ Life!Lose(t)
    BY DEF Life!LifeNext
<1>1. CASE t \in raced'
    BY <1>1 DEF Life!Lose, Life!Counts
<1>2. CASE t \notin raced'
    <2>0. t \notin raced
        BY <1>2, RacedGrows
    <2>1. Moved(t)
        BY <1>2, WorkMoves, OtherMoves DEF HistoryNext, Next
    <2>2. CASE status[t] = "ASSIGNED" /\ status'[t] = "RUNNING" /\ Ready(t) /\ Uncounted(t)
        <3>1. \A d \in Deps : d[1] = t => d[2] \in Task /\ (status[d[2]] = "COMPLETED" \/ d[2] \in raced)
            BY <2>2, ReadyChildren
        <3> QED
            BY <1>2, <2>0, <2>2, <3>1 DEF Life!Start, Life!Uncounted, Life!Counts, Uncounted
    <2>3. CASE ~(status[t] = "ASSIGNED" /\ status'[t] = "RUNNING" /\ Ready(t) /\ Uncounted(t))
        BY <1>2, <2>0, <2>1, <2>3 DEF Moved, Kept, Uncounted, Open, Life!Stay, Life!Queue,
           Life!Assign, Life!Expire, Life!Disable, Life!Succeed, Life!Fail, Life!Recover,
           Life!Uncounted, Life!Counts, Life!Waiting
    <2> QED
        BY <2>2, <2>3
<1> QED
    BY <1>1, <1>2

\* The scheduler implements the life of tasks that TaskLife describes (pop_task, report_task,
\* assign_tasks, send_heartbeat and stop_task together).
THEOREM LifeImplemented == HistorySpec => ImplementsTaskLife
<1>1. HistoryInit => Life!LifeInit
    BY DEF HistoryInit, Init, Life!LifeInit, Unless
<1>2. LifeInv /\ [HistoryNext]_vars => [Life!LifeNext]_(Life!lifeVars)
    <2>1. UNCHANGED vars => UNCHANGED Life!lifeVars
        BY DEF vars, schedulerVars, taskVars, Life!lifeVars, Unless
    <2> QED
        BY <2>1, LifeStep
<1>3. HistorySpec => []LifeInv
    BY InitialLifeInv, LifeInvStep, PTL DEF HistorySpec
<1> QED
    BY <1>1, <1>2, <1>3, PTL DEF HistorySpec, ImplementsTaskLife, Life!LifeSpec

-----------------------------------------------------------------------------
(* The rows of scheduler_run against times_run. *)

RunsTyped ==
    /\ runs \in Seq([task : Task, worker : Worker, status : RunStatus])
    /\ result \in [Worker -> {NoResult} \cup (RunStatus \ {"RUNNING"})]

\* A worker at work has a row of its own, which says so.
OwnRun ==
    \A w \in Worker : main[w] = "running" =>
        /\ job[w].run \in DOMAIN runs
        /\ runs[job[w].run] = [task |-> job[w].task, worker |-> w, status |-> "RUNNING"]

\* As long as the task may be run again, there is a run to go.
Counted(t) ==
    /\ times_run[t] \in Nat
    /\ Cardinality(Completed(t)) = times_run[t]
    /\ Repeats[t] # 0 => times_run[t] <= Repeats[t]
    /\ Repeats[t] # 0 /\ status[t] \in {"none", "RUNNING"} \cup Open => times_run[t] < Repeats[t]

RunInv == LifeInv /\ RunsTyped /\ OwnRun /\ \A t \in Task \ raced : Counted(t)

LEMMA InitialRunInv == HistoryInit => RunInv
<1> SUFFICES ASSUME HistoryInit PROVE RunInv
    OBVIOUS
<1>1. LifeInv
    BY InitialLifeInv
<1>2. RunsTyped
    BY DEF HistoryInit, Init, RunsTyped, NoResult
<1>3. OwnRun
    BY DEF HistoryInit, Init, OwnRun
<1>4. ASSUME NEW t \in Task PROVE Counted(t)
    <2>1. Completed(t) = {}
        BY DEF HistoryInit, Init, Completed
    <2>2. Cardinality(Completed(t)) = 0
        BY <2>1, FS_EmptySet
    <2>3. times_run[t] = 0
        BY DEF HistoryInit, Init
    <2> QED
        BY <2>2, <2>3, TaskAssumption DEF Counted
<1> QED
    BY <1>1, <1>2, <1>3, <1>4 DEF RunInv

\* Steps that write no run.
QuietStep ==
    \/ \E w \in Worker : PopRead(w) \/ PopWrite(w) \/ Execute(w) \/ Exit(w)
    \/ \E w \in Worker : AssignStep(w) \/ HeartbeatStep(w)
    \/ AdminStep
    \/ Nature

LEMMA QuietKeeps ==
    ASSUME QuietStep
    PROVE  UNCHANGED <<times_run, runs>>
BY DEF QuietStep, PopRead, PopWrite, Execute, Exit, Gone, AssignStep, BeginAssign, SelectTasks,
   AssignTask, EndAssign, HeartbeatStep, HeartbeatRead, HeartbeatDie, Heartbeat,
   AdminStep, QueueTask, Order, StopRead, StopRunning, StopQueued,
   Nature, PassStopTime, PassHeartbeats, Crash, Restart, taskVars

LEMMA QuietRuns ==
    ASSUME LifeInv, QuietStep, NEW v \in Worker, main'[v] = "running"
    PROVE  main[v] = "running" /\ job'[v] = job[v]
<1> USE DEF LifeInv, SchedulerInv, Shape, taskVars, rowVars, mainVars, sharedVars, adminVars
<1>1. ASSUME NEW w \in Worker, PopRead(w) \/ PopWrite(w) \/ Execute(w) \/ Exit(w)
      PROVE  main[v] = "running" /\ job'[v] = job[v]
    BY <1>1 DEF PopRead, PopWrite, Execute, Exit, Gone
<1>2. ASSUME NEW w \in Worker, AssignStep(w)
      PROVE  main[v] = "running" /\ job'[v] = job[v]
    BY <1>2 DEF AssignStep, BeginAssign, SelectTasks, AssignTask, EndAssign
<1>3. ASSUME (\E w \in Worker : HeartbeatStep(w)) \/ AdminStep PROVE main' = main /\ job' = job
    BY <1>3 DEF HeartbeatStep, HeartbeatRead, HeartbeatDie, Heartbeat,
       AdminStep, QueueTask, Order, StopRead, StopRunning, StopQueued
<1>4. CASE Nature
    BY <1>4 DEF Nature, PassStopTime, PassHeartbeats, Crash, Gone, Restart
<1> QED
    BY <1>1, <1>2, <1>3, <1>4 DEF QuietStep

LEMMA QuietTyped ==
    ASSUME RunsTyped, QuietStep
    PROVE  RunsTyped'
<1>1. runs' = runs
    BY QuietKeeps
<1> USE DEF RunsTyped, RunStatus, NoResult, taskVars, rowVars, mainVars, sharedVars, adminVars
<1>2. ASSUME NEW w \in Worker, PopRead(w) \/ PopWrite(w) \/ Execute(w) \/ Exit(w)
      PROVE  result' \in [Worker -> {NoResult} \cup (RunStatus \ {"RUNNING"})]
    BY <1>2 DEF PopRead, PopWrite, Execute, Exit, Gone
<1>3. ASSUME (\E w \in Worker : AssignStep(w)) \/ AdminStep PROVE result' = result
    BY <1>3 DEF AssignStep, BeginAssign, SelectTasks, AssignTask, EndAssign,
       AdminStep, QueueTask, Order, StopRead, StopRunning, StopQueued
<1>4. ASSUME NEW w \in Worker, HeartbeatStep(w)
      PROVE  result' \in [Worker -> {NoResult} \cup (RunStatus \ {"RUNNING"})]
    BY <1>4 DEF HeartbeatStep, HeartbeatRead, HeartbeatDie, Heartbeat, Terminated
<1>5. ASSUME Nature
      PROVE  result' \in [Worker -> {NoResult} \cup (RunStatus \ {"RUNNING"})]
    BY <1>5 DEF Nature, PassStopTime, PassHeartbeats, Crash, Gone, Restart
<1> QED
    BY <1>1, <1>2, <1>3, <1>4, <1>5 DEF QuietStep

\* A task's life keeps the count within what was asked for.
LEMMA CountBounds ==
    ASSUME NEW t \in Task, Counted(t), Moved(t), Cardinality(Completed(t))' = times_run'[t]
    PROVE  Counted(t)'
<1>1. times_run[t] \in Nat /\ Repeats[t] \in Nat
    BY TaskAssumption DEF Counted
<1>2. times_run'[t] = times_run[t] \/ times_run'[t] = times_run[t] + 1
    BY DEF Moved, Kept, Uncounted
<1>3. Repeats[t] # 0 => times_run'[t] <= Repeats[t]
    BY <1>1 DEF Moved, Kept, Uncounted, Counted, Open
<1>4. Repeats[t] # 0 /\ status'[t] \in {"none", "RUNNING"} \cup Open => times_run'[t] < Repeats[t]
    BY <1>1 DEF Moved, Kept, Uncounted, Counted, Open
<1> QED
    BY <1>1, <1>2, <1>3, <1>4 DEF Counted

LEMMA StepMoves ==
    ASSUME LifeInv, HistoryNext, NEW t \in Task, t \notin raced'
    PROVE  Moved(t)
BY WorkMoves, OtherMoves DEF HistoryNext, Next

LEMMA QuietCounts ==
    ASSUME RunInv, HistoryNext, QuietStep
    PROVE  OwnRun' /\ \A t \in Task \ raced' : Counted(t)'
<1>1. runs' = runs /\ times_run' = times_run
    BY QuietKeeps
<1>2. OwnRun'
    BY <1>1, QuietRuns DEF RunInv, OwnRun
<1>3. ASSUME NEW t \in Task, t \notin raced' PROVE Counted(t)'
    <2>1. t \notin raced
        BY <1>3, RacedGrows
    <2>2. Completed(t)' = Completed(t)
        BY <1>1 DEF Completed
    <2>3. Counted(t)
        BY <2>1 DEF RunInv
    <2>4. Cardinality(Completed(t))' = times_run'[t]
        BY <1>1, <2>2, <2>3 DEF Counted
    <2> QED
        BY <1>3, <2>3, <2>4, StepMoves, CountBounds DEF RunInv
<1> QED
    BY <1>2, <1>3

LEMMA StartCounts ==
    ASSUME RunInv, HistoryNext, NEW w \in Worker, StartRun(w)
    PROVE  RunsTyped' /\ OwnRun' /\ \A t \in Task \ raced' : Counted(t)'
<1> DEFINE row == [task |-> job[w].task, worker |-> w, status |-> "RUNNING"]
<1>1. job[w].task \in Task
    BY DEF RunInv, LifeInv, SchedulerInv, Shape, Working, StartRun
<1>2. runs' = Append(runs, row) /\ times_run' = times_run
    BY DEF StartRun
<1>3. runs \in Seq([task : Task, worker : Worker, status : RunStatus])
    BY DEF RunInv, RunsTyped
<1>4. row \in [task : Task, worker : Worker, status : RunStatus]
    BY <1>1 DEF RunStatus
<1> HIDE DEF row
<1>5. /\ DOMAIN runs' = DOMAIN runs \cup {Len(runs) + 1}
      /\ Len(runs) + 1 \notin DOMAIN runs
      /\ runs'[Len(runs) + 1] = row
      /\ \A i \in DOMAIN runs : runs'[i] = runs[i]
    BY <1>2, <1>3, <1>4
<1>6. RunsTyped'
    <2>1. runs' \in Seq([task : Task, worker : Worker, status : RunStatus])
        BY <1>2, <1>3, <1>4
    <2>2. result' \in [Worker -> {NoResult} \cup (RunStatus \ {"RUNNING"})]
        BY DEF StartRun, RunInv, RunsTyped
    <2> QED
        BY <2>1, <2>2 DEF RunsTyped
<1>7. OwnRun'
    <2> SUFFICES ASSUME NEW v \in Worker, main'[v] = "running"
                 PROVE  /\ job'[v].run \in DOMAIN runs'
                        /\ runs'[job'[v].run] = [task |-> job'[v].task, worker |-> v, status |-> "RUNNING"]
        BY DEF OwnRun
    <2>1. CASE v = w
        <3>1. job'[w].run = Len(runs) + 1 /\ job'[w].task = job[w].task
            BY DEF StartRun, RunInv, LifeInv, SchedulerInv, Shape
        <3> QED
            BY <1>5, <2>1, <3>1 DEF row
    <2>2. CASE v # w
        <3>1. main[v] = "running" /\ job'[v] = job[v]
            BY <2>2 DEF StartRun, RunInv, LifeInv, SchedulerInv, Shape
        <3> QED
            BY <1>5, <3>1 DEF RunInv, OwnRun
    <2> QED
        BY <2>1, <2>2
<1>8. ASSUME NEW t \in Task, t \notin raced' PROVE Counted(t)'
    <2>1. t \notin raced
        BY <1>8, RacedGrows
    <2>2. Completed(t)' = Completed(t)
        BY <1>5 DEF Completed, row
    <2>3. Counted(t)
        BY <2>1 DEF RunInv
    <2>4. Cardinality(Completed(t))' = times_run'[t]
        BY <1>2, <2>2, <2>3 DEF Counted
    <2> QED
        BY <1>8, <2>3, <2>4, StepMoves, CountBounds DEF RunInv
<1> QED
    BY <1>6, <1>7, <1>8

LEMMA FiniteRuns ==
    ASSUME RunsTyped, NEW t
    PROVE  IsFiniteSet(Completed(t))
<1>1. Len(runs) \in Nat /\ DOMAIN runs = 1..Len(runs)
    BY DEF RunsTyped
<1>2. IsFiniteSet(1..Len(runs))
    BY <1>1, FS_Interval
<1>3. Completed(t) \subseteq 1..Len(runs)
    BY <1>1 DEF Completed
<1> QED
    BY <1>2, <1>3, FS_Subset

LEMMA ReportCounts ==
    ASSUME RunInv, HistoryNext, NEW w \in Worker, Report(w)
    PROVE  RunsTyped' /\ OwnRun' /\ \A t \in Task \ raced' : Counted(t)'
<1> DEFINE i == job[w].run
           u == job[w].task
           row == [task |-> u, worker |-> w, status |-> result[w]]
<1>1. main[w] = "running" /\ u \in Task
    BY DEF RunInv, LifeInv, SchedulerInv, Shape, Working, Report
<1>2. i \in DOMAIN runs /\ runs[i] = [task |-> u, worker |-> w, status |-> "RUNNING"]
    BY <1>1 DEF RunInv, OwnRun
<1>3. runs' = [runs EXCEPT ![i] = row]
    BY DEF Report
<1>4. runs \in Seq([task : Task, worker : Worker, status : RunStatus])
    BY DEF RunInv, RunsTyped
<1>5. result[w] \in RunStatus
    BY DEF RunInv, RunsTyped, Report
<1>6. row \in [task : Task, worker : Worker, status : RunStatus]
    BY <1>1, <1>5
<1>7. row.task = u /\ row.status = result[w]
    OBVIOUS
<1> HIDE DEF row, i, u
<1>8. /\ DOMAIN runs' = DOMAIN runs
      /\ runs'[i] = row
      /\ \A k \in DOMAIN runs : k # i => runs'[k] = runs[k]
    BY <1>2, <1>3, <1>4
<1>9. RunsTyped'
    <2>1. runs' \in Seq([task : Task, worker : Worker, status : RunStatus])
        BY <1>2, <1>3, <1>4, <1>6
    <2>2. result' \in [Worker -> {NoResult} \cup (RunStatus \ {"RUNNING"})]
        BY DEF Report, RunInv, RunsTyped
    <2> QED
        BY <2>1, <2>2 DEF RunsTyped
<1>10. OwnRun'
    <2> SUFFICES ASSUME NEW v \in Worker, main'[v] = "running"
                 PROVE  /\ job'[v].run \in DOMAIN runs'
                        /\ runs'[job'[v].run] = [task |-> job'[v].task, worker |-> v, status |-> "RUNNING"]
        BY DEF OwnRun
    <2>1. v # w /\ main[v] = "running" /\ job'[v] = job[v]
        BY DEF Report, RunInv, LifeInv, SchedulerInv, Shape
    <2>2. job[v].run \in DOMAIN runs /\ runs[job[v].run].worker = v
          /\ runs[job[v].run] = [task |-> job[v].task, worker |-> v, status |-> "RUNNING"]
        BY <2>1 DEF RunInv, OwnRun
    <2>3. job[v].run # i
        BY <1>2, <2>1, <2>2
    <2> QED
        BY <1>8, <2>1, <2>2, <2>3
<1>11. ASSUME NEW t \in Task, t \notin raced' PROVE Counted(t)'
    <2>1. t \notin raced
        BY <1>11, RacedGrows
    <2>2. Counted(t)
        BY <2>1 DEF RunInv
    <2>3. CASE t = u /\ result[w] = "COMPLETED"
        <3>1. Completed(t)' = Completed(t) \cup {i}
            BY <1>2, <1>7, <1>8, <2>3 DEF Completed
        <3>2. i \notin Completed(t)
            BY <1>2 DEF Completed
        <3>3. Cardinality(Completed(t)') = Cardinality(Completed(t)) + 1
            BY <3>1, <3>2, FiniteRuns, FS_AddElement DEF RunInv
        <3>4. Holds(w, t)
            BY <1>1, <2>3 DEF Holds, u
        <3>5. job[w].times_run = times_run[t] + 1
            BY <2>1, <3>4 DEF RunInv, LifeInv, CountsKnown
        <3>6. times_run'[t] = job[w].times_run
            BY <2>3 DEF Report, u, RunInv, LifeInv, Counters
        <3>7. Cardinality(Completed(t))' = times_run'[t]
            BY <2>2, <3>3, <3>5, <3>6 DEF Counted
        <3> QED
            BY <1>11, <2>2, <3>7, StepMoves, CountBounds DEF RunInv
    <2>4. CASE ~(t = u /\ result[w] = "COMPLETED")
        <3>1. Completed(t)' = Completed(t)
            BY <1>2, <1>7, <1>8, <2>4 DEF Completed
        <3>2. times_run'[t] = times_run[t]
            BY <2>4 DEF Report, u, RunInv, LifeInv, Counters
        <3>3. Cardinality(Completed(t))' = times_run'[t]
            BY <2>2, <3>1, <3>2 DEF Counted
        <3> QED
            BY <1>11, <2>2, <3>3, StepMoves, CountBounds DEF RunInv
    <2> QED
        BY <2>3, <2>4
<1> QED
    BY <1>9, <1>10, <1>11

LEMMA RunInvStep == RunInv /\ [HistoryNext]_vars => RunInv'
<1> SUFFICES ASSUME RunInv, [HistoryNext]_vars PROVE RunInv'
    OBVIOUS
<1>1. LifeInv'
    BY LifeInvStep DEF RunInv
<1>2. CASE HistoryNext
    <2>1. QuietStep \/ \E w \in Worker : StartRun(w) \/ Report(w)
        BY <1>2 DEF HistoryNext, Next, WorkStep, QuietStep
    <2>2. CASE QuietStep
        BY <1>1, <1>2, <2>2, QuietTyped, QuietCounts DEF RunInv
    <2>3. CASE \E w \in Worker : StartRun(w)
        BY <1>1, <1>2, <2>3, StartCounts DEF RunInv
    <2>4. CASE \E w \in Worker : Report(w)
        BY <1>1, <1>2, <2>4, ReportCounts DEF RunInv
    <2> QED
        BY <2>1, <2>2, <2>3, <2>4
<1>3. CASE UNCHANGED vars
    <2>1. RunsTyped' /\ OwnRun'
        BY <1>3 DEF RunInv, RunsTyped, OwnRun, vars, schedulerVars, taskVars, mainVars
    <2>2. ASSUME NEW t \in Task PROVE Completed(t)' = Completed(t)
        BY <1>3 DEF Completed, vars, schedulerVars, taskVars
    <2>3. \A t \in Task \ raced' : Counted(t)'
        BY <1>3, <2>2 DEF RunInv, Counted, vars, schedulerVars, taskVars
    <2> QED
        BY <1>1, <2>1, <2>3 DEF RunInv
<1> QED
    BY <1>2, <1>3

\* scheduler_run has as many completed rows of a task as times_run says, and no more than the
\* task asked for (pop_task, execute and report_task over any crashes and reassignments).
THEOREM RunsAreCounted == HistorySpec => []RunsCounted
<1>1. RunInv => RunsCounted
    BY DEF RunInv, Counted, RunsCounted
<1> QED
    BY <1>1, InitialRunInv, RunInvStep, PTL DEF HistorySpec

-----------------------------------------------------------------------------
(* A task whose worker is gone, where heartbeats are in time and no worker *)
(* comes back under its old name.                                          *)

InTime == Slow = {} /\ MaxRestarts = 0

\* A worker has a row from its first heartbeat on, as long as it is up.
Registered(w) == main[w] # "off" => wstatus[w] # "none"

FreshRows ==
    /\ wstatus \in [Worker -> WorkerStatus]
    /\ age \in [Worker -> 0..2]
    /\ restarts \in Nat
    /\ \A w \in Worker : main[w] # "off" => age[w] = 0

\* Tasks go to registered workers only.
AssignedKnown ==
    /\ \A v \in Worker : \A w \in known[v] : Registered(w)
    /\ \A w \in Worker, t \in Task : status[t] = "ASSIGNED" /\ owner[t] = w => Registered(w)
    /\ \A w \in Worker : main[w] \in Working => Registered(w)

\* Nobody comes up, and a row is removed only when its worker is off.
LEMMA RowsOfTheLiving ==
    ASSUME InTime, SchedulerInv, FreshRows, Next
    PROVE  /\ \A w \in Worker : main'[w] # "off" => main[w] # "off"
           /\ \A w \in Worker : main[w] # "off" /\ wstatus[w] # "none" => wstatus'[w] # "none"
           /\ \A w \in Worker : Registered(w) => Registered(w)'
<1> USE DEF taskVars, rowVars, mainVars, sharedVars, adminVars
<1>1. main \in [Worker -> {"off", "loop", "select", "assign"} \cup Working]
    BY DEF SchedulerInv, Shape
<1>2. \A w \in Worker : main'[w] # "off" => main[w] # "off"
    <2>1. ASSUME NEW v \in Worker, WorkStep(v) PROVE \A w \in Worker : main'[w] # "off" => main[w] # "off"
        <3>1. main[v] # "off"
            BY <2>1 DEF WorkStep, PopRead, Looping, PopWrite, StartRun, Execute, Report, Exit
        <3>2. \A w \in Worker : w # v => main'[w] = main[w]
            BY <1>1, <2>1 DEF WorkStep, PopRead, PopWrite, StartRun, Execute, Report, Exit, Gone
        <3> QED
            BY <3>1, <3>2
    <2>2. ASSUME NEW v \in Worker, AssignStep(v) PROVE \A w \in Worker : main'[w] # "off" => main[w] # "off"
        <3>1. main[v] # "off"
            BY <2>2 DEF AssignStep, BeginAssign, Looping, SelectTasks, AssignTask, EndAssign
        <3>2. \A w \in Worker : w # v => main'[w] = main[w]
            BY <1>1, <2>2 DEF AssignStep, BeginAssign, SelectTasks, AssignTask, EndAssign
        <3> QED
            BY <3>1, <3>2
    <2>3. ASSUME (\E v \in Worker : HeartbeatStep(v)) \/ AdminStep PROVE main' = main
        BY <2>3 DEF HeartbeatStep, HeartbeatRead, HeartbeatDie, Heartbeat,
           AdminStep, QueueTask, Order, StopRead, StopRunning, StopQueued
    <2>4. ASSUME Nature PROVE \A w \in Worker : main'[w] # "off" => main[w] # "off"
        <3>1. ~ \E v \in Worker : Restart(v)
            BY DEF InTime, Restart, FreshRows
        <3> QED
            BY <1>1, <2>4, <3>1 DEF Nature, PassStopTime, PassHeartbeats, Crash, Gone
    <2> QED
        BY <2>1, <2>2, <2>3, <2>4 DEF Next
<1>3. ASSUME NEW w \in Worker, main[w] # "off", wstatus[w] # "none" PROVE wstatus'[w] # "none"
    <2>1. age[w] = 0
        BY <1>3 DEF FreshRows
    <2>2. ASSUME NEW v \in Worker, NEW clean \in BOOLEAN, Heartbeat(v, clean) PROVE wstatus'[w] # "none"
        <3>1. NewAge(v)[w] = 0
            BY <2>1 DEF NewAge, FreshRows
        <3>2. w \notin Dead(v)
            BY <3>1 DEF Dead
        <3>3. NewStatus(v)[w] # "none"
            BY <1>3 DEF NewStatus, FreshRows
        <3>4. wstatus'[w] = NewStatus(v)[w]
            BY <2>2, <3>2 DEF Heartbeat
        <3> QED
            BY <3>3, <3>4
    <2>3. ASSUME NEW v \in Worker, WorkStep(v) \/ AssignStep(v) \/ HeartbeatRead(v) \/ HeartbeatDie(v)
          PROVE  wstatus' = wstatus
        BY <2>3 DEF WorkStep, PopRead, PopWrite, StartRun, Execute, Report, Exit, Gone,
           AssignStep, BeginAssign, SelectTasks, AssignTask, EndAssign, HeartbeatRead, HeartbeatDie
    <2>4. CASE AdminStep
        <3> USE WorkerAssumption DEF FreshRows
        <3>1. ASSUME NEW t \in Task, QueueTask(t) PROVE wstatus'[w] # "none"
            BY <1>3, <3>1 DEF QueueTask
        <3>2. ASSUME NEW action \in Orders, Order(action) PROVE wstatus'[w] # "none"
            <4>1. action # "none"
                OBVIOUS
            <4> QED
                BY <1>3, <3>2, <4>1 DEF Order
        <3>3. CASE StopRunning
            BY <1>3, <3>3 DEF StopRunning
        <3>4. CASE StopQueued \/ \E t \in Task : StopRead(t)
            BY <1>3, <3>4 DEF StopQueued, StopRead
        <3> QED
            BY <2>4, <3>1, <3>2, <3>3, <3>4 DEF AdminStep
    <2>5. ASSUME Nature PROVE wstatus' = wstatus
        BY <2>5 DEF Nature, PassStopTime, PassHeartbeats, Crash, Gone, Restart
    <2> QED
        BY <1>3, <2>2, <2>3, <2>4, <2>5 DEF Next, HeartbeatStep
<1> QED
    BY <1>2, <1>3 DEF Registered

LEMMA FreshStep ==
    ASSUME InTime, SchedulerInv, FreshRows, Next
    PROVE  FreshRows'
<1> USE DEF taskVars, rowVars, mainVars, sharedVars, adminVars
<1>1. wstatus' \in [Worker -> WorkerStatus]
    <2>1. ASSUME NEW v \in Worker, NEW clean \in BOOLEAN, Heartbeat(v, clean)
          PROVE  wstatus' \in [Worker -> WorkerStatus]
        BY <2>1 DEF Heartbeat, NewStatus, FreshRows, WorkerStatus
    <2>2. ASSUME NEW v \in Worker, WorkStep(v) \/ AssignStep(v) \/ HeartbeatRead(v) \/ HeartbeatDie(v)
          PROVE  wstatus' = wstatus
        BY <2>2 DEF WorkStep, PopRead, PopWrite, StartRun, Execute, Report, Exit, Gone,
           AssignStep, BeginAssign, SelectTasks, AssignTask, EndAssign, HeartbeatRead, HeartbeatDie
    <2>3. CASE AdminStep
        BY <2>3, WorkerAssumption
           DEF AdminStep, QueueTask, Order, StopRead, StopRunning, StopQueued, FreshRows, WorkerStatus
    <2>4. ASSUME Nature PROVE wstatus' = wstatus
        BY <2>4 DEF Nature, PassStopTime, PassHeartbeats, Crash, Gone, Restart
    <2> QED
        BY <2>1, <2>2, <2>3, <2>4 DEF Next, HeartbeatStep, FreshRows
<1>2. age' \in [Worker -> 0..2] /\ \A w \in Worker : age'[w] # 0 => age[w] # 0 \/ main[w] = "off"
    <2>1. ASSUME NEW v \in Worker, NEW clean \in BOOLEAN, Heartbeat(v, clean)
          PROVE  age' \in [Worker -> 0..2] /\ \A w \in Worker : age'[w] # 0 => age[w] # 0
        BY <2>1 DEF Heartbeat, NewAge, FreshRows
    <2>2. ASSUME NEW v \in Worker, WorkStep(v) \/ AssignStep(v) \/ HeartbeatRead(v) \/ HeartbeatDie(v)
          PROVE  age' = age
        BY <2>2 DEF WorkStep, PopRead, PopWrite, StartRun, Execute, Report, Exit, Gone,
           AssignStep, BeginAssign, SelectTasks, AssignTask, EndAssign, HeartbeatRead, HeartbeatDie
    <2>3. ASSUME AdminStep PROVE age' = age
        BY <2>3 DEF AdminStep, QueueTask, Order, StopRead, StopRunning, StopQueued
    <2>4. ASSUME NEW v \in Worker, PassHeartbeats(v)
          PROVE  age' \in [Worker -> 0..2] /\ \A w \in Worker : age'[w] # 0 => age[w] # 0 \/ main[w] = "off"
        BY <2>4 DEF PassHeartbeats, FreshRows, InTime
    <2>5. ASSUME (\E t \in Task : PassStopTime(t)) \/ \E w \in Worker : Crash(w) \/ Restart(w)
          PROVE  age' = age
        BY <2>5 DEF PassStopTime, Crash, Gone, Restart
    <2> QED
        BY <2>1, <2>2, <2>3, <2>4, <2>5 DEF Next, HeartbeatStep, Nature, FreshRows
<1>3. restarts' \in Nat
    <2>1. ASSUME NEW v \in Worker, WorkStep(v) \/ AssignStep(v) \/ HeartbeatStep(v)
          PROVE  restarts' = restarts
        BY <2>1 DEF WorkStep, PopRead, PopWrite, StartRun, Execute, Report, Exit,
           AssignStep, BeginAssign, SelectTasks, AssignTask, EndAssign,
           HeartbeatStep, HeartbeatRead, HeartbeatDie, Heartbeat
    <2>2. ASSUME AdminStep PROVE restarts' = restarts
        BY <2>2 DEF AdminStep, QueueTask, Order, StopRead, StopRunning, StopQueued
    <2>3. ASSUME Nature PROVE restarts' = restarts \/ restarts' = restarts + 1
        BY <2>3 DEF Nature, PassStopTime, PassHeartbeats, Crash, Restart
    <2> QED
        BY <2>1, <2>2, <2>3 DEF Next, FreshRows
<1>4. \A w \in Worker : main'[w] # "off" => age'[w] = 0
    BY <1>2, RowsOfTheLiving DEF FreshRows
<1> QED
    BY <1>1, <1>2, <1>3, <1>4 DEF FreshRows

LEMMA AssignedStep ==
    ASSUME InTime, SchedulerInv, FreshRows, AssignedKnown, HistoryNext
    PROVE  AssignedKnown'
<1> USE DEF taskVars, rowVars, mainVars, sharedVars, adminVars
<1>0. Next
    BY DEF HistoryNext
<1>1. \A w \in Worker : Registered(w) => Registered(w)'
    BY <1>0, RowsOfTheLiving
<1>2. ASSUME NEW v \in Worker, NEW w \in known'[v] PROVE w \in Worker /\ Registered(w)'
    <2>1. CASE w \in known[v]
        BY <1>1, <2>1 DEF AssignedKnown, SchedulerInv, Shape
    <2>2. CASE w \notin known[v]
        <3>1. ASSUME NEW x \in Worker, BeginAssign(x)
              PROVE  w \in Worker /\ wstatus[w] = "ACTIVE"
            BY <1>2, <2>2, <3>1 DEF BeginAssign, SchedulerInv, Shape
        <3>2. ASSUME NEW x \in Worker, WorkStep(x) \/ HeartbeatStep(x) PROVE known'[v] \subseteq known[v]
            BY <3>2 DEF WorkStep, PopRead, PopWrite, StartRun, Execute, Report, Exit, Gone,
               HeartbeatStep, HeartbeatRead, HeartbeatDie, Heartbeat, SchedulerInv, Shape
        <3>3. ASSUME NEW x \in Worker, AssignTask(x) \/ EndAssign(x) \/ \E due \in SUBSET Available : SelectTasks(x, due)
              PROVE  known'[v] \subseteq known[v]
            BY <3>3 DEF AssignTask, EndAssign, SelectTasks, SchedulerInv, Shape
        <3>4. ASSUME AdminStep \/ Nature PROVE known'[v] \subseteq known[v]
            BY <3>4 DEF AdminStep, QueueTask, Order, StopRead, StopRunning, StopQueued,
               Nature, PassStopTime, PassHeartbeats, Crash, Gone, Restart, SchedulerInv, Shape
        <3>5. \E x \in Worker : BeginAssign(x)
            BY <1>0, <1>2, <2>2, <3>2, <3>3, <3>4 DEF Next, AssignStep
        <3>6. Registered(w) /\ w \in Worker
            BY <3>1, <3>5 DEF Registered
        <3> QED
            BY <1>1, <3>6
    <2> QED
        BY <2>1, <2>2
<1>3. ASSUME NEW w \in Worker, NEW t \in Task, status'[t] = "ASSIGNED", owner'[t] = w
      PROVE  Registered(w)'
    <2>1. CASE status[t] = "ASSIGNED" /\ owner[t] = w
        BY <1>1, <2>1 DEF AssignedKnown
    <2>2. CASE ~(status[t] = "ASSIGNED" /\ owner[t] = w)
        <3>1. ASSUME NEW x \in Worker, AssignTask(x) PROVE \E v \in Worker : w \in known[v]
            BY <1>3, <2>2, <3>1 DEF AssignTask, SchedulerInv, Shape
        <3>2. ~ \E x \in Worker : WorkStep(x)
            <4>1. ASSUME NEW x \in Worker, PopRead(x) \/ StartRun(x) \/ Execute(x) \/ Exit(x) PROVE FALSE
                BY <1>3, <2>2, <4>1 DEF PopRead, StartRun, Execute, Exit, Gone
            <4>2. ASSUME NEW x \in Worker, PopWrite(x) PROVE FALSE
                BY <1>3, <2>2, <4>2 DEF PopWrite, SchedulerInv, Shape
            <4>3. ASSUME NEW x \in Worker, Report(x) PROVE FALSE
                <5>1. StatusAfter(x) # "ASSIGNED"
                    BY DEF StatusAfter
                <5> QED
                    BY <1>3, <2>2, <4>3, <5>1 DEF Report, SchedulerInv, Shape
            <4> QED
                BY <4>1, <4>2, <4>3 DEF WorkStep
        <3>3. ~ \E x \in Worker : HeartbeatStep(x)
            BY <1>3, <2>2 DEF HeartbeatStep, HeartbeatRead, HeartbeatDie, Heartbeat
        <3>4. ~ \E x \in Worker : BeginAssign(x) \/ EndAssign(x) \/ \E due \in SUBSET Available : SelectTasks(x, due)
            BY <1>3, <2>2 DEF BeginAssign, EndAssign, SelectTasks
        <3>5. ~ AdminStep
            BY <1>3, <2>2 DEF AdminStep, QueueTask, Order, StopRead, StopRunning, StopQueued, SchedulerInv, Shape
        <3>6. ~ Nature
            BY <1>3, <2>2 DEF Nature, PassStopTime, PassHeartbeats, Crash, Gone, Restart
        <3>7. \E x \in Worker : AssignTask(x)
            BY <1>0, <3>2, <3>3, <3>4, <3>5, <3>6 DEF Next, AssignStep
        <3> QED
            BY <1>1, <3>1, <3>7 DEF AssignedKnown
    <2> QED
        BY <2>1, <2>2
<1>4. ASSUME NEW w \in Worker, main'[w] \in Working PROVE Registered(w)'
    <2>1. CASE main[w] \in Working
        BY <1>1, <2>1 DEF AssignedKnown
    <2>2. CASE main[w] \notin Working
        <3>1. CASE PopRead(w)
            BY <1>1, <3>1 DEF PopRead, AssignedKnown
        <3>2. ASSUME NEW x \in Worker, x # w, WorkStep(x) PROVE main'[w] = main[w]
            BY <3>2 DEF WorkStep, PopRead, PopWrite, StartRun, Execute, Report, Exit, Gone, SchedulerInv, Shape
        <3>3. ~ (PopWrite(w) \/ StartRun(w) \/ Execute(w) \/ Report(w) \/ Exit(w))
            BY <1>4, <2>2 DEF PopWrite, StartRun, Execute, Report, Exit, Gone, SchedulerInv, Shape, Working
        <3>4. ~ \E x \in Worker : AssignStep(x)
            BY <1>4, <2>2 DEF AssignStep, BeginAssign, SelectTasks, AssignTask, EndAssign, SchedulerInv, Shape, Working
        <3>5. ASSUME (\E x \in Worker : HeartbeatStep(x)) \/ AdminStep PROVE main' = main
            BY <3>5 DEF HeartbeatStep, HeartbeatRead, HeartbeatDie, Heartbeat,
               AdminStep, QueueTask, Order, StopRead, StopRunning, StopQueued
        <3>6. ~ Nature
            BY <1>4, <2>2 DEF Nature, PassStopTime, PassHeartbeats, Crash, Gone, Restart, SchedulerInv, Shape, Working
        <3>7. PopRead(w)
            BY <1>0, <1>4, <2>2, <3>2, <3>3, <3>4, <3>5, <3>6 DEF Next, WorkStep
        <3> QED
            BY <3>1, <3>7
    <2> QED
        BY <2>1, <2>2
<1> QED
    BY <1>2, <1>3, <1>4 DEF AssignedKnown

\* Whose hands a task is in.
InHands(t) ==
    /\ owner[t] \in Worker
    /\ Holds(owner[t], t) \/ (main[owner[t]] = "off" /\ wstatus[owner[t]] # "none")

Recovery == \A t \in Task \ raced : status[t] = "RUNNING" => InHands(t)

\* A step that leaves RUNNING tasks to their holders and rows where they are.
LEMMA KeepHands ==
    ASSUME InTime, SchedulerInv, FreshRows, Recovery, HistoryNext,
           NEW t \in Task, t \notin raced', status[t] = "RUNNING", owner'[t] = owner[t],
           NEW w \in Worker, w = owner[t],
           wstatus[w] # "none" => wstatus'[w] # "none",
           Holds(w, t) => Holds(w, t)'
    PROVE  InHands(t)'
<1>1. InHands(t)
    BY RacedGrows DEF Recovery
<1>2. main[w] = "off" => main'[w] = "off"
    BY RowsOfTheLiving DEF HistoryNext
<1> QED
    BY <1>1, <1>2 DEF InHands

LEMMA RecoveryStep ==
    ASSUME InTime, SchedulerInv, FreshRows, AssignedKnown, Recovery, HistoryNext
    PROVE  Recovery'
<1> SUFFICES ASSUME NEW t \in Task, t \notin raced', status'[t] = "RUNNING" PROVE InHands(t)'
    BY DEF Recovery
<1> USE DEF taskVars, rowVars, mainVars, sharedVars, adminVars
<1> DEFINE o == owner[t]
<1>0. t \notin raced /\ ~StaleMark(t) /\ Next
    BY RacedGrows DEF HistoryNext
<1>1. /\ status \in [Task -> TaskStatus] /\ owner \in [Task -> Worker \cup {Nobody}]
      /\ main \in [Worker -> {"off", "loop", "select", "assign"} \cup Working]
      /\ job = [w \in Worker |-> job[w]]
    BY DEF SchedulerInv, Shape
<1>2. status[t] = "RUNNING" => o \in Worker
    BY <1>0 DEF Recovery, InHands
<1>3. ASSUME NEW w \in Worker, PopWrite(w) PROVE InHands(t)'
    <2>1. main[w] = "popped" /\ main'[w] = "marked" /\ job' = job /\ UNCHANGED <<owner, wstatus>>
        BY <1>1, <1>3 DEF PopWrite
    <2>2. CASE job[w].task = t
        <3>1. owner[t] = w
            BY <1>0, <2>1, <2>2 DEF StaleMark
        <3> QED
            BY <2>1, <2>2, <3>1 DEF InHands, Holds
    <2>3. CASE job[w].task # t
        <3>1. status[t] = "RUNNING"
            BY <1>1, <1>3, <2>3 DEF PopWrite
        <3>2. Holds(o, t) => Holds(o, t)'
            BY <1>1, <1>2, <1>3, <2>1, <2>3, <3>1 DEF PopWrite, Holds
        <3> QED
            BY <1>2, <2>1, <3>1, <3>2, KeepHands
    <2> QED
        BY <2>2, <2>3
<1>4. ASSUME NEW w \in Worker, PopRead(w) \/ StartRun(w) \/ Execute(w) \/ Exit(w) PROVE InHands(t)'
    <2>1. status' = status /\ owner' = owner /\ wstatus' = wstatus
        BY <1>4 DEF PopRead, StartRun, Execute, Exit, Gone
    <2>2. \A x \in Worker : x # w => main'[x] = main[x] /\ job'[x] = job[x]
        BY <1>1, <1>4 DEF PopRead, StartRun, Execute, Exit, Gone
    <2>3. Holds(w, t) => Holds(w, t)'
        <3>1. CASE PopRead(w) \/ Exit(w)
            BY <3>1 DEF PopRead, Looping, Exit, Holds
        <3>2. CASE StartRun(w)
            BY <1>1, <3>2 DEF StartRun, Holds
        <3>3. CASE Execute(w)
            BY <3>3 DEF Execute, Holds
        <3> QED
            BY <1>4, <3>1, <3>2, <3>3
    <2>4. Holds(o, t) => Holds(o, t)'
        BY <1>2, <2>1, <2>2, <2>3 DEF Holds
    <2> QED
        BY <1>2, <2>1, <2>4, KeepHands
<1>5. ASSUME NEW w \in Worker, Report(w) PROVE InHands(t)'
    <2>1. StatusAfter(w) # "RUNNING"
        BY DEF StatusAfter
    <2>2. t # job[w].task /\ status[t] = "RUNNING" /\ UNCHANGED <<owner, wstatus>>
        BY <1>1, <1>5, <2>1 DEF Report
    <2>3. Holds(o, t) => Holds(o, t)'
        BY <1>1, <1>2, <1>5, <2>2 DEF Report, Holds
    <2> QED
        BY <1>2, <2>2, <2>3, KeepHands
<1>6. ASSUME NEW w \in Worker, AssignStep(w) PROVE InHands(t)'
    <2>1. status[t] = "RUNNING" /\ owner'[t] = owner[t]
        <3>1. CASE BeginAssign(w)
            BY <1>1, <3>1 DEF BeginAssign
        <3>2. CASE EndAssign(w) \/ \E due \in SUBSET Available : SelectTasks(w, due)
            BY <3>2 DEF EndAssign, SelectTasks
        <3>3. CASE AssignTask(w)
            <4>1. PICK u \in todo[w], x \in known[w] :
                     /\ status' = IF status[u] \in Open THEN [status EXCEPT ![u] = "ASSIGNED"] ELSE status
                     /\ owner' = IF status[u] \in Open THEN [owner EXCEPT ![u] = x] ELSE owner
                BY <3>3 DEF AssignTask
            <4> QED
                BY <1>1, <4>1 DEF Open
        <3> QED
            BY <1>6, <3>1, <3>2, <3>3 DEF AssignStep
    <2>2. wstatus' = wstatus /\ job' = job
        BY <1>6 DEF AssignStep, BeginAssign, SelectTasks, AssignTask, EndAssign
    <2>3. Holds(o, t) => Holds(o, t)'
        <3>1. main[w] \notin {"marked", "running"}
            BY <1>6 DEF AssignStep, BeginAssign, Looping, SelectTasks, AssignTask, EndAssign
        <3>2. \A x \in Worker : x # w => main'[x] = main[x]
            BY <1>1, <1>6 DEF AssignStep, BeginAssign, SelectTasks, AssignTask, EndAssign
        <3> QED
            BY <1>2, <2>1, <2>2, <3>1, <3>2 DEF Holds
    <2> QED
        BY <1>2, <2>1, <2>2, <2>3, KeepHands
<1>7. ASSUME NEW w \in Worker, HeartbeatRead(w) \/ HeartbeatDie(w) PROVE InHands(t)'
    <2>1. UNCHANGED <<status, owner, wstatus, main, job>>
        BY <1>7 DEF HeartbeatRead, HeartbeatDie
    <2> QED
        BY <1>2, <2>1, KeepHands DEF Holds
<1>8. ASSUME NEW w \in Worker, NEW clean \in BOOLEAN, Heartbeat(w, clean) PROVE InHands(t)'
    <2>1. main' = main /\ job' = job
        BY <1>8 DEF Heartbeat
    <2>2. status[t] = "RUNNING" /\ owner'[t] = owner[t] /\ (clean => t \notin Freed(w))
        BY <1>8 DEF Heartbeat
    <2>3. clean => o \notin Dead(w)
        BY <2>2 DEF Freed
    <2>4. wstatus'[o] = NewStatus(w)[o]
        BY <1>2, <1>8, <2>2, <2>3 DEF Heartbeat
    <2>5. wstatus[o] # "none" => NewStatus(w)[o] # "none"
        BY <1>2, <2>2 DEF NewStatus, FreshRows
    <2> QED
        BY <1>2, <2>1, <2>2, <2>4, <2>5, KeepHands DEF Holds
<1>9. CASE AdminStep
    <2>1. UNCHANGED <<owner, main, job>>
        BY <1>9 DEF AdminStep, QueueTask, Order, StopRead, StopRunning, StopQueued
    <2>2. status[t] = "RUNNING"
        BY <1>1, <1>9 DEF AdminStep, QueueTask, Order, StopRead, StopRunning, StopQueued
    <2>3. wstatus[o] # "none" => wstatus'[o] # "none"
        <3> USE WorkerAssumption DEF FreshRows
        <3>1. ASSUME NEW u \in Task, QueueTask(u) PROVE wstatus[o] # "none" => wstatus'[o] # "none"
            BY <1>2, <2>2, <3>1 DEF QueueTask
        <3>2. ASSUME NEW action \in Orders, Order(action) PROVE wstatus[o] # "none" => wstatus'[o] # "none"
            <4>1. action # "none"
                OBVIOUS
            <4> QED
                BY <1>2, <2>2, <3>2, <4>1 DEF Order
        <3>3. CASE StopRunning
            BY <1>2, <2>2, <3>3 DEF StopRunning
        <3>4. CASE StopQueued \/ \E u \in Task : StopRead(u)
            BY <3>4 DEF StopQueued, StopRead
        <3> QED
            BY <1>9, <3>1, <3>2, <3>3, <3>4 DEF AdminStep
    <2> QED
        BY <1>2, <2>1, <2>2, <2>3, KeepHands DEF Holds
<1>10. CASE Nature
    <2>1. UNCHANGED <<status, owner, wstatus>>
        BY <1>10 DEF Nature, PassStopTime, PassHeartbeats, Crash, Gone, Restart
    <2>2. CASE \/ \E u \in Task : PassStopTime(u)
               \/ \E w \in Worker : PassHeartbeats(w) \/ Restart(w)
        <3>1. job' = job /\ \A x \in Worker : main[x] # "off" => main'[x] = main[x]
            BY <1>1, <2>2 DEF PassStopTime, PassHeartbeats, Restart
        <3> QED
            BY <1>2, <2>1, <3>1, KeepHands DEF Holds
    <2>3. ASSUME NEW w \in Worker, Crash(w) PROVE InHands(t)'
        <3>1. main'[w] = "off" /\ \A x \in Worker : x # w => main'[x] = main[x] /\ job'[x] = job[x]
            BY <1>1, <2>3 DEF Crash, Gone
        <3>2. CASE w = o
            <4>1. wstatus[w] # "none"
                <5>1. CASE Holds(w, t)
                    BY <5>1 DEF Holds, AssignedKnown, Registered, Working
                <5>2. CASE ~Holds(w, t)
                    BY <1>0, <2>1, <3>2, <5>2 DEF Recovery, InHands
                <5> QED
                    BY <5>1, <5>2
            <4> QED
                BY <2>1, <3>1, <3>2, <4>1 DEF InHands
        <3>3. CASE w # o
            BY <1>2, <2>1, <3>1, <3>3, KeepHands DEF Holds
        <3> QED
            BY <3>2, <3>3
    <2> QED
        BY <1>10, <2>2, <2>3 DEF Nature
<1> QED
    BY <1>0, <1>3, <1>4, <1>5, <1>6, <1>7, <1>8, <1>9, <1>10 DEF Next, WorkStep, HeartbeatStep

RecoverInv == SchedulerInv /\ FreshRows /\ AssignedKnown /\ Recovery

LEMMA InitialRecoverInv == HistoryInit => RecoverInv
<1> SUFFICES ASSUME HistoryInit PROVE RecoverInv
    OBVIOUS
<1>1. SchedulerInv
    BY InitialInv
<1>2. FreshRows /\ AssignedKnown /\ Recovery
    BY DEF HistoryInit, Init, FreshRows, AssignedKnown, Recovery, Working, WorkerStatus
<1> QED
    BY <1>1, <1>2 DEF RecoverInv

LEMMA RecoverInvStep == InTime /\ RecoverInv /\ [HistoryNext]_vars => RecoverInv'
<1>1. SchedulerInv /\ [HistoryNext]_vars => SchedulerInv'
    BY ShapeStep, HeldStep, VisitedStep, ReadyStep, StutterKeeps DEF SchedulerInv
<1>2. InTime /\ RecoverInv /\ HistoryNext => FreshRows' /\ AssignedKnown' /\ Recovery'
    BY FreshStep, AssignedStep, RecoveryStep DEF RecoverInv, HistoryNext
<1>3. RecoverInv /\ UNCHANGED vars => FreshRows' /\ AssignedKnown' /\ Recovery'
    BY DEF RecoverInv, FreshRows, AssignedKnown, Recovery, InHands, Registered, Holds, vars,
       schedulerVars, taskVars, rowVars, mainVars, adminVars
<1> QED
    BY <1>1, <1>2, <1>3 DEF RecoverInv

\* Where heartbeats are in time and no worker takes the name of one that crashed (the default
\* name is the host and the process id), a RUNNING task is never left without a worker, or a row by
\* which others find that its worker is dead (pop_task, execute, send_heartbeat).
THEOREM RunningIsRecoverable == InTime => (HistorySpec => []Recoverable)
<1> SUFFICES ASSUME InTime PROVE HistorySpec => []Recoverable
    OBVIOUS
<1>1. RecoverInv /\ [HistoryNext]_vars => RecoverInv'
    BY RecoverInvStep
<1>2. RecoverInv => Recoverable
    BY DEF RecoverInv, Recovery, InHands, Recoverable
<1> QED
    BY <1>1, <1>2, InitialRecoverInv, PTL DEF HistorySpec

=============================================================================
