------------------------------ MODULE Scheduler ------------------------------
(***************************************************************************)
(* The task scheduler of gluon/scheduler.py.  Each worker is a process     *)
(* with two threads: the main thread (Scheduler.loop) pops a task that is  *)
(* assigned to the worker, runs it in a child process and reports; the     *)
(* heartbeat thread (send_heartbeat) keeps the worker's row alive, obeys   *)
(* what others wrote into it, removes dead workers and elects the ticker,  *)
(* whose main thread assigns tasks.  All they share is the database.       *)
(*                                                                         *)
(* A step is a SELECT, or a transaction from its first write to its commit *)
(* (SQLite, which the tests use, lets no one else write in between).  What *)
(* a thread read before may be stale by then.  Clocks are left to choice:  *)
(* a row ages while its worker sends no heartbeat, a stop_time passes, and *)
(* any of the tasks that could be assigned may be the ones whose           *)
(* next_run_time has come.                                                 *)
(*                                                                         *)
(* Left out: errors of the database (the wrappers try again), child        *)
(* processes that die without a result, broadcast tasks, groups (all       *)
(* workers serve one), max_empty_runs, and the limit of fifty tasks per    *)
(* worker with the greedy loop that goes with it.                          *)
(***************************************************************************)
EXTENDS Integers, Sequences, FiniteSets

CONSTANTS
    Task,          \* tasks that are queued at some time
    Worker,        \* names of workers
    Nobody,        \* assigned_worker_name = ''
    Repeats,       \* per task, how often to run it (0: unlimited)
    RetryFailed,   \* per task, how often to retry it (-1: unlimited)
    Limited,       \* the tasks with a stop_time
    Immediate,     \* the tasks that are queued with immediate=True
    Deps,          \* scheduler_task_deps: pairs of a task_parent and a task_child
    Slow,          \* the workers whose heartbeats may be late
    Orders,        \* what administrators order workers to do
    MaxOrders,     \* bound on the number of orders, stop_task included
    Mortal,        \* the workers that may crash
    MaxRestarts,   \* bound on the workers started again under their old name
    MaxRuns        \* bound on the rows of scheduler_run

ASSUME TaskAssumption ==
    /\ Repeats \in [Task -> Nat]
    /\ RetryFailed \in [Task -> Nat \cup {-1}]
    /\ Limited \subseteq Task /\ Immediate \subseteq Task
    /\ Deps \subseteq Task \X Task
ASSUME WorkerAssumption ==
    /\ Nobody \notin Worker
    /\ Slow \subseteq Worker /\ Mortal \subseteq Worker
    /\ Orders \subseteq {"ACTIVE", "DISABLED", "TERMINATE", "KILL"}
ASSUME BoundAssumption ==
    MaxOrders \in Nat /\ MaxRestarts \in Nat /\ MaxRuns \in Nat

VARIABLES
    (* scheduler_task, by column *)
    status, owner, times_run, times_failed,
    stop,             \* stop_time, or that stop_task disabled the task
    (* scheduler_task_deps and scheduler_run *)
    visited,          \* the rows with can_visit = True
    runs,
    (* scheduler_worker, by column *)
    wstatus,          \* "none" for no row
    is_ticker,
    busy,             \* worker_stats['status'] == 'RUNNING'
    age,              \* how old last_heartbeat is: fresh, over 3 heartbeats, over 45
    (* the main thread of each worker *)
    main,             \* where it is
    job,              \* the task it popped, as it read it
    result,           \* how the child process ended
    known, todo,      \* assign_tasks: the workers, and the tasks still to assign
    (* the heartbeat thread *)
    beat,             \* the status it read in its row
    (* shared by the two threads *)
    have_heartbeat,
    mode,             \* w_stats.status
    is_a_ticker, do_assign_tasks,
    (* an administrator in stop_task, and what happened so far *)
    stopper, orders, restarts

taskVars == <<status, owner, times_run, times_failed, stop, visited, runs>>
rowVars == <<wstatus, is_ticker, busy, age>>
mainVars == <<main, job, result, known, todo>>
sharedVars == <<have_heartbeat, mode, is_a_ticker, do_assign_tasks>>
adminVars == <<stopper, orders, restarts>>
schedulerVars == <<taskVars, rowVars, mainVars, beat, sharedVars, adminVars>>

Open == {"QUEUED", "ASSIGNED"}
Final == {"COMPLETED", "FAILED", "TIMEOUT", "EXPIRED"}
TaskStatus == {"none", "RUNNING", "STOPPED"} \cup Open \cup Final
RunStatus == {"RUNNING", "COMPLETED", "FAILED", "TIMEOUT", "STOPPED"}
WorkerStatus == {"none", "ACTIVE", "PICK", "DISABLED", "TERMINATE", "KILL", "STOP_TASK"}
Mode == {"RUNNING", "ACTIVE", "DISABLED", "TERMINATE", "KILL"}

NoJob == [run |-> 0]
Job == [task : Task, times_run : Nat, times_failed : Nat, late : BOOLEAN, run : Nat]
NoResult == "none"
NoStop == [status |-> "none"]

-----------------------------------------------------------------------------
(* The main thread: looking for work. *)

\* The worker w goes round its loop and is not put to sleep.
Looping(w) == main[w] = "loop" /\ have_heartbeat[w] /\ mode[w] # "DISABLED"

\* The ticker assigns tasks first, every fifth heartbeat.
MustAssign(w) == is_a_ticker[w] /\ do_assign_tasks[w]

\* pop_task reads the first task that is assigned to w.  (In the order of next_run_time:
\* any of them.)  Whether the run after this one would be past the stop_time is known from
\* here on.
PopRead(w) ==
    /\ Looping(w)
    /\ ~MustAssign(w)
    /\ Len(runs) + Cardinality({x \in Worker : main[x] \in {"popped", "marked"}}) < MaxRuns
    /\ \E t \in Task, late \in BOOLEAN :
          /\ status[t] = "ASSIGNED"
          /\ owner[t] = w
          /\ stop[t] # "ahead" => late = (stop[t] # "never")
          /\ job' = [job EXCEPT ![w] = [task |-> t, times_run |-> times_run[t] + 1,
                                        times_failed |-> times_failed[t], late |-> late, run |-> 0]]
    /\ main' = [main EXCEPT ![w] = "popped"]
    /\ UNCHANGED <<taskVars, rowVars, result, known, todo, beat, sharedVars, adminVars>>

\* "noone will touch my task!": it is marked by its id alone.
PopWrite(w) ==
    /\ main[w] = "popped"
    /\ status' = [status EXCEPT ![job[w].task] = "RUNNING"]
    /\ main' = [main EXCEPT ![w] = "marked"]
    /\ UNCHANGED <<owner, times_run, times_failed, stop, visited, runs, rowVars, job, result,
                   known, todo, beat, sharedVars, adminVars>>

\* The row of the run is inserted, and the child process starts.
StartRun(w) ==
    /\ main[w] = "marked"
    /\ runs' = Append(runs, [task |-> job[w].task, worker |-> w, status |-> "RUNNING"])
    /\ job' = [job EXCEPT ![w] = [task |-> job[w].task, times_run |-> job[w].times_run,
                                  times_failed |-> job[w].times_failed, late |-> job[w].late,
                                  run |-> Len(runs) + 1]]
    /\ main' = [main EXCEPT ![w] = "running"]
    /\ result' = [result EXCEPT ![w] = NoResult]
    /\ mode' = [mode EXCEPT ![w] = "RUNNING"]
    /\ UNCHANGED <<status, owner, times_run, times_failed, stop, visited, rowVars, known, todo,
                   beat, have_heartbeat, is_a_ticker, do_assign_tasks, adminVars>>

\* local_async: the child process ends by itself or runs out of time.
Execute(w) ==
    /\ main[w] = "running"
    /\ result[w] = NoResult
    /\ \E how \in {"COMPLETED", "FAILED", "TIMEOUT"} : result' = [result EXCEPT ![w] = how]
    /\ UNCHANGED <<taskVars, rowVars, main, job, known, todo, beat, sharedVars, adminVars>>

\* Slip: one run too many.
SlipStatusAfter(w) ==
    LET j == job[w]
        again == Repeats[j.task] = 0 \/ j.times_run <= Repeats[j.task]
        retry == RetryFailed[j.task] = -1 \/ j.times_failed < RetryFailed[j.task]
    IN  IF result[w] = "COMPLETED"
        THEN IF ~again THEN "COMPLETED" ELSE IF j.late THEN "EXPIRED" ELSE "QUEUED"
        ELSE IF retry THEN "QUEUED" ELSE IF result[w] = "TIMEOUT" THEN "TIMEOUT" ELSE "FAILED"

\* What becomes of a task that was run, from what w read when it popped it.
StatusAfter(w) ==
    LET j == job[w]
        again == Repeats[j.task] = 0 \/ j.times_run < Repeats[j.task]
        retry == RetryFailed[j.task] = -1 \/ j.times_failed < RetryFailed[j.task]
    IN  IF result[w] = "COMPLETED"
        THEN IF ~again THEN "COMPLETED" ELSE IF j.late THEN "EXPIRED" ELSE "QUEUED"
        ELSE IF retry THEN "QUEUED" ELSE IF result[w] = "TIMEOUT" THEN "TIMEOUT" ELSE "FAILED"

\* Slip: visited after the first of several runs.
SlipNowVisited(w) ==
    IF result[w] = "COMPLETED" THEN {d \in Deps : d[2] = job[w].task} ELSE {}

\* The dependencies that are visited when w reports.
NowVisited(w) ==
    IF StatusAfter(w) = "COMPLETED" THEN {d \in Deps : d[2] = job[w].task} ELSE {}

\* report_task: the run, the task (by its id) and the tasks that waited for it.  (The row of
\* a run that returned nothing is kept here; the code deletes it.)
Report(w) ==
    LET t == job[w].task
        done == result[w] = "COMPLETED"
    IN  /\ main[w] = "running"
        /\ result[w] # NoResult
        /\ runs' = [runs EXCEPT ![job[w].run] = [task |-> t, worker |-> w, status |-> result[w]]]
        /\ status' = [status EXCEPT ![t] = StatusAfter(w)]
        /\ times_run' = IF done THEN [times_run EXCEPT ![t] = job[w].times_run] ELSE times_run
        /\ times_failed' = [times_failed EXCEPT ![t] = IF done THEN 0 ELSE @ + 1]
        /\ visited' = visited \cup NowVisited(w)
        /\ main' = [main EXCEPT ![w] = "loop"]
        /\ job' = [job EXCEPT ![w] = NoJob]
        /\ result' = [result EXCEPT ![w] = NoResult]
        /\ mode' = [mode EXCEPT ![w] = IF @ = "DISABLED" THEN @ ELSE "ACTIVE"]
        /\ UNCHANGED <<owner, stop, rowVars, known, todo, beat, have_heartbeat, is_a_ticker,
                       do_assign_tasks, adminVars>>

\* The process of w is gone, with all it had in memory.
Gone(w) ==
    /\ main' = [main EXCEPT ![w] = "off"]
    /\ job' = [job EXCEPT ![w] = NoJob]
    /\ result' = [result EXCEPT ![w] = NoResult]
    /\ known' = [known EXCEPT ![w] = {}]
    /\ todo' = [todo EXCEPT ![w] = {}]
    /\ beat' = [beat EXCEPT ![w] = "idle"]
    /\ have_heartbeat' = [have_heartbeat EXCEPT ![w] = FALSE]
    /\ mode' = [mode EXCEPT ![w] = "RUNNING"]
    /\ is_a_ticker' = [is_a_ticker EXCEPT ![w] = FALSE]
    /\ do_assign_tasks' = [do_assign_tasks EXCEPT ![w] = FALSE]
    /\ UNCHANGED <<taskVars, rowVars>>

\* The loop ends, and the heartbeats with it; the row stays.
Exit(w) ==
    /\ main[w] = "loop"
    /\ ~have_heartbeat[w]
    /\ beat[w] = "idle"
    /\ Gone(w)
    /\ UNCHANGED adminVars

-----------------------------------------------------------------------------
(* The main thread of the ticker: assign_tasks. *)

\* Slip: whatever became of the task.
SlipOverdue == {t \in Task : status[t] # "none" /\ stop[t] \in {"past", "disabled"}}

\* The tasks that expire before they are run.
Overdue == {t \in Task : status[t] \in Open /\ stop[t] \in {"past", "disabled"}}

\* The workers that were not busy at their last heartbeat are read, and the tasks past their
\* stop_time expire.  (Two statements; the first is stale soon anyway.)
BeginAssign(w) ==
    /\ Looping(w)
    /\ MustAssign(w)
    /\ known' = [known EXCEPT ![w] = {x \in Worker : wstatus[x] = "ACTIVE" /\ ~busy[x]}]
    /\ status' = [t \in Task |-> IF t \in Overdue THEN "EXPIRED" ELSE status[t]]
    /\ main' = [main EXCEPT ![w] = "select"]
    /\ UNCHANGED <<owner, times_run, times_failed, stop, visited, runs, rowVars, job, result,
                   todo, beat, sharedVars, adminVars>>

\* A task waits until the rows that have it as parent are visited.
Ready(t) == \A d \in Deps : d[1] = t => d \in visited
Available == {t \in Task : status[t] \in Open /\ stop[t] # "disabled" /\ Ready(t)}

SelectTasks(w, due) ==
    /\ main[w] = "select"
    /\ due \subseteq Available
    /\ todo' = [todo EXCEPT ![w] = IF known[w] = {} THEN {} ELSE due]
    /\ main' = [main EXCEPT ![w] = "assign"]
    /\ UNCHANGED <<taskVars, rowVars, job, result, known, beat, sharedVars, adminVars>>

\* Slip: the task is given away by its id alone.
SlipAssignTask(w) ==
    /\ main[w] = "assign"
    /\ \E t \in todo[w], x \in known[w] :
          /\ todo' = [todo EXCEPT ![w] = @ \ {t}]
          /\ status' = [status EXCEPT ![t] = "ASSIGNED"]
          /\ owner' = [owner EXCEPT ![t] = x]
    /\ UNCHANGED <<times_run, times_failed, stop, visited, runs, rowVars, main, job, result,
                   known, beat, sharedVars, adminVars>>

\* One task is given to one of the workers, unless it was popped meanwhile.  (Which worker:
\* the code deals them out evenly.)
AssignTask(w) ==
    /\ main[w] = "assign"
    /\ \E t \in todo[w], x \in known[w] :
          /\ todo' = [todo EXCEPT ![w] = @ \ {t}]
          /\ status' = IF status[t] \in Open THEN [status EXCEPT ![t] = "ASSIGNED"] ELSE status
          /\ owner' = IF status[t] \in Open THEN [owner EXCEPT ![t] = x] ELSE owner
    /\ UNCHANGED <<times_run, times_failed, stop, visited, runs, rowVars, main, job, result,
                   known, beat, sharedVars, adminVars>>

EndAssign(w) ==
    /\ main[w] = "assign"
    /\ todo[w] = {}
    /\ main' = [main EXCEPT ![w] = "loop"]
    /\ known' = [known EXCEPT ![w] = {}]
    /\ UNCHANGED <<taskVars, rowVars, job, result, todo, beat, sharedVars, adminVars>>

-----------------------------------------------------------------------------
(* The heartbeat thread. *)

\* send_heartbeat reads the worker's own row.
HeartbeatRead(w) ==
    /\ main[w] # "off"
    /\ have_heartbeat[w]
    /\ beat[w] = "idle"
    /\ beat' = [beat EXCEPT ![w] = wstatus[w]]
    /\ UNCHANGED <<taskVars, rowVars, mainVars, sharedVars, adminVars>>

\* terminate_process: the child of w is killed, if there is one.
Terminated(w) == [result EXCEPT ![w] = IF main[w] = "running" /\ @ = NoResult THEN "STOPPED" ELSE @]

\* KILL: die() and nothing else.
HeartbeatDie(w) ==
    /\ beat[w] = "KILL"
    /\ beat' = [beat EXCEPT ![w] = "idle"]
    /\ mode' = [mode EXCEPT ![w] = "KILL"]
    /\ have_heartbeat' = [have_heartbeat EXCEPT ![w] = FALSE]
    /\ result' = Terminated(w)
    /\ UNCHANGED <<taskVars, rowVars, main, job, known, todo, is_a_ticker, do_assign_tasks, adminVars>>

\* w_stats.status after the heartbeat has dealt with what it read.
NewMode(w) ==
    IF beat[w] \in {"DISABLED", "TERMINATE"} THEN beat[w]
    ELSE IF beat[w] # "none" /\ mode[w] = "RUNNING" THEN "RUNNING"
    ELSE "ACTIVE"

\* The heartbeat is recorded: the row is inserted, or updated if it is still there.
Recorded(w) == beat[w] = "none" \/ (beat[w] # "TERMINATE" /\ wstatus[w] # "none")
NewStatus(w) ==
    IF Recorded(w) /\ beat[w] # "DISABLED" THEN [wstatus EXCEPT ![w] = "ACTIVE"] ELSE wstatus
NewAge(w) == IF Recorded(w) THEN [age EXCEPT ![w] = 0] ELSE age

\* The rows that count as dead to w, which has just recorded its own heartbeat.
Dead(w) ==
    {x \in Worker : \/ NewStatus(w)[x] = "ACTIVE" /\ NewAge(w)[x] > 0
                    \/ NewStatus(w)[x] # "none" /\ NewAge(w)[x] > 1}

\* Slip: the worker's own row counts as a rival.
SlipRivals(w) == {x \in Worker \ Dead(w) : NewStatus(w)[x] = "ACTIVE"}

\* being_a_ticker, with the rows that are left.
Rivals(w) == {x \in Worker \ ({w} \cup Dead(w)) : NewStatus(w)[x] = "ACTIVE"}
Elected(w) == NewMode(w) = "ACTIVE" /\ \A x \in Rivals(w) : ~is_ticker[x]
Alone(w) == Rivals(w) = {}

\* Slip: the tasks that wait for the dead instead of those they run.
SlipFreedWaiting(w) == {t \in Task : owner[t] \in Dead(w) /\ status[t] = "ASSIGNED"}

\* Slip: all tasks the dead ever had.
SlipFreedAll(w) == {t \in Task : owner[t] \in Dead(w)}

\* The tasks of the dead, which are queued again.
Freed(w) == {t \in Task : owner[t] \in Dead(w) /\ status[t] = "RUNNING"}

\* Slip: the winner does not take the title from the others.
SlipTickers(w) ==
    IF Elected(w) THEN [is_ticker EXCEPT ![w] = TRUE]
    ELSE IF Alone(w) \/ \E x \in Rivals(w) : is_ticker[x] THEN is_ticker
    ELSE [is_ticker EXCEPT ![w] = FALSE]

\* The rows with is_ticker after an election.
Tickers(w) ==
    IF Elected(w) THEN [x \in Worker |-> x = w]
    ELSE IF Alone(w) \/ \E x \in Rivals(w) : is_ticker[x] THEN is_ticker
    ELSE [is_ticker EXCEPT ![w] = FALSE]

\* Record, and every fifth time, or when asked to (PICK), clean up and elect a ticker.
Heartbeat(w, clean) ==
    LET dead == IF clean THEN Dead(w) ELSE {}
        freed == IF clean THEN Freed(w) ELSE {}
    IN  /\ beat[w] \notin {"idle", "KILL"}
        /\ beat[w] = "PICK" => clean
        /\ beat' = [beat EXCEPT ![w] = "idle"]
        /\ mode' = [mode EXCEPT ![w] = NewMode(w)]
        /\ have_heartbeat' = [have_heartbeat EXCEPT ![w] = beat[w] # "TERMINATE"]
        /\ result' = IF beat[w] = "STOP_TASK" THEN Terminated(w) ELSE result
        /\ wstatus' = [x \in Worker |-> IF x \in dead THEN "none" ELSE NewStatus(w)[x]]
        /\ age' = [x \in Worker |-> IF x \in dead THEN 0 ELSE NewAge(w)[x]]
        /\ busy' = [x \in Worker |->
              x \notin dead /\ IF x = w /\ Recorded(w) THEN mode[w] = "RUNNING" ELSE busy[x]]
        /\ status' = [t \in Task |-> IF t \in freed THEN "QUEUED" ELSE status[t]]
        /\ owner' = [t \in Task |-> IF t \in freed THEN Nobody ELSE owner[t]]
        /\ is_ticker' = [x \in Worker |->
              wstatus'[x] # "none" /\ IF clean THEN Tickers(w)[x] ELSE is_ticker[x]]
        /\ is_a_ticker' = IF clean THEN [is_a_ticker EXCEPT ![w] = Elected(w) \/ Alone(w)] ELSE is_a_ticker
        /\ do_assign_tasks' = [do_assign_tasks EXCEPT ![w] = clean /\ NewMode(w) = "ACTIVE"]
        /\ UNCHANGED <<times_run, times_failed, stop, visited, runs, main, job, known, todo, adminVars>>

-----------------------------------------------------------------------------
(* What comes from outside: users, administrators, time and failures. *)

\* queue_task; with immediate=True the row of the ticker is told to PICK.
QueueTask(t) ==
    /\ status[t] = "none"
    /\ status' = [status EXCEPT ![t] = "QUEUED"]
    /\ wstatus' = [x \in Worker |-> IF t \in Immediate /\ is_ticker[x] THEN "PICK" ELSE wstatus[x]]
    /\ UNCHANGED <<owner, times_run, times_failed, stop, visited, runs, is_ticker, busy, age,
                   mainVars, beat, sharedVars, adminVars>>

\* disable, resume, terminate and kill: set_worker_status excludes the workers that already
\* have the status (what its callers exclude is lost: append returns None), and takes as
\* many of the others as the limit allows.
Order(action) ==
    /\ action \in Orders
    /\ orders < MaxOrders
    /\ orders' = orders + 1
    /\ \E S \in SUBSET {x \in Worker : wstatus[x] \notin {"none", action}} :
          wstatus' = [x \in Worker |-> IF x \in S THEN action ELSE wstatus[x]]
    /\ UNCHANGED <<taskVars, is_ticker, busy, age, mainVars, beat, sharedVars, stopper, restarts>>

\* stop_task reads the task,
StopRead(t) ==
    /\ stopper = NoStop
    /\ orders < MaxOrders
    /\ orders' = orders + 1
    /\ status[t] \in {"RUNNING", "QUEUED"}
    /\ stopper' = [task |-> t, status |-> status[t], owner |-> owner[t]]
    /\ UNCHANGED <<taskVars, rowVars, mainVars, beat, sharedVars, restarts>>

\* tells the worker that runs it,
StopRunning ==
    /\ stopper.status = "RUNNING"
    /\ wstatus' = [x \in Worker |-> IF x = stopper.owner /\ wstatus[x] # "none"
                                    THEN "STOP_TASK" ELSE wstatus[x]]
    /\ stopper' = NoStop
    /\ UNCHANGED <<taskVars, is_ticker, busy, age, mainVars, beat, sharedVars, orders, restarts>>

\* or disables it, by its id alone.
StopQueued ==
    /\ stopper.status = "QUEUED"
    /\ status' = [status EXCEPT ![stopper.task] = "STOPPED"]
    /\ stop' = [stop EXCEPT ![stopper.task] = "disabled"]
    /\ stopper' = NoStop
    /\ UNCHANGED <<owner, times_run, times_failed, visited, runs, rowVars, mainVars, beat,
                   sharedVars, orders, restarts>>

PassStopTime(t) ==
    /\ stop[t] = "ahead"
    /\ stop' = [stop EXCEPT ![t] = "past"]
    /\ UNCHANGED <<status, owner, times_run, times_failed, visited, runs, rowVars, mainVars,
                   beat, sharedVars, adminVars>>

\* Three heartbeats pass without one of w, then fortyfive.
PassHeartbeats(w) ==
    /\ wstatus[w] # "none"
    /\ age[w] < 2
    /\ main[w] = "off" \/ w \in Slow
    /\ age' = [age EXCEPT ![w] = @ + 1]
    /\ UNCHANGED <<taskVars, wstatus, is_ticker, busy, mainVars, beat, sharedVars, adminVars>>

Crash(w) ==
    /\ w \in Mortal
    /\ main[w] # "off"
    /\ Gone(w)
    /\ UNCHANGED adminVars

\* A worker is started under a name that was used before (worker_name).
Restart(w) ==
    /\ main[w] = "off"
    /\ restarts < MaxRestarts
    /\ restarts' = restarts + 1
    /\ main' = [main EXCEPT ![w] = "loop"]
    /\ have_heartbeat' = [have_heartbeat EXCEPT ![w] = TRUE]
    /\ UNCHANGED <<taskVars, rowVars, job, result, known, todo, beat, mode, is_a_ticker,
                   do_assign_tasks, stopper, orders>>

-----------------------------------------------------------------------------

Init ==
    /\ status = [t \in Task |-> "none"]
    /\ owner = [t \in Task |-> Nobody]
    /\ times_run = [t \in Task |-> 0]
    /\ times_failed = [t \in Task |-> 0]
    /\ stop = [t \in Task |-> IF t \in Limited THEN "ahead" ELSE "never"]
    /\ visited = {}
    /\ runs = <<>>
    /\ wstatus = [w \in Worker |-> "none"]
    /\ is_ticker = [w \in Worker |-> FALSE]
    /\ busy = [w \in Worker |-> FALSE]
    /\ age = [w \in Worker |-> 0]
    /\ main = [w \in Worker |-> "loop"]
    /\ job = [w \in Worker |-> NoJob]
    /\ result = [w \in Worker |-> NoResult]
    /\ known = [w \in Worker |-> {}]
    /\ todo = [w \in Worker |-> {}]
    /\ beat = [w \in Worker |-> "idle"]
    /\ have_heartbeat = [w \in Worker |-> TRUE]
    /\ mode = [w \in Worker |-> "RUNNING"]
    /\ is_a_ticker = [w \in Worker |-> FALSE]
    /\ do_assign_tasks = [w \in Worker |-> FALSE]
    /\ stopper = NoStop
    /\ orders = 0
    /\ restarts = 0

WorkStep(w) == PopRead(w) \/ PopWrite(w) \/ StartRun(w) \/ Execute(w) \/ Report(w) \/ Exit(w)

AssignStep(w) ==
    \/ BeginAssign(w)
    \/ \E due \in SUBSET Available : SelectTasks(w, due)
    \/ AssignTask(w)
    \/ EndAssign(w)

HeartbeatStep(w) == HeartbeatRead(w) \/ HeartbeatDie(w) \/ \E clean \in BOOLEAN : Heartbeat(w, clean)

AdminStep ==
    \/ \E t \in Task : QueueTask(t)
    \/ \E action \in Orders : Order(action)
    \/ \E t \in Task : StopRead(t)
    \/ StopRunning
    \/ StopQueued

Nature == (\E t \in Task : PassStopTime(t)) \/ \E w \in Worker : PassHeartbeats(w) \/ Crash(w) \/ Restart(w)

Next == AdminStep \/ Nature \/ \E w \in Worker : WorkStep(w) \/ AssignStep(w) \/ HeartbeatStep(w)

Spec == Init /\ [][Next]_schedulerVars

\* The two threads of a worker that is up run.  A heartbeat that reads its row may find an
\* order there, or be one of the four in five that do not clean up, but not for ever.
Fairness ==
    /\ WF_schedulerVars(StopRunning \/ StopQueued)
    /\ \A w \in Worker :
          /\ WF_schedulerVars(WorkStep(w) \/ AssignStep(w))
          /\ WF_schedulerVars(HeartbeatStep(w))
          /\ SF_schedulerVars(Heartbeat(w, TRUE))
          /\ SF_schedulerVars(BeginAssign(w))
          /\ SF_schedulerVars(SelectTasks(w, Available))
          /\ WF_schedulerVars(main[w] = "off" /\ PassHeartbeats(w))

FairSpec == Spec /\ Fairness

-----------------------------------------------------------------------------
(* Properties. *)

\* Every column and every thread has values of its type.
TypeOK ==
    /\ status \in [Task -> TaskStatus]
    /\ owner \in [Task -> Worker \cup {Nobody}]
    /\ times_run \in [Task -> Nat]
    /\ times_failed \in [Task -> Nat]
    /\ stop \in [Task -> {"never", "ahead", "past", "disabled"}]
    /\ visited \subseteq Deps
    /\ runs \in Seq([task : Task, worker : Worker, status : RunStatus])
    /\ wstatus \in [Worker -> WorkerStatus]
    /\ is_ticker \in [Worker -> BOOLEAN]
    /\ busy \in [Worker -> BOOLEAN]
    /\ age \in [Worker -> 0..2]
    /\ main \in [Worker -> {"off", "loop", "popped", "marked", "running", "select", "assign"}]
    /\ job \in [Worker -> {NoJob} \cup Job]
    /\ result \in [Worker -> {NoResult} \cup (RunStatus \ {"RUNNING"})]
    /\ known \in [Worker -> SUBSET Worker]
    /\ todo \in [Worker -> SUBSET Task]
    /\ beat \in [Worker -> {"idle"} \cup WorkerStatus]
    /\ have_heartbeat \in [Worker -> BOOLEAN]
    /\ mode \in [Worker -> Mode]
    /\ is_a_ticker \in [Worker -> BOOLEAN]
    /\ do_assign_tasks \in [Worker -> BOOLEAN]
    /\ stopper \in {NoStop} \cup [task : Task, status : {"RUNNING", "QUEUED"}, owner : Worker \cup {Nobody}]
    /\ orders \in Nat /\ restarts \in Nat

\* w is at work on t.
Holds(w, t) == main[w] \in {"marked", "running"} /\ job[w].task = t

\* At most one row says that its worker is the ticker, however elections, deaths and new
\* registrations interleave.
OneTickerRow == \A v, w \in Worker : is_ticker[v] /\ is_ticker[w] => v = w

=============================================================================
