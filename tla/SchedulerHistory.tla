--------------------------- MODULE SchedulerHistory ---------------------------
(***************************************************************************)
(* Scheduler with a history variable: the tasks for which someone acted on *)
(* what was no longer so.                                                  *)
(***************************************************************************)
EXTENDS Scheduler

VARIABLE
    raced    \* tasks marked or stopped after a stale read, or queued again while held

vars == <<schedulerVars, raced>>

\* A worker marks a task whose row is not what it read: it has been assigned to another,
\* or has even been run by another and come back.
StaleMark(t) ==
    \E w \in Worker : /\ main[w] = "popped"
                      /\ main'[w] = "marked"
                      /\ job[w].task = t
                      /\ \/ status[t] # "ASSIGNED" \/ owner[t] # w
                         \/ job[w].times_run # times_run[t] + 1
                         \/ job[w].times_failed # times_failed[t]

\* A live worker that holds t was taken for dead.
TakenAway(t) ==
    /\ status[t] = "RUNNING"
    /\ status'[t] = "QUEUED"
    /\ owner[t] # Nobody
    /\ owner'[t] = Nobody
    /\ \E w \in Worker : Holds(w, t)

\* stop_task stops a task that is not queued any more.
StaleStop(t) == status'[t] = "STOPPED" /\ status[t] \notin {"STOPPED", "QUEUED"}

HistoryInit == Init /\ raced = {}

HistoryNext ==
    /\ Next
    /\ raced' = raced \cup {t \in Task : StaleMark(t) \/ TakenAway(t) \/ StaleStop(t)}

HistorySpec == HistoryInit /\ [][HistoryNext]_vars

FairHistorySpec == HistorySpec /\ Fairness

-----------------------------------------------------------------------------
(* Properties. *)

\* A task is lost to its worker in three ways only: it was assigned to another worker, or
\* run by another, between the two statements of pop_task; its worker was late and taken for
\* dead; or stop_task came too late for it.  Otherwise one worker at a time runs it.
OneRunner ==
    \A t \in Task \ raced : \A v, w \in Worker : Holds(v, t) /\ Holds(w, t) => v = w

\* A task that was not lost belongs, by its row, to the worker that is at work on it, and is
\* RUNNING, whatever workers are ordered to do.
HeldIsRunning ==
    \A w \in Worker, t \in Task \ raced : Holds(w, t) => status[t] = "RUNNING" /\ owner[t] = w

Completed(t) == {i \in DOMAIN runs : runs[i].task = t /\ runs[i].status = "COMPLETED"}

\* A task that was not lost is counted right, and runs to completion no more often than it
\* should, over any sequence of failures, retries, crashes and reassignments.
RunsCounted ==
    \A t \in Task \ raced :
        /\ Cardinality(Completed(t)) = times_run[t]
        /\ Repeats[t] # 0 => times_run[t] <= Repeats[t]

\* A RUNNING task that was not lost is in the hands of its worker, or of a worker that
\* others will find dead, by its row.
Recoverable ==
    \A t \in Task \ raced : status[t] = "RUNNING" =>
        Holds(owner[t], t) \/ (main[owner[t]] = "off" /\ wstatus[owner[t]] # "none")

\* A task that has come to its end stays there, unless it was lost.
FinalStays ==
    [][\A t \in Task : status[t] \in Final /\ t \notin raced' => status'[t] = status[t]]_vars

\* The scheduler implements the life of tasks that TaskLife describes, over any sequence of
\* failures, retries, crashes, reassignments and stops; a raced task counts as lost.
Unless(t, value, otherwise) == IF t \in raced THEN otherwise ELSE value
Life == INSTANCE TaskLife WITH
    life <- [t \in Task |-> Unless(t, status[t], "lost")],
    successes <- [t \in Task |-> Unless(t, times_run[t], 0)],
    failures <- [t \in Task |-> Unless(t, times_failed[t], 0)]
ImplementsTaskLife == Life!LifeSpec

\* A parent is taken up only when all runs of its children are over and well, however often
\* these were repeated, failed and were tried again.
ChildrenFirst ==
    \A d \in Deps : status[d[1]] = "RUNNING" \/ (\E w \in Worker : Holds(w, d[1])) =>
        status[d[2]] = "COMPLETED" \/ d[2] \in raced

\* "noone will touch my task!" (scheduler.py:997)
NooneTouchesMyTask == \A t \in Task : \A v, w \in Worker : Holds(v, t) /\ Holds(w, t) => v = w

\* A task that was not lost does not stay RUNNING for ever, although workers crash and are
\* told to go, as long as one is up.
RunningEnds ==
    \A t \in Task : status[t] = "RUNNING" ~>
        status[t] # "RUNNING" \/ t \in raced \/ \A w \in Worker : main[w] = "off"

\* A task that waits for nothing is assigned in the end, although the ticker crashes.
QueuedAssigned == \A t \in Task : status[t] = "QUEUED" /\ Ready(t) ~> status[t] # "QUEUED"

=============================================================================
