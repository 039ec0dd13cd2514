------------------------------- MODULE TaskLife -----------------------------
(***************************************************************************)
(* What the scheduler promises about a task, without workers: it waits, it *)
(* is run when the tasks that go first are done, a run that fails is tried *)
(* again and one that succeeds is repeated as often as asked, a run whose  *)
(* worker died is forgotten and made again, and an end is an end.  A task  *)
(* may be lost: then nothing is promised any more.                         *)
(***************************************************************************)
EXTENDS Integers

CONSTANTS Task, Repeats, RetryFailed, Deps   \* as in Scheduler

VARIABLES
    life,       \* the status of each task, or "lost"
    successes,  \* runs that were completed
    failures    \* runs that failed since

lifeVars == <<life, successes, failures>>

Waiting == {"QUEUED", "ASSIGNED"}

LifeInit ==
    /\ life = [t \in Task |-> "none"]
    /\ successes = [t \in Task |-> 0]
    /\ failures = [t \in Task |-> 0]

Counts(t, good, bad) == successes'[t] = good /\ failures'[t] = bad
Uncounted(t) == Counts(t, successes[t], failures[t])

Stay(t) == life'[t] = life[t] /\ Uncounted(t)

Queue(t) == life[t] = "none" /\ life'[t] = "QUEUED" /\ Uncounted(t)
Assign(t) == life[t] \in Waiting /\ life'[t] = "ASSIGNED" /\ Uncounted(t)
Expire(t) == life[t] \in Waiting /\ life'[t] = "EXPIRED" /\ Uncounted(t)
Disable(t) == life[t] = "QUEUED" /\ life'[t] = "STOPPED" /\ Uncounted(t)

Start(t) ==
    /\ life[t] = "ASSIGNED"
    /\ \A d \in Deps : d[1] = t => life[d[2]] \in {"COMPLETED", "lost"}
    /\ life'[t] = "RUNNING"
    /\ Uncounted(t)

Succeed(t) ==
    LET n == successes[t] + 1
    IN  /\ life[t] = "RUNNING"
        /\ life'[t] \in IF Repeats[t] = 0 \/ n < Repeats[t] THEN {"QUEUED", "EXPIRED"}
                        ELSE {"COMPLETED"}
        /\ Counts(t, n, 0)

Fail(t) ==
    /\ life[t] = "RUNNING"
    /\ life'[t] \in IF RetryFailed[t] = -1 \/ failures[t] < RetryFailed[t] THEN {"QUEUED"}
                    ELSE {"FAILED", "TIMEOUT"}
    /\ Counts(t, successes[t], failures[t] + 1)

Recover(t) == life[t] = "RUNNING" /\ life'[t] = "QUEUED" /\ Uncounted(t)

Lose(t) == life'[t] = "lost" /\ Counts(t, 0, 0)

\* In one step several tasks may move: an assignment, or the death of a worker.
LifeNext ==
    \A t \in Task :
        \/ Stay(t) \/ Queue(t) \/ Assign(t) \/ Expire(t) \/ Disable(t)
        \/ Start(t) \/ Succeed(t) \/ Fail(t) \/ Recover(t) \/ Lose(t)

LifeSpec == LifeInit /\ [][LifeNext]_lifeVars

=============================================================================
