----------------------------- MODULE MCScheduler -----------------------------
(* The instances of SchedulerHistory for TLC. *)
EXTENDS SchedulerHistory, TLC

CONSTANTS w1, w2, t1, t2

Once == [t \in Task |-> 1]
Twice == [t \in Task |-> 2]
NoRetry == [t \in Task |-> 0]
OneRetry == [t \in Task |-> 1]
NoDeps == {}
Chain == {<<t2, t1>>}
MCSymmetry == Permutations(Worker)

=============================================================================
