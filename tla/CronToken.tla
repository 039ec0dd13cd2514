------------------------------ MODULE CronToken -----------------------------
(***************************************************************************)
(* gluon/newcron.py: crondance and the Token in cron.master by which the   *)
(* threads of soft cron (one per request), of hard cron (one a minute) and *)
(* external processes agree on who runs the jobs of a minute.              *)
(***************************************************************************)
EXTENDS LockedFiles

CONSTANTS
    Master,    \* the file cron.master
    LockTime   \* locktime, in steps of the clock

ASSUME CronAssumption == Master \in Name /\ LockTime \in Nat
ASSUME TokenAssumption ==
    \A start \in 0..MaxClock, id \in 0..MaxOps, stop \in BOOLEAN :
        Empty # [start |-> start, id |-> id, stop |-> stop]

\* A call of crondance; id tells apart tokens of the same time.
Asking(startup) ==
    [pc |-> "token", op |-> "cron", startup |-> startup, id |-> ops, now |-> 0, mine |-> FALSE]

AskToken(p) ==
    /\ note.users = "cron"
    /\ \E startup \in BOOLEAN : Call(p, Asking(startup))
    /\ UNCHANGED note

\* Token.__init__: os.path.exists, then write_file, then the time.
TestToken(p) ==
    /\ Is(p, "token")
    /\ Step(p, IF Exists(Master) THEN [pc |-> "acquire", now |-> note.clock] ELSE [pc |-> "create"])
    /\ UNCHANGED <<diskVars, ops, note>>

CreateToken(p) ==
    /\ Is(p, "create")
    /\ OpenForWriting(Master)
    /\ Step(p, [pc |-> "acquire", now |-> note.clock])
    /\ note' = [note EXCEPT !.disturbed = @ \/ Holds(Master) # Empty]
    /\ UNCHANGED ops

\* acquire: the token is free when it cannot be read or is old enough.
IsFree(now) == Holds(Master) = Empty \/ now - Holds(Master).start > LockTime
Write(p, stop) ==
    disk' = [disk EXCEPT ![dir[Master]] =
               [start |-> proc[p].now, id |-> proc[p].id, stop |-> stop]]

\* Slip: the lock is refused for the locktime, but its holder's time is not written.
AcquireUnwritten(p) ==
    /\ Is(p, "acquire")
    /\ IF proc[p].startup \/ IsFree(proc[p].now)
       THEN /\ Step(p, [pc |-> "jobs"])
            /\ note' = [note EXCEPT !.masters = Append(@, proc[p].now)]
       ELSE Return(p) /\ UNCHANGED note
    /\ UNCHANGED <<diskVars, ops>>

Acquire(p) ==
    /\ Is(p, "acquire")
    /\ IF proc[p].startup \/ IsFree(proc[p].now)
       THEN /\ Write(p, FALSE)
            /\ Step(p, [pc |-> "jobs"])
            /\ note' = IF proc[p].startup
                       THEN [note EXCEPT !.disturbed = @ \/ ~IsFree(proc[p].now)]
                       ELSE [note EXCEPT !.masters = Append(@, proc[p].now)]
       ELSE Return(p) /\ UNCHANGED <<disk, note>>
    /\ UNCHANGED <<dir, flock, ops>>

\* release, after the jobs were launched: locked, it reads whether the token is its own ...
ReleaseToken(p) ==
    LET token == Holds(Master)
    IN  /\ Is(p, "jobs")
        /\ IF token = Empty
           THEN Return(p)          \* pickle.load raises
           ELSE Step(p, [pc |-> "close", mine |-> token.start = proc[p].now /\ token.id = proc[p].id])
        /\ UNCHANGED <<diskVars, ops, note>>

\* ... but what it writes then reaches the file when the file is closed, after the unlock.
CloseToken(p) ==
    /\ Is(p, "close")
    /\ IF proc[p].mine
       THEN /\ Write(p, TRUE)
            /\ note' = [note EXCEPT !.disturbed =
                          @ \/ (Holds(Master) # Empty /\ Holds(Master).id # proc[p].id)]
       ELSE UNCHANGED <<disk, note>>
    /\ Return(p)
    /\ UNCHANGED <<dir, flock, ops>>

\* The master is killed before it releases the token.
MasterKilled(p) ==
    /\ proc[p].pc \in {"jobs", "close"}
    /\ Return(p)
    /\ UNCHANGED <<diskVars, ops, note>>

CronStep(p) == TestToken(p) \/ CreateToken(p) \/ Acquire(p) \/ ReleaseToken(p) \/ CloseToken(p)

-----------------------------------------------------------------------------
\* acquire promises None to who asks within the locktime of the last start: two regular
\* masters are further apart than that, and no killed one stands in the way, unless the token
\* was emptied by a second creator, taken at a startup or written back by a late close.
OneMaster ==
    ~note.disturbed =>
        \A i, j \in DOMAIN note.masters : i < j => note.masters[j] - note.masters[i] > LockTime

=============================================================================
