----------------------------- MODULE LockedFiles ----------------------------
(***************************************************************************)
(* Files that several processes open and lock: what gluon/cache.py and     *)
(* gluon/newcron.py rely on of the file system and of portalocker.  A name *)
(* leads to an inode as long as it is linked; an open file keeps its inode *)
(* after the name is unlinked.  open(name, 'wb') empties the file at once, *)
(* with or without the lock; what is written becomes visible at flush or   *)
(* close; flock belongs to the open file, so that two threads of a process *)
(* exclude each other like two processes.                                  *)
(***************************************************************************)
EXTENDS Integers, Sequences, FiniteSets

CONSTANTS
    Name,    \* file names
    Proc,    \* processes, or threads with open files of their own
    NoProc,  \* nobody holds the lock
    Empty,   \* the contents of a file without a whole pickle
    MaxOps,  \* bound on the calls of a behaviour
    MaxClock \* bound on the clock

ASSUME ProcAssumption == NoProc \notin Proc
ASSUME EmptyAssumption == Empty \notin Int
ASSUME BoundAssumption == MaxOps \in Nat /\ MaxClock \in Nat

VARIABLES
    dir,    \* the inode of each name, 0 for none
    disk,   \* the contents of each inode
    flock,  \* who holds the lock of each inode
    proc,   \* what each process is doing, with the file it has open
    ops,    \* calls so far
    note    \* what is not on the disk (who the users of the files are, the clock, a browser's
            \* cookie, a cache in memory) and history, one field for each thing that a
            \* property recalls

diskVars == <<dir, disk, flock>>
fileVars == <<diskVars, proc, ops, note>>

Exists(n) == dir[n] # 0
Holds(n) == IF Exists(n) THEN disk[dir[n]] ELSE Empty

\* open(name, 'wb'): the inode that it opens, and what it does to the disk.
InodeForWriting(n) == IF Exists(n) THEN dir[n] ELSE Len(disk) + 1
OpenForWriting(n) ==
    \/ /\ Exists(n)
       /\ disk' = [disk EXCEPT ![dir[n]] = Empty]
       /\ UNCHANGED <<dir, flock>>
    \/ /\ ~Exists(n)
       /\ disk' = Append(disk, Empty)
       /\ dir' = [dir EXCEPT ![n] = Len(disk) + 1]
       /\ flock' = Append(flock, NoProc)

Unlink(n) == dir' = [dir EXCEPT ![n] = 0] /\ UNCHANGED <<disk, flock>>
Unlocked(i) == flock[i] = NoProc

\* The program of a process: a record with a pc, and the fields that its call needs.
Idle == [pc |-> "idle"]
Is(p, pc) == proc[p].pc = pc
Step(p, fields) ==
    proc' = [proc EXCEPT ![p] = [f \in DOMAIN proc[p] |->
                                    IF f \in DOMAIN fields THEN fields[f] ELSE proc[p][f]]]
Return(p) == proc' = [proc EXCEPT ![p] = Idle]
Call(p, program) ==
    /\ Is(p, "idle")
    /\ ops < MaxOps
    /\ ops' = ops + 1
    /\ proc' = [proc EXCEPT ![p] = program]
    /\ UNCHANGED diskVars

\* Time passes where the program asks for it.
Tick ==
    /\ note.users \in {"cron", "threads"}
    /\ note.clock < MaxClock
    /\ note' = [note EXCEPT !.clock = @ + 1]
    /\ UNCHANGED <<diskVars, proc, ops>>

=============================================================================
