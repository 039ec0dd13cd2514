------------------------------ MODULE FileUsers -----------------------------
(***************************************************************************)
(* Requests that use cache.disk, threads that use cache.ram, threads that  *)
(* ask for cron's token, and requests of a browser that logs in and out:   *)
(* each does one call after the other.  The four share no file, so that a  *)
(* behaviour has one kind of them.                                         *)
(***************************************************************************)
EXTENDS RamCache, CronToken, SessionFiles

ASSUME NameAssumption ==
    Master \notin CacheNames \cup (1..Sids) /\ CacheNames \cap (1..Sids) = {}

FreshNote(users) ==
    [users |-> users, clock |-> 0,
     \* cache.disk: the calls of safe_apply that returned and that found no file, the files
     \* that clear or f = None removed, how often clear removed Value, whether it did between
     \* f() and the store of its result, and whether a writer never wrote
     counted |-> [n \in Applied |-> 0], creators |-> [n \in Applied |-> 0],
     cut |-> {}, forgot |-> 0, stale |-> FALSE, spoilt |-> FALSE,
     \* cache.ram: the dictionary (forgot and stale are as above)
     ram |-> NoItem,
     \* cron: the times at which regular calls became master, and whether a token was
     \* overwritten by somebody who did not acquire it in its turn
     masters |-> <<>>, disturbed |-> FALSE,
     \* a browser: its cookie and how many ids were made up for it; the sessions that were
     \* cleared, whether the user is to be logged in, whether another request was under way
     \* with a login or with the end of a session, and whether it was with a login
     cookie |-> NoSid, sids |-> 0, cleared |-> {}, wanted |-> FALSE, overlap |-> FALSE,
     crossed |-> FALSE]

FilesInit ==
    /\ dir = [n \in Name |-> 0] /\ disk = <<>> /\ flock = <<>>
    /\ proc = [p \in Proc |-> Idle]
    /\ ops = 0
    /\ \E users \in {"requests", "threads", "cron", "browser"} : note = FreshNote(users)

FilesNext ==
    \/ \E p \in Proc : Begin(p) \/ CacheStep(p) \/ Killed(p)
    \/ \E p \in Proc : BeginRam(p) \/ RamStep(p)
    \/ \E p \in Proc : AskToken(p) \/ CronStep(p) \/ MasterKilled(p)
    \/ \E p \in Proc : Send(p) \/ SessionStep(p) \/ RaiseInRequest(p) \/ LoseAnswer(p)
    \/ Tick

FilesSpec == FilesInit /\ [][FilesNext]_fileVars

\* Every process goes on with its call; calls are made as one likes.
FilesFairSpec ==
    FilesSpec /\ \A p \in Proc : WF_fileVars(CacheStep(p) \/ RamStep(p) \/ CronStep(p) \/ SessionStep(p))

\* Every call comes to its end, since each waits for a file lock while it holds none; but not
\* a function that uses cache.disk within the call of cache.disk that computes with it.  One
\* process stands for all, which do the same.
CallsEnd ==
    LET p == CHOOSE p \in Proc : TRUE
    IN  ~Is(p, "idle") ~> Is(p, "idle") \/ Is(p, "stuck")

=============================================================================
