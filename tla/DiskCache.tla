------------------------------ MODULE DiskCache -----------------------------
(***************************************************************************)
(* CacheOnDisk of gluon/cache.py: one file per key, and one for the        *)
(* statistics.  Each request has a Cache of its own (compileapp.py), so    *)
(* that the mutexes in file_locks exclude nobody and only the file locks   *)
(* stand between two requests.                                             *)
(***************************************************************************)
EXTENDS LockedFiles

CONSTANTS
    Value,   \* the key of a cached value
    Stats,   \* cache_stats_name, the file of hits and misses
    Counter  \* a key used through increment

CacheNames == {Value, Stats, Counter}
Applied == {Stats, Counter}

ASSUME CacheAssumption ==
    /\ CacheNames \subseteq Name
    /\ Value # Stats /\ Value # Counter /\ Stats # Counter

Nothing == -1  \* storage.get found no item

\* A call of the cache: its file, the item it found or computed, the count it read.
Working(op, pc) ==
    [pc |-> pc, op |-> op, file |-> Value, inode |-> 0, found |-> FALSE, item |-> Nothing,
     count |-> 0, then |-> "idle", todo |-> {}, since |-> note.forgot]

\* EOFError from pickle.load; what is open is closed with the request.
Raise(p) == Return(p)

-----------------------------------------------------------------------------
\* __call__, with f or with None (drop), increment and clear, which lists the files first.
Begin(p) ==
    /\ note.users = "requests"
    /\ UNCHANGED note
    /\ \/ \E op \in {"get", "drop"} : Call(p, Working(op, "read"))
       \/ Call(p, [Working("incr", "apply") EXCEPT !.file = Counter])
       \/ Call(p, [Working("clear", "clear") EXCEPT !.todo = {n \in CacheNames : Exists(n)}])

\* storage.get(key): open for reading; no such file is no item.  Then the hit is counted.
OpenItem(p) ==
    /\ Is(p, "read")
    /\ Step(p, IF Exists(Value) THEN [pc |-> "load", inode |-> dir[Value]]
               ELSE [pc |-> "apply", file |-> Stats, then |-> "decide"])
    /\ UNCHANGED <<diskVars, ops, note>>

\* Lock, load and close.
LoadItem(p) ==
    LET i == proc[p].inode
    IN  /\ Is(p, "load")
        /\ Unlocked(i)
        /\ \/ /\ disk[i] # Empty
              /\ Step(p, [pc |-> "apply", item |-> disk[i], file |-> Stats, then |-> "decide"])
           \/ disk[i] = Empty /\ Raise(p)
        /\ UNCHANGED <<diskVars, ops, note>>

\* safe_apply: open for update; no such file, and it is opened for writing.
ApplyOpen(p) ==
    LET n == proc[p].file
    IN  /\ Is(p, "apply")
        /\ Step(p, IF Exists(n) THEN [pc |-> "lock", found |-> TRUE, inode |-> dir[n]]
                   ELSE [pc |-> "first", found |-> FALSE])
        /\ note' = IF Exists(n) THEN note ELSE [note EXCEPT !.creators[n] = @ + 1]
        /\ UNCHANGED <<diskVars, ops>>

ApplyFirst(p) ==
    /\ Is(p, "first")
    /\ OpenForWriting(proc[p].file)
    /\ Step(p, [pc |-> "lock", inode |-> InodeForWriting(proc[p].file)])
    /\ UNCHANGED <<ops, note>>

\* Slip: the lock is a shared one (LOCK_SH).
SlipApplyShared(p) ==
    /\ Is(p, "lock")
    /\ Unlocked(proc[p].inode)
    /\ ~proc[p].found \/ disk[proc[p].inode] # Empty
    /\ Step(p, [pc |-> "write", count |-> IF proc[p].found THEN disk[proc[p].inode] ELSE 0])
    /\ UNCHANGED <<diskVars, ops, note>>

\* Lock and load; a file that this call has not created must hold a pickle.
ApplyLoad(p) ==
    LET i == proc[p].inode
    IN  /\ Is(p, "lock")
        /\ Unlocked(i)
        /\ IF proc[p].found /\ disk[i] = Empty
           THEN Raise(p) /\ UNCHANGED flock
           ELSE /\ flock' = [flock EXCEPT ![i] = p]
                /\ Step(p, [pc |-> "write", count |-> IF proc[p].found THEN disk[i] ELSE 0])
        /\ UNCHANGED <<dir, disk, ops, note>>

\* Slip: the file stays open, and locked with that.
SlipApplyStore(p) ==
    /\ Is(p, "write")
    /\ disk' = [disk EXCEPT ![proc[p].inode] = proc[p].count + 1]
    /\ note' = [note EXCEPT !.counted[proc[p].file] = @ + 1]
    /\ IF proc[p].then = "idle" THEN Return(p) ELSE Step(p, [pc |-> proc[p].then])
    /\ UNCHANGED <<dir, flock, ops>>

\* Seek, dump, truncate and close.
ApplyStore(p) ==
    LET i == proc[p].inode
    IN  /\ Is(p, "write")
        /\ disk' = [disk EXCEPT ![i] = proc[p].count + 1]
        /\ flock' = [flock EXCEPT ![i] = NoProc]
        /\ note' = [note EXCEPT !.counted[proc[p].file] = @ + 1]
        /\ IF proc[p].then = "idle" THEN Return(p) ELSE Step(p, [pc |-> proc[p].then])
        /\ UNCHANGED <<dir, ops>>

\* Slip: the file of an item that is dropped is emptied instead of removed.
SlipDecide(p) ==
    /\ Is(p, "decide")
    /\ \/ /\ proc[p].op = "drop"
          /\ Return(p)
          /\ IF proc[p].item # Nothing /\ Exists(Value)
             THEN OpenForWriting(Value)
             ELSE UNCHANGED diskVars
       \/ /\ proc[p].op = "get"
          /\ Step(p, [pc |-> IF proc[p].item # Nothing THEN "return" ELSE "compute"])
          /\ UNCHANGED diskVars
    /\ UNCHANGED <<ops, note>>

\* f is None: an item is removed; a file that is gone is a KeyError.  Otherwise the item is
\* returned when it is fresh, and f is called when it is not.
Decide(p) ==
    /\ Is(p, "decide")
    /\ \/ /\ proc[p].op = "drop"
          /\ Return(p)
          /\ IF proc[p].item # Nothing /\ Exists(Value)
             THEN Unlink(Value) /\ note' = [note EXCEPT !.cut = @ \cup {Value}]
             ELSE UNCHANGED <<diskVars, note>>
       \/ /\ proc[p].op = "get"
          /\ \/ proc[p].item # Nothing /\ Step(p, [pc |-> "return"])
             \/ Step(p, [pc |-> "compute"])
          /\ UNCHANGED <<diskVars, note>>
    /\ UNCHANGED ops

\* value = f(): it returns, raises, or calls cache.disk itself, and then waits for the mutex
\* of the statistics, which its own request holds.
Compute(p) ==
    /\ Is(p, "compute")
    /\ \/ Step(p, [pc |-> "store", item |-> note.forgot])
       \/ Return(p)
       \/ Step(p, [pc |-> "stuck"])
    /\ UNCHANGED <<diskVars, ops, note>>

\* storage[key] = (now, value): the file is opened, and with that emptied, ...
StoreOpen(p) ==
    /\ Is(p, "store")
    /\ OpenForWriting(Value)
    /\ Step(p, [pc |-> "put", inode |-> InodeForWriting(Value)])
    /\ UNCHANGED <<ops, note>>

\* ... and written when the lock is there, unless the value cannot be pickled; the miss is
\* counted and the value returned.
StorePut(p) ==
    LET i == proc[p].inode
    IN  /\ Is(p, "put")
        /\ Unlocked(i)
        /\ \/ /\ disk' = [disk EXCEPT ![i] = proc[p].item]
              /\ Step(p, [pc |-> "apply", file |-> Stats, then |-> "return"])
              /\ UNCHANGED note
           \/ /\ disk' = [disk EXCEPT ![i] = Empty]
              /\ note' = [note EXCEPT !.spoilt = TRUE]
              /\ Return(p)
        /\ UNCHANGED <<dir, flock, ops>>

\* The value reaches the caller.
ReturnValue(p) ==
    /\ Is(p, "return")
    /\ Return(p)
    /\ UNCHANGED <<diskVars, ops, note>>

\* Slip: clear removes the statistics only.
SlipClearNext(p) ==
    /\ Is(p, "clear")
    /\ \/ proc[p].todo = {} /\ Return(p) /\ UNCHANGED <<diskVars, note>>
       \/ \E n \in proc[p].todo :
             /\ Step(p, [todo |-> proc[p].todo \ {n}])
             /\ IF n = Stats THEN Unlink(n) ELSE UNCHANGED diskVars
             /\ note' = [note EXCEPT !.cut = @ \cup {n}, !.forgot = @ + 1]
    /\ UNCHANGED ops

\* clear: the files of the listing are removed one by one; one that is gone is passed over.
ClearNext(p) ==
    /\ Is(p, "clear")
    /\ \/ proc[p].todo = {} /\ Return(p) /\ UNCHANGED <<diskVars, note>>
       \/ \E n \in proc[p].todo :
             /\ Step(p, [todo |-> proc[p].todo \ {n}])
             /\ Unlink(n)
             /\ note' = IF n = Value
                        THEN [note EXCEPT !.cut = @ \cup {n}, !.forgot = @ + 1,
                                          !.stale = @ \/ \E q \in Proc : Is(q, "store")]
                        ELSE [note EXCEPT !.cut = @ \cup {n}]
    /\ UNCHANGED ops

\* A call that has opened a file for writing and not yet written it.
IsWriting(p) == Is(p, "put") \/ (proc[p].pc \in {"lock", "write"} /\ ~proc[p].found)

\* The process of the request is killed; its locks are gone.
Killed(p) ==
    /\ proc[p].pc \in {"lock", "write", "put"}
    /\ flock' = [i \in DOMAIN flock |-> IF flock[i] = p THEN NoProc ELSE flock[i]]
    /\ note' = [note EXCEPT !.spoilt = @ \/ IsWriting(p)]
    /\ Return(p)
    /\ UNCHANGED <<dir, disk, ops>>

CacheStep(p) ==
    OpenItem(p) \/ LoadItem(p) \/ ApplyOpen(p) \/ ApplyFirst(p) \/ ApplyLoad(p) \/ ApplyStore(p) \/ Decide(p)
        \/ Compute(p) \/ StoreOpen(p) \/ StorePut(p) \/ ReturnValue(p) \/ ClearNext(p)

-----------------------------------------------------------------------------
(* Properties. *)

\* A file without a pickle is one that a call has opened and not yet written (__setitem__,
\* safe_apply), as long as no process was killed there and every value could be pickled: else
\* it stays, and each later call for its key, or each call of all when it is the statistics,
\* fails with EOFError.
EmptyIsOpen ==
    ~note.spoilt =>
        \A n \in CacheNames :
            Exists(n) /\ Holds(n) = Empty => \E p \in Proc : IsWriting(p) /\ proc[p].inode = dir[n]

\* safe_apply loses no increment: when nobody is at it, the file holds as many as returned,
\* unless two calls found the file missing, or it was removed meanwhile.
CountExact ==
    \A n \in Applied :
        /\ Exists(n) /\ n \notin note.cut /\ note.creators[n] <= 1 /\ ~note.spoilt
        /\ \A p \in Proc : ~(proc[p].pc \in {"first", "lock", "write"} /\ proc[p].file = n)
        => Holds(n) = note.counted[n]

\* A value that cache.disk or cache.ram returns was computed since the last clear before the call, unless
\* one that was computed before was still to be stored when clear removed the file.
ClearForgets ==
    \A p \in Proc : Is(p, "return") /\ ~note.stale => proc[p].item >= proc[p].since

=============================================================================
