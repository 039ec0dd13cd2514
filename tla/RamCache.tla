------------------------------ MODULE RamCache ------------------------------
(***************************************************************************)
(* CacheInRam of gluon/cache.py: the threads of a process share a          *)
(* dictionary.  What is done under CacheInRam.locker is one step; f() runs *)
(* without it.  Here is one key, with the calls of DiskCache's Value.      *)
(***************************************************************************)
EXTENDS DiskCache

CONSTANT Expire   \* time_expire of the key

ASSUME ExpireAssumption == Expire \in Nat

\* An item: the time that is stored with it; the value, which tells how many clears f() had
\* seen; and when f() looked (for the properties).
NoItem == [time |-> 0, value |-> Nothing, made |-> 0]

\* A call: the time is taken before the lock.
Asks(op) ==
    [pc |-> "lookup", op |-> op, now |-> note.clock, item |-> Nothing, made |-> note.clock,
     since |-> note.forgot]

BeginRam(p) ==
    /\ note.users = "threads"
    /\ \E op \in {"get", "drop", "clear"} : Call(p, Asks(op))
    /\ UNCHANGED note

\* __call__: with f = None the item is deleted, a fresh one is returned, else f is called.
RamLookup(p) ==
    LET found == note.ram.value # Nothing
    IN  /\ Is(p, "lookup")
        /\ \/ /\ proc[p].op = "drop"
              /\ note' = [note EXCEPT !.ram = NoItem]
              /\ Return(p)
           \/ /\ proc[p].op = "get"
              /\ Step(p, IF found /\ note.ram.time > proc[p].now - Expire
                         THEN [pc |-> "return", item |-> note.ram.value, made |-> note.ram.made]
                         ELSE [pc |-> "call"])
              /\ UNCHANGED note
        /\ UNCHANGED <<diskVars, ops>>

RamClear(p) ==
    /\ Is(p, "lookup")
    /\ proc[p].op = "clear"
    /\ note' = [note EXCEPT !.ram = NoItem, !.forgot = @ + 1,
                            !.stale = @ \/ \E q \in Proc : Is(q, "keep")]
    /\ Return(p)
    /\ UNCHANGED <<diskVars, ops>>

\* value = f(), which may also raise.
RamCompute(p) ==
    /\ Is(p, "call")
    /\ \/ Step(p, [pc |-> "keep", item |-> note.forgot, made |-> note.clock])
       \/ Return(p)
    /\ UNCHANGED <<diskVars, ops, note>>

\* Slip: the time is that of the store.
SlipRamStore(p) ==
    /\ Is(p, "keep")
    /\ note' = [note EXCEPT !.ram = [time |-> note.clock, value |-> proc[p].item, made |-> proc[p].made]]
    /\ Step(p, [pc |-> "return"])
    /\ UNCHANGED <<diskVars, ops>>

\* self.storage[key] = (now, value), whatever was stored or cleared meanwhile.
RamStore(p) ==
    /\ Is(p, "keep")
    /\ note' = [note EXCEPT !.ram = [time |-> proc[p].now, value |-> proc[p].item, made |-> proc[p].made]]
    /\ Step(p, [pc |-> "return"])
    /\ UNCHANGED <<diskVars, ops>>

RamStep(p) == RamLookup(p) \/ RamClear(p) \/ RamCompute(p) \/ RamStore(p)

-----------------------------------------------------------------------------
\* A value that cache.ram returns was computed less than time_expire before the call, even
\* where a slow call stored an older value over a newer one.
RamExpires ==
    note.users = "threads" =>
        \A p \in Proc : Is(p, "return") /\ Expire > 0 => proc[p].made > proc[p].now - Expire

=============================================================================
