--------------------------- MODULE DiskCacheProof ---------------------------
(***************************************************************************)
(* That cache.disk leaves no key without a pickle and loses no increment,  *)
(* and that no cache returns what was computed before a clear, but for the *)
(* exceptions that EmptyIsOpen, CountExact and ClearForgets name, for any  *)
(* number of processes and calls.                                          *)
(***************************************************************************)
EXTENDS FilesProof

\* The file that p has open, and for what.
FileOf(p) == IF proc[p].pc \in {"load", "put"} THEN Value ELSE proc[p].file
HasFile(p) == proc[p].pc \in {"load", "lock", "write", "put"}

\* A call knows its file; the inode that it has open is not that of another name.
CallOK(p) ==
    proc[p] # Idle =>
        /\ proc[p].file \in CacheNames
        /\ proc[p].item \in Int
        /\ proc[p].todo \subseteq CacheNames
        /\ proc[p].pc \in {"apply", "first", "lock", "write"} => proc[p].file \in Applied
        /\ proc[p].pc = "first" => ~proc[p].found
        /\ proc[p].pc = "write" => proc[p].count \in Int
        /\ HasFile(p) => /\ proc[p].inode \in 1..Len(disk)
                         /\ \A m \in CacheNames \ {FileOf(p)} : dir[m] # proc[p].inode

DiskTypes ==
    /\ DOMAIN dir = Name
    /\ \A n \in CacheNames : dir[n] \in 0..Len(disk)
    /\ \A m, n \in CacheNames : dir[m] = dir[n] /\ dir[m] # 0 => m = n
    /\ disk \in Seq(Int \cup {Empty})
    /\ flock \in Seq(Proc \cup {NoProc})
    /\ Len(flock) = Len(disk)

NoteTypes ==
    /\ note.counted \in [Applied -> Nat]
    /\ note.creators \in [Applied -> Nat]
    /\ note.forgot \in Nat
    /\ note.spoilt \in BOOLEAN

\* p is at the file n, or has made it and not yet written it.
UpdatesAt(p, n, places) == proc[p].pc \in places /\ proc[p].file = n
MakesAt(p, n) == UpdatesAt(p, n, {"first"}) \/ (UpdatesAt(p, n, {"lock", "write"}) /\ ~proc[p].found)

\* The one creator of the file comes first, and then one writer after the other.
Counted(n) ==
    /\ note.creators[n] = 0 => ~Exists(n) /\ \A p \in Proc : ~UpdatesAt(p, n, {"first"})
    /\ \A p, q \in Proc : MakesAt(p, n) /\ MakesAt(q, n) => p = q
    /\ ~Exists(n) => note.counted[n] = 0 /\ \A p \in Proc : ~UpdatesAt(p, n, {"lock", "write"})
    /\ Exists(n) =>
          /\ \A p \in Proc : ~UpdatesAt(p, n, {"first"})
          /\ \A p \in Proc : UpdatesAt(p, n, {"lock", "write"}) => proc[p].inode = dir[n]
          /\ Holds(n) = Empty =>
                note.counted[n] = 0 /\ \A p \in Proc : UpdatesAt(p, n, {"write"}) => ~proc[p].found
          /\ Holds(n) # Empty => Holds(n) = note.counted[n] /\ \A p \in Proc : ~MakesAt(p, n)
          /\ \A p \in Proc : UpdatesAt(p, n, {"write"}) =>
                flock[dir[n]] = p /\ proc[p].count = note.counted[n]

\* What CountExact excepts.
Good(n) == n \notin note.cut /\ note.creators[n] <= 1 /\ ~note.spoilt

DiskInv ==
    /\ DiskTypes
    /\ NoteTypes
    /\ \A p \in Proc : CallOK(p)
    /\ EmptyIsOpen
    /\ \A n \in Applied : Good(n) => Counted(n)

-----------------------------------------------------------------------------
(* Files. *)

\* open(n, 'wb') empties the file of n and no other.
LEMMA Opened ==
    ASSUME DiskTypes, NEW n \in CacheNames, OpenForWriting(n)
    PROVE  /\ DiskTypes'
           /\ dir'[n] = InodeForWriting(n) /\ Exists(n)' /\ Holds(n)' = Empty
           /\ Len(disk') \in {Len(disk), Len(disk) + 1}
           /\ Exists(n) => dir' = dir
           /\ ~Exists(n) => dir'[n] = Len(disk) + 1 /\ Len(disk') = Len(disk) + 1
           /\ \A m \in CacheNames : m # n =>
                 dir'[m] = dir[m] /\ (Exists(m) => Holds(m)' = Holds(m) /\ flock'[dir[m]] = flock[dir[m]])
<1>1. n \in Name /\ CacheNames \subseteq Name
  BY CacheAssumption
<1>2. CASE Exists(n)
  <2>1. dir' = dir /\ flock' = flock /\ disk' = [disk EXCEPT ![dir[n]] = Empty] /\ dir[n] \in 1..Len(disk)
    BY <1>2 DEF OpenForWriting, DiskTypes, Exists
  <2>2. disk' \in Seq(Int \cup {Empty}) /\ Len(disk') = Len(disk) /\ disk'[dir[n]] = Empty
        /\ \A i \in 1..Len(disk) : i # dir[n] => disk'[i] = disk[i]
    BY <2>1 DEF DiskTypes
  <2>3. \A m \in CacheNames : m # n /\ Exists(m) => dir[m] \in 1..Len(disk) /\ dir[m] # dir[n]
    BY <2>1 DEF DiskTypes, Exists
  <2> QED  BY <1>2, <2>1, <2>2, <2>3 DEF DiskTypes, Exists, Holds, InodeForWriting
<1>3. CASE ~Exists(n)
  <2>1. /\ disk' = Append(disk, Empty) /\ dir' = [dir EXCEPT ![n] = Len(disk) + 1]
        /\ flock' = Append(flock, NoProc)
    BY <1>3 DEF OpenForWriting
  <2>2. /\ disk' \in Seq(Int \cup {Empty}) /\ Len(disk') = Len(disk) + 1 /\ disk'[Len(disk) + 1] = Empty
        /\ \A i \in 1..Len(disk) : disk'[i] = disk[i]
        /\ flock' \in Seq(Proc \cup {NoProc}) /\ Len(flock') = Len(disk) + 1
        /\ \A i \in 1..Len(disk) : flock'[i] = flock[i]
        /\ Len(disk) \in Nat
    BY <2>1 DEF DiskTypes
  <2>3. /\ DOMAIN dir' = Name /\ dir'[n] = Len(disk) + 1
        /\ \A m \in CacheNames : m # n => dir'[m] = dir[m] /\ dir[m] \in 0..Len(disk)
    BY <1>1, <2>1 DEF DiskTypes
  <2>4. DiskTypes'
    <3>1. \A m \in CacheNames : dir'[m] \in 0..(Len(disk) + 1)
      BY <2>2, <2>3
    <3>2. ASSUME NEW l \in CacheNames, NEW m \in CacheNames, dir'[l] = dir'[m], dir'[l] # 0
          PROVE  l = m
      BY <2>2, <2>3, <3>2 DEF DiskTypes
    <3> QED  BY <2>2, <2>3, <3>1, <3>2 DEF DiskTypes
  <2>5. /\ dir'[n] = InodeForWriting(n) /\ Exists(n)' /\ Holds(n)' = Empty
        /\ \A m \in CacheNames : m # n /\ Exists(m) => Holds(m)' = Holds(m) /\ flock'[dir[m]] = flock[dir[m]]
    BY <1>3, <2>2, <2>3 DEF Exists, Holds, InodeForWriting
  <2> QED  BY <1>3, <2>2, <2>3, <2>4, <2>5
<1> QED  BY <1>2, <1>3

\* The inode that it leads to is of no other name.
LEMMA ItsInode ==
    ASSUME DiskTypes, NEW n \in CacheNames, OpenForWriting(n)
    PROVE  /\ dir'[n] \in 1..Len(disk') /\ dir'[n] \in {dir[n], Len(disk) + 1}
           /\ \A m \in CacheNames \ {n} : dir'[m] # dir'[n]
<1>1. /\ DiskTypes' /\ Exists(n)'
      /\ Exists(n) => dir' = dir
      /\ ~Exists(n) => dir'[n] = Len(disk) + 1
  BY Opened
<1>2. /\ dir'[n] \in 0..Len(disk') /\ dir'[n] # 0 /\ Len(disk') \in Nat
      /\ \A m \in CacheNames : dir'[m] = dir'[n] => m = n
  BY <1>1 DEF DiskTypes, Exists
<1> QED  BY <1>1, <1>2

\* What p writes reaches its own file at most.
LEMMA WroteOwn ==
    ASSUME DiskTypes, NEW p \in Proc, proc[p] # Idle, CallOK(p), HasFile(p), dir' = dir,
           NEW v \in Int \cup {Empty}, disk' = [disk EXCEPT ![proc[p].inode] = v]
    PROVE  /\ disk' \in Seq(Int \cup {Empty}) /\ Len(disk') = Len(disk)
           /\ \A m \in CacheNames : dir[m] # proc[p].inode => Holds(m)' = Holds(m)
           /\ \A m \in CacheNames : dir[m] = proc[p].inode => Holds(m)' = v /\ m = FileOf(p) /\ Exists(m)
<1>1. proc[p].inode \in 1..Len(disk) /\ \A m \in CacheNames \ {FileOf(p)} : dir[m] # proc[p].inode
  BY DEF CallOK
<1>2. /\ disk' \in Seq(Int \cup {Empty}) /\ Len(disk') = Len(disk)
      /\ disk'[proc[p].inode] = v /\ \A i \in 1..Len(disk) : i # proc[p].inode => disk'[i] = disk[i]
  BY <1>1 DEF DiskTypes
<1>3. ASSUME NEW m \in CacheNames, dir[m] # proc[p].inode
      PROVE  Holds(m)' = Holds(m)
  BY <1>2, <1>3 DEF DiskTypes, Holds, Exists
<1>4. ASSUME NEW m \in CacheNames, dir[m] = proc[p].inode
      PROVE  Holds(m)' = v /\ m = FileOf(p) /\ Exists(m)
  BY <1>1, <1>2, <1>4 DEF DiskTypes, Holds, Exists
<1> QED  BY <1>2, <1>3, <1>4

-----------------------------------------------------------------------------
(* What the other files and calls see of a step of p. *)

LEMMA OthersCalls ==
    ASSUME DiskInv, NEW p \in Proc, NEW q \in Proc, proc'[q] = proc[q], Len(disk') \in {Len(disk), Len(disk) + 1},
           \A m \in CacheNames : dir'[m] \in {dir[m], 0, Len(disk) + 1}
    PROVE  CallOK(q)'
<1>1. CallOK(q) /\ Len(disk) \in Nat
  BY DEF DiskInv, DiskTypes
<1> QED  BY <1>1 DEF CallOK, HasFile, FileOf

\* A file stays as it is, and p is not at it afterwards.
LEMMA CountedStill ==
    ASSUME NEW n, Counted(n), NEW p \in Proc, \A q \in Proc : q # p => proc'[q] = proc[q],
           dir'[n] = dir[n], Holds(n)' = Holds(n),
           Exists(n) => \A q \in Proc : q # p /\ flock[dir[n]] = q => flock'[dir[n]] = q,
           note'.counted[n] = note.counted[n], note'.creators[n] = note.creators[n],
           ~UpdatesAt(p, n, {"first", "lock", "write"})'
    PROVE  Counted(n)'
<1>1. Exists(n)' = Exists(n)
  BY DEF Exists
<1>2. ASSUME NEW q \in Proc
      PROVE  /\ UpdatesAt(q, n, {"first"})' => UpdatesAt(q, n, {"first"})
             /\ UpdatesAt(q, n, {"write"})' => UpdatesAt(q, n, {"write"})
             /\ UpdatesAt(q, n, {"lock", "write"})' => UpdatesAt(q, n, {"lock", "write"})
             /\ MakesAt(q, n)' => MakesAt(q, n)
             /\ UpdatesAt(q, n, {"lock", "write"})' => proc'[q] = proc[q]
             /\ UpdatesAt(q, n, {"write"})' => proc'[q] = proc[q] /\ q # p
  BY DEF UpdatesAt, MakesAt
<1>3. ASSUME NEW q \in Proc, UpdatesAt(q, n, {"write"})', Exists(n)
      PROVE  flock'[dir'[n]] = q /\ proc'[q].count = note'.counted[n]
  BY <1>2, <1>3 DEF Counted
<1> QED  BY <1>1, <1>2, <1>3 DEF Counted

\* No file becomes empty but one that p opens for it, and a writer that goes has written.
LEMMA OpenStill ==
    ASSUME EmptyIsOpen, NEW p \in Proc, \A q \in Proc : q # p => proc'[q] = proc[q],
           note.spoilt => note'.spoilt,
           \A n \in CacheNames : ~note'.spoilt /\ Exists(n)' /\ Holds(n)' = Empty =>
              \/ IsWriting(p)' /\ proc'[p].inode = dir'[n]
              \/ /\ dir'[n] = dir[n] /\ Exists(n) /\ Holds(n) = Empty
                 /\ ~(IsWriting(p) /\ proc[p].inode = dir[n])
    PROVE  EmptyIsOpen'
<1>1. ASSUME NEW q \in Proc, q # p, IsWriting(q)
      PROVE  IsWriting(q)' /\ proc'[q].inode = proc[q].inode
  BY <1>1 DEF IsWriting, Is
<1> SUFFICES ASSUME ~note'.spoilt, NEW n \in CacheNames, Exists(n)', Holds(n)' = Empty
             PROVE  \E q \in Proc : IsWriting(q)' /\ proc'[q].inode = dir'[n]
  BY DEF EmptyIsOpen
<1>2. CASE IsWriting(p)' /\ proc'[p].inode = dir'[n]
  BY <1>2
<1>3. CASE /\ dir'[n] = dir[n] /\ Exists(n) /\ Holds(n) = Empty
           /\ ~(IsWriting(p) /\ proc[p].inode = dir[n])
  <2>1. PICK q \in Proc : IsWriting(q) /\ proc[q].inode = dir[n]
    BY <1>3 DEF EmptyIsOpen
  <2> QED  BY <1>1, <1>3, <2>1
<1> QED  BY <1>2, <1>3

-----------------------------------------------------------------------------
(* The steps. *)

\* A step of p that writes nothing.
LEMMA QuietStep ==
    ASSUME Alone, DiskInv, NEW p \in Proc, Moved(p), UNCHANGED diskVars,
           note'.counted = note.counted, note'.creators = note.creators, note'.cut = note.cut,
           note'.spoilt = note.spoilt, note'.forgot = note.forgot,
           CallOK(p)', ~IsWriting(p), proc'[p].pc \notin {"first", "lock", "write", "put"}
    PROVE  DiskInv'
<1>1. dir' = dir /\ disk' = disk /\ flock' = flock /\ \A q \in Proc : q # p => proc'[q] = proc[q]
  BY DEF diskVars, Moved
<1>2. DiskTypes' /\ NoteTypes'
  BY <1>1 DEF DiskInv, DiskTypes, NoteTypes
<1>3. ASSUME NEW q \in Proc
      PROVE  CallOK(q)'
  BY <1>1, <1>3, OthersCalls
<1>4. \A n \in CacheNames : Exists(n)' = Exists(n) /\ Holds(n)' = Holds(n)
  BY <1>1 DEF Exists, Holds
<1>5. EmptyIsOpen'
  BY <1>1, <1>4, OpenStill DEF DiskInv
<1>6. ASSUME NEW n \in Applied, Good(n)'
      PROVE  Counted(n)'
  <2>1. Counted(n) /\ n \in CacheNames /\ ~UpdatesAt(p, n, {"first", "lock", "write"})'
    BY <1>6 DEF DiskInv, Good, UpdatesAt, Applied, CacheNames
  <2> QED  BY <1>1, <1>4, <2>1, CountedStill
<1> QED  BY <1>2, <1>3, <1>5, <1>6 DEF DiskInv

\* A step of p that removes the file n.
LEMMA DropStep ==
    ASSUME Alone, DiskInv, NEW p \in Proc, Moved(p), NEW n \in CacheNames, Unlink(n),
           note'.counted = note.counted, note'.creators = note.creators, note'.cut = note.cut \cup {n},
           note'.spoilt = note.spoilt, note'.forgot \in Nat,
           CallOK(p)', ~IsWriting(p), proc'[p].pc \notin {"first", "lock", "write", "put"}
    PROVE  DiskInv'
<1>1. disk' = disk /\ flock' = flock /\ \A q \in Proc : q # p => proc'[q] = proc[q]
  BY DEF Unlink, Moved
<1>2. DOMAIN dir' = Name /\ dir'[n] = 0 /\ \A m \in CacheNames : m # n => dir'[m] = dir[m]
  BY CacheAssumption DEF Unlink, DiskInv, DiskTypes
<1>3. DiskTypes' /\ NoteTypes'
  BY <1>1, <1>2 DEF DiskInv, DiskTypes, NoteTypes
<1>4. ASSUME NEW q \in Proc
      PROVE  CallOK(q)'
  BY <1>1, <1>2, <1>4, OthersCalls
<1>5. ~Exists(n)' /\ \A m \in CacheNames : m # n => Exists(m)' = Exists(m) /\ Holds(m)' = Holds(m)
  BY <1>1, <1>2 DEF Exists, Holds
<1>6. EmptyIsOpen'
  BY <1>1, <1>2, <1>5, OpenStill DEF DiskInv
<1>7. ASSUME NEW m \in Applied, Good(m)'
      PROVE  Counted(m)'
  <2>1. Counted(m) /\ m # n /\ m \in CacheNames /\ ~UpdatesAt(p, m, {"first", "lock", "write"})'
    BY <1>7 DEF DiskInv, Good, UpdatesAt, Applied, CacheNames
  <2> QED  BY <1>1, <1>2, <1>5, <2>1, CountedStill
<1> QED  BY <1>3, <1>4, <1>6, <1>7 DEF DiskInv

\* A step of p that concerns the file n alone.
LEMMA FileStep ==
    ASSUME Alone, DiskInv, NEW p \in Proc, Moved(p), NEW n \in CacheNames, DiskTypes', NoteTypes', CallOK(p)',
           Len(disk') \in {Len(disk), Len(disk) + 1},
           dir'[n] \in {dir[n], Len(disk) + 1}, EmptyIsOpen',
           \A m \in CacheNames : m # n =>
              /\ dir'[m] = dir[m]
              /\ Exists(m) => /\ Holds(m)' = Holds(m)
                              /\ \A q \in Proc : q # p /\ flock[dir[m]] = q => flock'[dir[m]] = q,
           \A m \in Applied : m # n => note'.counted[m] = note.counted[m] /\ note'.creators[m] = note.creators[m],
           note'.cut = note.cut, note.spoilt => note'.spoilt,
           proc'[p].pc \in {"first", "lock", "write"} => proc'[p].file = n,
           n \in Applied /\ Good(n)' => Counted(n)'
    PROVE  DiskInv'
<1>1. \A q \in Proc : q # p => proc'[q] = proc[q]
  BY DEF Moved
<1>2. ASSUME NEW q \in Proc
      PROVE  CallOK(q)'
  BY <1>1, <1>2, OthersCalls
<1>3. ASSUME NEW m \in Applied, m # n, Good(m)'
      PROVE  Counted(m)'
  <2>1. Counted(m) /\ m \in CacheNames /\ ~UpdatesAt(p, m, {"first", "lock", "write"})'
    BY <1>3 DEF DiskInv, Good, UpdatesAt, Applied, CacheNames, NoteTypes
  <2>2. Holds(m)' = Holds(m)
    BY <1>3, <2>1 DEF Holds, Exists
  <2> QED  BY <1>1, <1>3, <2>1, <2>2, CountedStill
<1> QED  BY <1>2, <1>3 DEF DiskInv

LEMMA ReadingSteps ==
    ASSUME Alone, note.users = "requests", DiskInv, NEW p \in Proc,
           Begin(p) \/ OpenItem(p) \/ LoadItem(p) \/ Decide(p) \/ Compute(p) \/ ReturnValue(p) \/ ClearNext(p)
    PROVE  DiskInv'
<1>1. DOMAIN note = NoteFields /\ DOMAIN proc = Proc /\ InCall(p) /\ Moved(p) /\ CallOK(p)
      /\ \A q \in Proc : q # p => proc'[q] = proc[q]
  BY RequestMoves DEF Alone, Moved, DiskInv, CacheStep
<1>2. proc[p].pc # "idle" => DOMAIN proc[p] = CallFields("requests") /\ proc[p] # Idle
  BY <1>1 DEF InCall, Idle
<1>3. DiskTypes /\ NoteTypes /\ CacheNames = {Value, Stats, Counter} /\ Applied = {Stats, Counter}
  BY DEF DiskInv, CacheNames, Applied
<1>4. proc'[p] = Idle => CallOK(p)' /\ proc'[p].pc = "idle"
  BY DEF CallOK, Idle
<1>5. ASSUME Return(p), UNCHANGED <<diskVars, note>>, ~IsWriting(p)
      PROVE  DiskInv'
  <2>1. proc'[p] = Idle
    BY <1>1, <1>5, ReturnMoves
  <2> QED  BY <1>1, <1>4, <1>5, <2>1, QuietStep
<1>6. CASE Begin(p)
  <2>1. PICK program : /\ Call(p, program)
                       /\ program.pc \in {"read", "apply", "clear"} /\ program.file \in CacheNames
                       /\ program.item \in Int /\ program.todo \subseteq CacheNames
                       /\ program.pc = "apply" => program.file \in Applied
    <3>1. CASE \E op \in {"get", "drop"} : Call(p, Working(op, "read"))
      BY <1>3, <3>1 DEF Working, Nothing
    <3>2. CASE Call(p, [Working("incr", "apply") EXCEPT !.file = Counter])
      BY <1>3, <3>2 DEF Working, Nothing
    <3>3. CASE Call(p, [Working("clear", "clear") EXCEPT !.todo = {n \in CacheNames : Exists(n)}])
      <4> DEFINE program == [Working("clear", "clear") EXCEPT !.todo = {n \in CacheNames : Exists(n)}]
      <4>1. program.pc = "clear" /\ program.file = Value /\ program.item = Nothing
            /\ program.todo = {n \in CacheNames : Exists(n)}
        BY DEF Working
      <4>2. program.todo \subseteq CacheNames /\ program.item \in Int /\ program.file \in CacheNames
        BY <1>3, <4>1 DEF Nothing
      <4> QED  BY <3>3, <4>1, <4>2
    <3> QED  BY <1>6, <3>1, <3>2, <3>3 DEF Begin
  <2>2. proc'[p] = program /\ UNCHANGED <<diskVars, note>> /\ proc[p].pc = "idle"
    BY <1>1, <1>6, <2>1, CallMoves DEF Begin, Call, Is
  <2>3. CallOK(p)' /\ ~IsWriting(p) /\ proc'[p].pc \notin {"first", "lock", "write", "put"}
    BY <2>1, <2>2 DEF CallOK, HasFile, IsWriting, Is
  <2> QED  BY <1>1, <2>2, <2>3, QuietStep
<1>7. CASE OpenItem(p)
  <2>1. proc[p].pc = "read" /\ UNCHANGED <<diskVars, note>> /\ proc[p] # Idle
    BY <1>2, <1>7 DEF OpenItem, Is
  <2>2. CASE Exists(Value)
    <3>1. Step(p, [pc |-> "load", inode |-> dir[Value]])
      BY <1>7, <2>2 DEF OpenItem
    <3>2. /\ proc'[p].pc = "load" /\ proc'[p].inode = dir[Value] /\ proc'[p].file = proc[p].file
          /\ proc'[p].item = proc[p].item /\ proc'[p].todo = proc[p].todo
      BY <1>1, <1>2, <2>1, <3>1, StepMoves DEF CallFields
    <3>3. dir' = dir /\ disk' = disk /\ dir[Value] \in 1..Len(disk)
          /\ \A m \in CacheNames \ {Value} : dir[m] # dir[Value]
      BY <1>3, <2>1, <2>2 DEF diskVars, DiskTypes, Exists
    <3>4. CallOK(p)'
      BY <1>1, <2>1, <3>2, <3>3 DEF CallOK, HasFile, FileOf
    <3> QED  BY <1>1, <2>1, <3>2, <3>4, QuietStep DEF IsWriting, Is
  <2>3. CASE ~Exists(Value)
    <3>1. Step(p, [pc |-> "apply", file |-> Stats, then |-> "decide"])
      BY <1>7, <2>3 DEF OpenItem
    <3>2. /\ proc'[p].pc = "apply" /\ proc'[p].file = Stats
          /\ proc'[p].item = proc[p].item /\ proc'[p].todo = proc[p].todo
      BY <1>1, <1>2, <2>1, <3>1, StepMoves DEF CallFields
    <3>3. CallOK(p)'
      BY <1>1, <1>3, <2>1, <3>2 DEF CallOK, HasFile
    <3> QED  BY <1>1, <2>1, <3>2, <3>3, QuietStep DEF IsWriting, Is
  <2> QED  BY <2>2, <2>3
<1>8. CASE LoadItem(p)
  <2>1. proc[p].pc = "load" /\ UNCHANGED <<diskVars, note>> /\ proc[p] # Idle /\ ~IsWriting(p)
    BY <1>2, <1>8 DEF LoadItem, Is, IsWriting
  <2>2. CASE Return(p)
    BY <1>5, <2>1, <2>2
  <2>3. CASE ~Return(p)
    <3>1. disk[proc[p].inode] # Empty
          /\ Step(p, [pc |-> "apply", item |-> disk[proc[p].inode], file |-> Stats, then |-> "decide"])
      BY <1>8, <2>3 DEF LoadItem, Raise
    <3>2. /\ proc'[p].pc = "apply" /\ proc'[p].file = Stats
          /\ proc'[p].item = disk[proc[p].inode] /\ proc'[p].todo = proc[p].todo
      BY <1>1, <1>2, <2>1, <3>1, StepMoves DEF CallFields
    <3>3. disk[proc[p].inode] \in Int
      BY <1>1, <1>3, <2>1, <3>1 DEF CallOK, HasFile, DiskTypes
    <3>4. CallOK(p)'
      BY <1>1, <1>3, <2>1, <3>2, <3>3 DEF CallOK, HasFile
    <3> QED  BY <1>1, <2>1, <3>2, <3>4, QuietStep
  <2> QED  BY <2>2, <2>3
<1>9. CASE Decide(p)
  <2>1. proc[p].pc = "decide" /\ proc[p] # Idle /\ ~IsWriting(p)
    BY <1>2, <1>9 DEF Decide, Is, IsWriting
  <2>2. CASE Return(p) /\ UNCHANGED <<diskVars, note>>
    BY <1>5, <2>1, <2>2
  <2>3. CASE Return(p) /\ Unlink(Value) /\ note' = [note EXCEPT !.cut = @ \cup {Value}]
    <3>1. proc'[p] = Idle
      BY <1>1, <2>3, ReturnMoves
    <3>2. /\ note'.counted = note.counted /\ note'.creators = note.creators
          /\ note'.cut = note.cut \cup {Value}
          /\ note'.spoilt = note.spoilt /\ note'.forgot = note.forgot /\ note'.forgot \in Nat
      BY <1>1, <1>3, <2>3 DEF NoteFields, NoteTypes
    <3> QED  BY <1>1, <1>3, <1>4, <2>1, <2>3, <3>1, <3>2, DropStep
  <2>4. CASE \E pc \in {"return", "compute"} : Step(p, [pc |-> pc]) /\ UNCHANGED <<diskVars, note>>
    <3>1. PICK pc \in {"return", "compute"} : Step(p, [pc |-> pc]) /\ UNCHANGED <<diskVars, note>>
      BY <2>4
    <3>2. /\ proc'[p].pc = pc /\ proc'[p].file = proc[p].file
          /\ proc'[p].item = proc[p].item /\ proc'[p].todo = proc[p].todo
      BY <1>1, <1>2, <2>1, <3>1, StepMoves DEF CallFields
    <3>3. CallOK(p)'
      BY <1>1, <2>1, <3>2 DEF CallOK, HasFile
    <3> QED  BY <1>1, <2>1, <3>1, <3>2, <3>3, QuietStep
  <2> QED  BY <1>9, <2>2, <2>3, <2>4 DEF Decide
<1>10. CASE Compute(p)
  <2>1. proc[p].pc = "compute" /\ UNCHANGED <<diskVars, note>> /\ proc[p] # Idle /\ ~IsWriting(p)
    BY <1>2, <1>10 DEF Compute, Is, IsWriting
  <2>2. CASE Return(p)
    BY <1>5, <2>1, <2>2
  <2>3. CASE Step(p, [pc |-> "store", item |-> note.forgot])
    <3>1. /\ proc'[p].pc = "store" /\ proc'[p].file = proc[p].file
          /\ proc'[p].item = note.forgot /\ proc'[p].todo = proc[p].todo
      BY <1>1, <1>2, <2>1, <2>3, StepMoves DEF CallFields
    <3>2. CallOK(p)'
      BY <1>1, <1>3, <2>1, <3>1 DEF CallOK, HasFile, NoteTypes
    <3> QED  BY <1>1, <2>1, <3>1, <3>2, QuietStep
  <2>4. CASE Step(p, [pc |-> "stuck"])
    <3>1. /\ proc'[p].pc = "stuck" /\ proc'[p].file = proc[p].file
          /\ proc'[p].item = proc[p].item /\ proc'[p].todo = proc[p].todo
      BY <1>1, <1>2, <2>1, <2>4, StepMoves DEF CallFields
    <3>2. CallOK(p)'
      BY <1>1, <2>1, <3>1 DEF CallOK, HasFile
    <3> QED  BY <1>1, <2>1, <3>1, <3>2, QuietStep
  <2> QED  BY <1>10, <2>2, <2>3, <2>4 DEF Compute
<1>11. CASE ReturnValue(p)
  BY <1>5, <1>11 DEF ReturnValue, Is, IsWriting
<1>12. CASE ClearNext(p)
  <2>1. proc[p].pc = "clear" /\ proc[p] # Idle /\ ~IsWriting(p)
    <3>1. proc[p].pc = "clear"
      BY <1>12 DEF ClearNext, Is
    <3> QED  BY <1>2, <3>1 DEF IsWriting, Is
  <2>2. CASE Return(p) /\ UNCHANGED <<diskVars, note>>
    BY <1>5, <2>1, <2>2
  <2>3. CASE ~(Return(p) /\ UNCHANGED <<diskVars, note>>)
    <3>1. PICK n \in proc[p].todo :
             /\ Step(p, [todo |-> proc[p].todo \ {n}])
             /\ Unlink(n)
             /\ note' = IF n = Value
                        THEN [note EXCEPT !.cut = @ \cup {n}, !.forgot = @ + 1,
                                          !.stale = @ \/ \E q \in Proc : Is(q, "store")]
                        ELSE [note EXCEPT !.cut = @ \cup {n}]
      BY <1>12, <2>3 DEF ClearNext
    <3>2. n \in CacheNames
      BY <1>1, <2>1 DEF CallOK
    <3>3. /\ note'.counted = note.counted /\ note'.creators = note.creators
          /\ note'.cut = note.cut \cup {n}
          /\ note'.spoilt = note.spoilt /\ note'.forgot \in Nat
      BY <1>1, <1>3, <3>1 DEF NoteFields, NoteTypes
    <3>4. /\ proc'[p].pc = "clear" /\ proc'[p].file = proc[p].file
          /\ proc'[p].item = proc[p].item /\ proc'[p].todo = proc[p].todo \ {n}
      BY <1>1, <1>2, <2>1, <3>1, StepMoves DEF CallFields
    <3>5. CallOK(p)'
      BY <1>1, <2>1, <3>4 DEF CallOK, HasFile
    <3> QED  BY <1>1, <2>1, <3>1, <3>2, <3>3, <3>4, <3>5, DropStep
  <2> QED  BY <2>2, <2>3
<1> QED  BY <1>6, <1>7, <1>8, <1>9, <1>10, <1>11, <1>12

LEMMA WritingSteps ==
    ASSUME Alone, note.users = "requests", DiskInv, NEW p \in Proc,
           ApplyOpen(p) \/ ApplyFirst(p) \/ ApplyLoad(p) \/ ApplyStore(p) \/ StoreOpen(p) \/ StorePut(p) \/ Killed(p)
    PROVE  DiskInv'
<1> SUFFICES ASSUME NEW n, n = proc[p].file, NEW i, i = proc[p].inode
             PROVE  DiskInv'
  OBVIOUS
<1>1. /\ DOMAIN note = NoteFields /\ DOMAIN proc = Proc /\ InCall(p) /\ Moved(p) /\ CallOK(p)
      /\ \A q \in Proc : q # p => proc'[q] = proc[q]
      /\ proc[p].pc \in {"apply", "first", "lock", "write", "store", "put"}
  <2>1. proc[p].pc \in {"apply", "first", "lock", "write", "store", "put"}
    BY DEF ApplyOpen, ApplyFirst, ApplyLoad, ApplyStore, StoreOpen, StorePut, Killed, Is
  <2> QED  BY <2>1, RequestMoves DEF Alone, Moved, DiskInv, CacheStep
<1>2. DOMAIN proc[p] = CallFields("requests") /\ proc[p] # Idle /\ proc[p].then \in {"idle", "decide", "return"}
  BY <1>1 DEF InCall, Idle
<1>3. /\ DiskTypes /\ NoteTypes /\ EmptyIsOpen /\ CacheNames = {Value, Stats, Counter} /\ Applied = {Stats, Counter}
      /\ Value \notin Applied /\ Len(disk) \in Nat
      /\ \A m \in Applied : Good(m) => Counted(m)
  BY CacheAssumption DEF DiskInv, CacheNames, Applied, DiskTypes
<1>4. /\ n \in CacheNames /\ proc[p].item \in Int /\ proc[p].todo \subseteq CacheNames
      /\ proc[p].pc \in {"apply", "first", "lock", "write"} => n \in Applied
      /\ HasFile(p) => i \in 1..Len(disk) /\ \A m \in CacheNames \ {FileOf(p)} : dir[m] # i
  BY <1>1, <1>2 DEF CallOK
<1>5. proc'[p] = Idle => CallOK(p)' /\ proc'[p].pc = "idle"
  BY DEF CallOK, Idle
<1>6. CASE ApplyOpen(p)
  <2>1. proc[p].pc = "apply" /\ UNCHANGED <<diskVars, ops>> /\ ~IsWriting(p)
    BY <1>6 DEF ApplyOpen, Is, IsWriting
  <2>2. dir' = dir /\ disk' = disk /\ flock' = flock /\ DiskTypes' /\ n \in Applied
        /\ \A m \in CacheNames : Exists(m)' = Exists(m) /\ Holds(m)' = Holds(m)
    BY <1>3, <1>4, <2>1 DEF diskVars, DiskTypes, Exists, Holds
  <2>3. CASE Exists(n)
    <3>1. Step(p, [pc |-> "lock", found |-> TRUE, inode |-> dir[n]]) /\ note' = note
      BY <1>6, <2>3 DEF ApplyOpen
    <3>2. /\ proc'[p].pc = "lock" /\ proc'[p].inode = dir[n] /\ proc'[p].file = n /\ proc'[p].found = TRUE
          /\ proc'[p].item = proc[p].item /\ proc'[p].todo = proc[p].todo
      BY <1>1, <1>2, <2>1, <3>1, StepMoves DEF CallFields
    <3>3. dir[n] \in 1..Len(disk) /\ \A m \in CacheNames \ {n} : dir[m] # dir[n]
      BY <1>3, <1>4, <2>3 DEF DiskTypes, Exists
    <3>4. CallOK(p)' /\ NoteTypes'
      BY <1>3, <1>4, <2>2, <3>1, <3>2, <3>3 DEF CallOK, HasFile, FileOf, NoteTypes
    <3>5. EmptyIsOpen'
      BY <1>1, <1>3, <2>1, <2>2, <3>1, OpenStill
    <3>6. ASSUME Good(n)'
          PROVE  Counted(n)'
      <4>1. Counted(n)
        BY <1>3, <2>2, <3>1, <3>6 DEF Good
      <4>2. /\ \A q \in Proc : q # p => /\ UpdatesAt(q, n, {"first"})' = UpdatesAt(q, n, {"first"})
                                        /\ UpdatesAt(q, n, {"write"})' = UpdatesAt(q, n, {"write"})
                                        /\ UpdatesAt(q, n, {"lock", "write"})' = UpdatesAt(q, n, {"lock", "write"})
                                        /\ MakesAt(q, n)' = MakesAt(q, n)
            /\ ~UpdatesAt(p, n, {"first"})' /\ ~UpdatesAt(p, n, {"write"})' /\ ~MakesAt(p, n)'
        BY <1>1, <3>2 DEF UpdatesAt, MakesAt
      <4>3. \A q \in Proc : UpdatesAt(q, n, {"lock", "write"})' => proc'[q].inode = dir[n]
        BY <1>1, <2>3, <3>2, <4>1, <4>2 DEF Counted
      <4>4. \A q \in Proc : /\ UpdatesAt(q, n, {"write"})' => UpdatesAt(q, n, {"write"}) /\ proc'[q] = proc[q]
                            /\ MakesAt(q, n)' => MakesAt(q, n)
                            /\ ~UpdatesAt(q, n, {"first"})'
        BY <1>1, <2>3, <4>1, <4>2 DEF Counted
      <4>5. note' = note /\ dir' = dir /\ flock' = flock /\ Exists(n) /\ Exists(n)' /\ Holds(n)' = Holds(n)
        BY <1>4, <2>2, <2>3, <3>1
      <4>6. CASE Holds(n) = Empty
        <5>1. \A q \in Proc : UpdatesAt(q, n, {"write"})' => ~proc'[q].found
          BY <4>1, <4>4, <4>5, <4>6 DEF Counted
        <5> QED  BY <4>1, <4>3, <4>4, <4>5, <4>6, <5>1 DEF Counted
      <4>7. CASE Holds(n) # Empty
        BY <4>1, <4>3, <4>4, <4>5, <4>7 DEF Counted
      <4> QED  BY <4>6, <4>7
    <3> QED  BY <1>1, <1>4, <2>2, <3>1, <3>2, <3>4, <3>5, <3>6, FileStep
  <2>4. CASE ~Exists(n)
    <3>1. Step(p, [pc |-> "first", found |-> FALSE]) /\ note' = [note EXCEPT !.creators[n] = @ + 1]
      BY <1>6, <2>4 DEF ApplyOpen
    <3>2. /\ proc'[p].pc = "first" /\ proc'[p].file = n /\ proc'[p].found = FALSE
          /\ proc'[p].item = proc[p].item /\ proc'[p].todo = proc[p].todo
      BY <1>1, <1>2, <2>1, <3>1, StepMoves DEF CallFields
    <3>3. /\ note'.counted = note.counted /\ note'.creators = [note.creators EXCEPT ![n] = @ + 1]
          /\ note'.cut = note.cut /\ note'.spoilt = note.spoilt /\ note'.forgot = note.forgot
      BY <1>1, <3>1 DEF NoteFields
    <3>4. CallOK(p)' /\ NoteTypes' /\ note'.creators[n] = note.creators[n] + 1 /\ note.creators[n] \in Nat
          /\ \A m \in Applied : m # n => note'.creators[m] = note.creators[m]
      <4>1. CallOK(p)'
        BY <1>4, <2>2, <3>2 DEF CallOK, HasFile
      <4>2. /\ note.creators \in [Applied -> Nat] /\ n \in Applied
            /\ note'.creators \in [Applied -> Nat] /\ note'.creators[n] = note.creators[n] + 1
            /\ \A m \in Applied : m # n => note'.creators[m] = note.creators[m]
        <5>1. note.creators \in [Applied -> Nat] /\ n \in Applied
          BY <1>3, <1>4, <2>2 DEF NoteTypes
        <5> QED  BY <3>3, <5>1
      <4> QED  BY <1>3, <3>3, <4>1, <4>2 DEF NoteTypes
    <3>5. EmptyIsOpen'
      BY <1>1, <1>3, <2>1, <2>2, <3>3, OpenStill
    <3>6. ASSUME Good(n)'
          PROVE  Counted(n)'
      <4>1. Counted(n) /\ note.creators[n] = 0
        BY <1>3, <2>2, <3>3, <3>4, <3>6 DEF Good
      <4>2. \A q \in Proc : ~UpdatesAt(q, n, {"first"}) /\ ~UpdatesAt(q, n, {"lock", "write"}) /\ ~MakesAt(q, n)
        BY <2>4, <4>1 DEF Counted, MakesAt
      <4>3. /\ \A q \in Proc : q # p => ~UpdatesAt(q, n, {"first"})' /\ ~MakesAt(q, n)'
            /\ \A q \in Proc : ~UpdatesAt(q, n, {"lock", "write"})'
        BY <1>1, <3>2, <4>2 DEF UpdatesAt, MakesAt
      <4>4. ~Exists(n)' /\ note'.creators[n] # 0 /\ note'.counted[n] = 0
        BY <1>4, <2>2, <2>4, <3>3, <3>4, <4>1 DEF Counted
      <4>5. \A q, r \in Proc : MakesAt(q, n)' /\ MakesAt(r, n)' => q = r
        BY <4>3
      <4> QED  BY <4>3, <4>4, <4>5 DEF Counted
    <3> QED  BY <1>1, <1>4, <2>2, <3>2, <3>3, <3>4, <3>5, <3>6, FileStep
  <2> QED  BY <2>3, <2>4
<1>7. CASE ApplyFirst(p)
  <2>1. proc[p].pc = "first" /\ OpenForWriting(n) /\ note' = note /\ ~IsWriting(p) /\ n \in Applied /\ ~proc[p].found
        /\ Step(p, [pc |-> "lock", inode |-> InodeForWriting(n)])
    BY <1>1, <1>2, <1>4, <1>7 DEF ApplyFirst, Is, IsWriting, CallOK
  <2>2. /\ proc'[p].pc = "lock" /\ proc'[p].inode = InodeForWriting(n) /\ proc'[p].file = n /\ ~proc'[p].found
        /\ proc'[p].item = proc[p].item /\ proc'[p].todo = proc[p].todo
    BY <1>1, <1>2, <2>1, StepMoves DEF CallFields
  <2>3. /\ DiskTypes'
        /\ dir'[n] = InodeForWriting(n) /\ Exists(n)' /\ Holds(n)' = Empty
        /\ Len(disk') \in {Len(disk), Len(disk) + 1}
        /\ Exists(n) => dir' = dir
        /\ ~Exists(n) => dir'[n] = Len(disk) + 1 /\ Len(disk') = Len(disk) + 1
        /\ \A m \in CacheNames : m # n =>
              dir'[m] = dir[m] /\ (Exists(m) => Holds(m)' = Holds(m) /\ flock'[dir[m]] = flock[dir[m]])
    BY <1>3, <1>4, <2>1, Opened
  <2>4. dir'[n] \in 1..Len(disk') /\ (\A m \in CacheNames \ {n} : dir'[m] # dir'[n])
        /\ dir'[n] \in {dir[n], Len(disk) + 1}
    BY <1>3, <1>4, <2>1, ItsInode
  <2>5. CallOK(p)' /\ NoteTypes'
    BY <1>3, <1>4, <2>1, <2>2, <2>3, <2>4 DEF CallOK, HasFile, FileOf, NoteTypes
  <2>6. EmptyIsOpen'
    <3>1. IsWriting(p)' /\ proc'[p].inode = dir'[n]
      BY <2>2, <2>3 DEF IsWriting, Is
    <3>2. \A m \in CacheNames : m # n => Exists(m)' = Exists(m) /\ Holds(m)' = Holds(m)
      BY <2>3 DEF Exists, Holds
    <3> QED  BY <1>1, <1>3, <2>1, <2>3, <3>1, <3>2, OpenStill
  <2>7. ASSUME Good(n)'
        PROVE  Counted(n)'
    <3>1. Counted(n) /\ UpdatesAt(p, n, {"first"}) /\ MakesAt(p, n)
      BY <1>3, <2>1, <2>7 DEF Good, UpdatesAt, MakesAt
    <3>2. /\ ~Exists(n) /\ note.creators[n] # 0 /\ note.counted[n] = 0
          /\ \A q \in Proc : ~UpdatesAt(q, n, {"lock", "write"}) /\ (MakesAt(q, n) => q = p)
      BY <3>1 DEF Counted
    <3>3. /\ \A q \in Proc : q # p => ~MakesAt(q, n)' /\ ~UpdatesAt(q, n, {"lock", "write"})'
          /\ \A q \in Proc : ~UpdatesAt(q, n, {"first"})' /\ ~UpdatesAt(q, n, {"write"})'
      BY <1>1, <2>2, <3>2 DEF UpdatesAt, MakesAt
    <3> QED  BY <2>1, <2>2, <2>3, <3>2, <3>3 DEF Counted
  <2> QED  BY <1>1, <1>4, <2>1, <2>2, <2>3, <2>4, <2>5, <2>6, <2>7, FileStep
<1>8. CASE ApplyLoad(p)
  <2>1. proc[p].pc = "lock" /\ UNCHANGED <<dir, disk, note>> /\ n \in Applied /\ HasFile(p) /\ FileOf(p) = n
        /\ flock[i] = NoProc
    BY <1>4, <1>8 DEF ApplyLoad, Is, HasFile, FileOf, Unlocked
  <2>2. CASE proc[p].found /\ disk[i] = Empty
    <3>1. Return(p) /\ UNCHANGED <<diskVars, note>> /\ ~IsWriting(p)
      BY <1>8, <2>1, <2>2 DEF ApplyLoad, Raise, diskVars, IsWriting, Is
    <3>2. proc'[p] = Idle
      BY <1>1, <3>1, ReturnMoves
    <3> QED  BY <1>1, <1>5, <3>1, <3>2, QuietStep
  <2>3. CASE ~(proc[p].found /\ disk[i] = Empty)
    <3>1. flock' = [flock EXCEPT ![i] = p]
          /\ Step(p, [pc |-> "write", count |-> IF proc[p].found THEN disk[i] ELSE 0])
      BY <1>8, <2>3 DEF ApplyLoad
    <3>2. /\ proc'[p].pc = "write" /\ proc'[p].inode = i /\ proc'[p].file = n /\ proc'[p].found = proc[p].found
          /\ proc'[p].item = proc[p].item /\ proc'[p].todo = proc[p].todo
          /\ proc'[p].count = IF proc[p].found THEN disk[i] ELSE 0
      BY <1>1, <1>2, <2>1, <3>1, StepMoves DEF CallFields
    <3>3. /\ flock' \in Seq(Proc \cup {NoProc}) /\ Len(flock') = Len(flock) /\ flock'[i] = p
          /\ \A j \in 1..Len(disk) : j # i => flock'[j] = flock[j]
          /\ i \in 1..Len(disk) /\ \A m \in CacheNames \ {n} : dir[m] # i
      BY <1>3, <1>4, <2>1, <3>1 DEF DiskTypes
    <3>4. DiskTypes' /\ NoteTypes' /\ CallOK(p)'
      <4>1. proc'[p].count \in Int
        BY <1>3, <2>3, <3>2, <3>3 DEF DiskTypes
      <4>2. DiskTypes' /\ NoteTypes'
        BY <1>3, <2>1, <3>3 DEF DiskTypes, NoteTypes
      <4> QED  BY <1>4, <2>1, <3>2, <3>3, <4>1, <4>2 DEF CallOK, HasFile, FileOf
    <3>5. /\ \A m \in CacheNames : Exists(m)' = Exists(m) /\ Holds(m)' = Holds(m)
          /\ \A m \in CacheNames : m # n /\ Exists(m) => flock'[dir[m]] = flock[dir[m]]
      <4>1. \A m \in CacheNames : m # n /\ Exists(m) => dir[m] \in 1..Len(disk) /\ dir[m] # i
        BY <1>3, <3>3 DEF DiskTypes, Exists
      <4> QED  BY <2>1, <3>3, <4>1 DEF Exists, Holds
    <3>6. EmptyIsOpen'
      <4>1. IsWriting(p) => IsWriting(p)'
        BY <2>1, <3>2 DEF IsWriting, Is
      <4> QED  BY <1>1, <1>3, <2>1, <3>2, <3>5, <4>1, OpenStill
    <3>7. ASSUME Good(n)'
          PROVE  Counted(n)'
      <4>1. Counted(n) /\ UpdatesAt(p, n, {"lock", "write"})
        BY <1>3, <2>1, <3>7 DEF Good, UpdatesAt
      <4>2. Exists(n) /\ i = dir[n] /\ Holds(n) = disk[i]
        BY <4>1 DEF Counted, Holds
      <4>3. \A q \in Proc : ~UpdatesAt(q, n, {"write"})
        BY <2>1, <4>1, <4>2, ProcAssumption DEF Counted
      <4>4. /\ \A q \in Proc : MakesAt(q, n)' = MakesAt(q, n)
            /\ \A q \in Proc : UpdatesAt(q, n, {"first"})' => UpdatesAt(q, n, {"first"})
            /\ \A q \in Proc : UpdatesAt(q, n, {"lock", "write"})' => UpdatesAt(q, n, {"lock", "write"})
            /\ \A q \in Proc : UpdatesAt(q, n, {"write"})' => q = p
            /\ \A q \in Proc : proc'[q].inode = proc[q].inode
        BY <1>1, <2>1, <3>2, <4>3 DEF UpdatesAt, MakesAt
      <4>5. proc'[p].count = note.counted[n] /\ (Holds(n) = Empty => ~proc[p].found)
        <5>1. CASE Holds(n) = Empty
          BY <2>3, <3>2, <4>1, <4>2, <5>1 DEF Counted
        <5>2. CASE Holds(n) # Empty
          <6>1. ~MakesAt(p, n)
            BY <4>1, <4>2, <5>2 DEF Counted
          <6>2. proc[p].found
            BY <4>1, <6>1 DEF MakesAt, UpdatesAt
          <6> QED  BY <3>2, <4>1, <4>2, <5>2, <6>2 DEF Counted
        <5> QED  BY <5>1, <5>2
      <4>6. note' = note /\ dir' = dir /\ Exists(n)' /\ Holds(n)' = Holds(n) /\ flock'[dir[n]] = p
        BY <1>4, <2>1, <3>3, <3>5, <4>2
      <4>7. Holds(n) # Empty => Holds(n) = note.counted[n] /\ \A q \in Proc : ~MakesAt(q, n)'
        BY <4>1, <4>2, <4>4 DEF Counted
      <4>8. Holds(n) = Empty => note.counted[n] = 0 /\ \A q \in Proc : UpdatesAt(q, n, {"write"})' => ~proc'[q].found
        BY <3>2, <4>1, <4>2, <4>4, <4>5 DEF Counted
      <4>9. /\ \A q \in Proc : ~UpdatesAt(q, n, {"first"})'
            /\ \A q \in Proc : UpdatesAt(q, n, {"lock", "write"})' => proc'[q].inode = dir[n]
            /\ \A q \in Proc : UpdatesAt(q, n, {"write"})' => flock'[dir[n]] = q /\ proc'[q].count = note.counted[n]
        BY <4>1, <4>2, <4>4, <4>5, <4>6 DEF Counted
      <4>10. note.creators[n] # 0 /\ \A q, r \in Proc : MakesAt(q, n)' /\ MakesAt(r, n)' => q = r
        BY <4>1, <4>2, <4>4 DEF Counted
      <4> QED  BY <4>6, <4>7, <4>8, <4>9, <4>10 DEF Counted
    <3> QED  BY <1>1, <1>4, <2>1, <3>2, <3>3, <3>4, <3>5, <3>6, <3>7, FileStep
  <2> QED  BY <2>2, <2>3
<1>9. CASE ApplyStore(p)
  <2>1. /\ proc[p].pc = "write" /\ dir' = dir /\ n \in Applied /\ HasFile(p) /\ FileOf(p) = n
        /\ disk' = [disk EXCEPT ![i] = proc[p].count + 1] /\ flock' = [flock EXCEPT ![i] = NoProc]
        /\ note' = [note EXCEPT !.counted[n] = @ + 1]
    BY <1>4, <1>9 DEF ApplyStore, Is, HasFile, FileOf
  <2>2. proc[p].count \in Int /\ proc[p].count + 1 \in Int /\ proc[p].count + 1 # Empty
    BY <1>1, <1>2, <2>1, EmptyAssumption DEF CallOK
  <2>3. proc'[p].pc \in {"idle", "decide", "return"} /\ CallOK(p)'
    <3>1. CASE proc[p].then = "idle"
      <4>1. proc'[p] = Idle
        BY <1>1, <1>9, <3>1, ReturnMoves DEF ApplyStore
      <4> QED  BY <1>5, <4>1
    <3>2. CASE proc[p].then # "idle"
      <4>1. Step(p, [pc |-> proc[p].then])
        BY <1>9, <3>2 DEF ApplyStore
      <4>2. /\ proc'[p].pc = proc[p].then /\ proc'[p].file = n
            /\ proc'[p].item = proc[p].item /\ proc'[p].todo = proc[p].todo
        BY <1>1, <1>2, <2>1, <4>1, StepMoves DEF CallFields
      <4> QED  BY <1>2, <1>4, <3>2, <4>2 DEF CallOK, HasFile
    <3> QED  BY <3>1, <3>2
  <2>4. /\ disk' \in Seq(Int \cup {Empty}) /\ Len(disk') = Len(disk)
        /\ \A m \in CacheNames : dir[m] # i => Holds(m)' = Holds(m)
        /\ \A m \in CacheNames : dir[m] = i => Holds(m)' = proc[p].count + 1 /\ m = n /\ Exists(m)
    BY <1>1, <1>2, <1>3, <2>1, <2>2, WroteOwn
  <2>5. /\ flock' \in Seq(Proc \cup {NoProc}) /\ Len(flock') = Len(flock)
        /\ \A j \in 1..Len(disk) : j # i => flock'[j] = flock[j]
        /\ i \in 1..Len(disk) /\ \A m \in CacheNames \ {n} : dir[m] # i
    BY <1>3, <1>4, <2>1 DEF DiskTypes
  <2>6. DiskTypes'
    BY <1>3, <2>1, <2>4, <2>5 DEF DiskTypes
  <2>7. /\ note'.counted = [note.counted EXCEPT ![n] = @ + 1] /\ note'.creators = note.creators
        /\ note'.cut = note.cut /\ note'.spoilt = note.spoilt /\ note'.forgot = note.forgot
    BY <1>1, <2>1 DEF NoteFields
  <2>8. NoteTypes' /\ note'.counted[n] = note.counted[n] + 1 /\ note.counted[n] \in Nat
        /\ \A m \in Applied : m # n => note'.counted[m] = note.counted[m]
    BY <1>3, <2>1, <2>7 DEF NoteTypes
  <2>9. \A m \in CacheNames : Exists(m)' = Exists(m)
    BY <2>1 DEF Exists
  <2>10. EmptyIsOpen'
    BY <1>1, <1>3, <2>1, <2>2, <2>4, <2>7, <2>9, OpenStill
  <2>11. \A m \in CacheNames : m # n =>
            /\ dir'[m] = dir[m]
            /\ Exists(m) => /\ Holds(m)' = Holds(m)
                            /\ \A q \in Proc : q # p /\ flock[dir[m]] = q => flock'[dir[m]] = q
    BY <1>3, <2>1, <2>4, <2>5 DEF DiskTypes, Exists
  <2>12. ASSUME Good(n)'
         PROVE  Counted(n)'
    <3>1. Counted(n) /\ UpdatesAt(p, n, {"write"}) /\ UpdatesAt(p, n, {"lock", "write"})
      BY <1>3, <2>1, <2>7, <2>12 DEF Good, UpdatesAt
    <3>2. Exists(n) /\ i = dir[n] /\ flock[dir[n]] = p /\ proc[p].count = note.counted[n]
      BY <3>1 DEF Counted
    <3>3. \A q \in Proc : q # p => ~UpdatesAt(q, n, {"write"}) /\ ~MakesAt(q, n)
      <4>1. ASSUME NEW q \in Proc, q # p, UpdatesAt(q, n, {"write"})
            PROVE  FALSE
        BY <3>1, <3>2, <4>1 DEF Counted
      <4>2. ASSUME NEW q \in Proc, q # p, MakesAt(q, n)
            PROVE  FALSE
        <5>1. Holds(n) = Empty
          BY <3>1, <3>2, <4>2 DEF Counted
        <5>2. ~proc[p].found
          BY <3>1, <3>2, <5>1 DEF Counted
        <5>3. MakesAt(p, n)
          BY <3>1, <5>2 DEF MakesAt
        <5> QED  BY <3>1, <4>2, <5>3 DEF Counted
      <4> QED  BY <4>1, <4>2
    <3>4. /\ \A q \in Proc : ~UpdatesAt(q, n, {"write"})' /\ ~MakesAt(q, n)' /\ ~UpdatesAt(q, n, {"first"})'
          /\ \A q \in Proc : UpdatesAt(q, n, {"lock", "write"})' =>
                UpdatesAt(q, n, {"lock", "write"}) /\ proc'[q].inode = proc[q].inode
      BY <1>1, <2>3, <3>3 DEF UpdatesAt, MakesAt
    <3>5. Holds(n)' = note'.counted[n] /\ Holds(n)' # Empty /\ Exists(n)'
      BY <1>4, <2>2, <2>4, <2>8, <2>9, <3>2
    <3>6. note.creators[n] # 0
      BY <3>1, <3>2 DEF Counted
    <3>7. dir' = dir /\ note'.creators[n] # 0 /\ \A q \in Proc : UpdatesAt(q, n, {"lock", "write"})' => proc'[q].inode = dir[n]
      <4>1. \A q \in Proc : UpdatesAt(q, n, {"lock", "write"}) => proc[q].inode = dir[n]
        BY <3>1, <3>2 DEF Counted
      <4>2. \A q \in Proc : UpdatesAt(q, n, {"lock", "write"})' => proc'[q].inode = proc[q].inode
        BY <1>1, <2>3, <3>4
      <4> QED  BY <2>1, <2>7, <3>4, <3>6, <4>1
    <3> QED  BY <3>4, <3>5, <3>7 DEF Counted
  <2>13. /\ Len(disk') = Len(disk) /\ dir'[n] = dir[n]
         /\ note.spoilt => note'.spoilt
         /\ \A m \in Applied : m # n => note'.counted[m] = note.counted[m] /\ note'.creators[m] = note.creators[m]
    BY <2>1, <2>4, <2>7, <2>8
  <2> QED  BY <1>1, <1>4, <2>3, <2>6, <2>7, <2>8, <2>10, <2>11, <2>12, <2>13, FileStep
<1>10. CASE StoreOpen(p)
  <2>1. proc[p].pc = "store" /\ OpenForWriting(Value) /\ note' = note /\ ~IsWriting(p)
        /\ Step(p, [pc |-> "put", inode |-> InodeForWriting(Value)])
    BY <1>10 DEF StoreOpen, Is, IsWriting
  <2>2. /\ proc'[p].pc = "put" /\ proc'[p].inode = InodeForWriting(Value) /\ proc'[p].file = n
        /\ proc'[p].item = proc[p].item /\ proc'[p].todo = proc[p].todo
    BY <1>1, <1>2, <2>1, StepMoves DEF CallFields
  <2>3. /\ DiskTypes'
        /\ dir'[Value] = InodeForWriting(Value) /\ Exists(Value)' /\ Holds(Value)' = Empty
        /\ Len(disk') \in {Len(disk), Len(disk) + 1}
        /\ Exists(Value) => dir' = dir
        /\ ~Exists(Value) => dir'[Value] = Len(disk) + 1 /\ Len(disk') = Len(disk) + 1
        /\ \A m \in CacheNames : m # Value =>
              dir'[m] = dir[m] /\ (Exists(m) => Holds(m)' = Holds(m) /\ flock'[dir[m]] = flock[dir[m]])
    BY <1>3, <2>1, Opened
  <2>4. dir'[Value] \in 1..Len(disk') /\ (\A m \in CacheNames \ {Value} : dir'[m] # dir'[Value])
        /\ dir'[Value] \in {dir[Value], Len(disk) + 1}
    BY <1>3, <2>1, ItsInode
  <2>5. CallOK(p)' /\ NoteTypes'
    BY <1>3, <1>4, <2>1, <2>2, <2>3, <2>4 DEF CallOK, HasFile, FileOf, NoteTypes
  <2>6. EmptyIsOpen'
    <3>1. IsWriting(p)' /\ proc'[p].inode = dir'[Value]
      BY <2>2, <2>3 DEF IsWriting, Is
    <3>2. \A m \in CacheNames : m # Value => Exists(m)' = Exists(m) /\ Holds(m)' = Holds(m)
      BY <2>3 DEF Exists, Holds
    <3> QED  BY <1>1, <1>3, <2>1, <2>3, <3>1, <3>2, OpenStill
  <2> QED  BY <1>1, <1>3, <2>1, <2>2, <2>3, <2>4, <2>5, <2>6, FileStep
<1>11. CASE StorePut(p)
  <2>1. proc[p].pc = "put" /\ dir' = dir /\ flock' = flock /\ HasFile(p) /\ FileOf(p) = Value
    BY <1>11 DEF StorePut, Is, HasFile, FileOf
  <2>2. PICK v \in Int \cup {Empty} :
           /\ disk' = [disk EXCEPT ![i] = v]
           /\ \/ /\ v \in Int /\ note' = note
                 /\ Step(p, [pc |-> "apply", file |-> Stats, then |-> "return"])
              \/ v = Empty /\ note' = [note EXCEPT !.spoilt = TRUE] /\ Return(p)
    BY <1>4, <1>11 DEF StorePut
  <2>3. /\ disk' \in Seq(Int \cup {Empty}) /\ Len(disk') = Len(disk)
        /\ \A m \in CacheNames : dir[m] # i => Holds(m)' = Holds(m)
        /\ \A m \in CacheNames : dir[m] = i => Holds(m)' = v /\ m = Value /\ Exists(m)
    <3>1. disk' = [disk EXCEPT ![proc[p].inode] = v]
      BY <2>2
    <3> QED  BY <1>1, <1>2, <1>3, <2>1, <3>1, WroteOwn
  <2>4. /\ DiskTypes' /\ \A m \in CacheNames : Exists(m)' = Exists(m)
        /\ \A m \in CacheNames : m # Value => Holds(m)' = Holds(m)
    <3>1. DiskTypes'
      BY <1>3, <2>1, <2>3 DEF DiskTypes
    <3>2. \A m \in CacheNames : m # Value => dir[m] # i
      BY <2>3
    <3> QED  BY <2>1, <2>3, <3>1, <3>2 DEF Exists
  <2>5. /\ note'.counted = note.counted /\ note'.creators = note.creators /\ note'.cut = note.cut
        /\ note'.forgot = note.forgot /\ (note'.spoilt = note.spoilt \/ note'.spoilt = TRUE) /\ NoteTypes'
    <3>1. note' = note \/ note' = [note EXCEPT !.spoilt = TRUE]
      BY <2>2
    <3>2. /\ note'.counted = note.counted /\ note'.creators = note.creators /\ note'.cut = note.cut
          /\ note'.forgot = note.forgot /\ (note'.spoilt = note.spoilt \/ note'.spoilt = TRUE)
      BY <1>1, <3>1 DEF NoteFields
    <3> QED  BY <1>3, <3>2 DEF NoteTypes
  <2>6. CallOK(p)' /\ proc'[p].pc \in {"idle", "apply"}
    <3>1. CASE Return(p)
      BY <1>1, <1>5, <3>1, ReturnMoves
    <3>2. CASE Step(p, [pc |-> "apply", file |-> Stats, then |-> "return"])
      <4>1. /\ proc'[p].pc = "apply" /\ proc'[p].file = Stats
            /\ proc'[p].item = proc[p].item /\ proc'[p].todo = proc[p].todo
        BY <1>1, <1>2, <2>1, <3>2, StepMoves DEF CallFields
      <4> QED  BY <1>3, <1>4, <4>1 DEF CallOK, HasFile
    <3> QED  BY <2>2, <3>1, <3>2
  <2>7. EmptyIsOpen'
    <3>1. CASE note'.spoilt = TRUE
      BY <3>1 DEF EmptyIsOpen
    <3>2. CASE note'.spoilt # TRUE
      <4>1. v \in Int /\ v # Empty
        BY <1>1, <2>2, <3>2, EmptyAssumption DEF NoteFields
      <4> QED  BY <1>1, <1>3, <2>1, <2>3, <2>4, <2>5, <4>1, OpenStill
    <3> QED  BY <3>1, <3>2
  <2> QED  BY <1>1, <1>3, <2>1, <2>3, <2>4, <2>5, <2>6, <2>7, FileStep
<1>12. CASE Killed(p)
  <2>1. /\ proc[p].pc \in {"lock", "write", "put"} /\ dir' = dir /\ disk' = disk /\ Return(p)
        /\ flock' = [j \in DOMAIN flock |-> IF flock[j] = p THEN NoProc ELSE flock[j]]
        /\ note' = [note EXCEPT !.spoilt = @ \/ IsWriting(p)]
    BY <1>12 DEF Killed
  <2>2. proc'[p] = Idle /\ CallOK(p)' /\ proc'[p].pc = "idle"
    BY <1>1, <1>5, <2>1, ReturnMoves
  <2>3. /\ note'.counted = note.counted /\ note'.creators = note.creators /\ note'.cut = note.cut
        /\ note'.forgot = note.forgot /\ note'.spoilt = (note.spoilt \/ IsWriting(p)) /\ NoteTypes'
    BY <1>1, <1>3, <2>1 DEF NoteFields, NoteTypes
  <2>4. /\ flock' \in Seq(Proc \cup {NoProc}) /\ Len(flock') = Len(flock)
        /\ \A j \in 1..Len(disk), q \in Proc : q # p /\ flock[j] = q => flock'[j] = q
    <3>1. /\ DOMAIN flock = 1..Len(disk) /\ Len(disk) \in Nat
          /\ \A j \in 1..Len(disk) : flock[j] \in Proc \cup {NoProc}
      BY <1>3 DEF DiskTypes
    <3>2. flock' \in [1..Len(disk) -> Proc \cup {NoProc}]
      BY <2>1, <3>1
    <3>3. flock' \in Seq(Proc \cup {NoProc}) /\ Len(flock') = Len(disk)
      BY <3>1, <3>2
    <3> QED  BY <1>3, <2>1, <3>1, <3>3 DEF DiskTypes
  <2>5. DiskTypes' /\ \A m \in CacheNames : Exists(m)' = Exists(m) /\ Holds(m)' = Holds(m)
    BY <1>3, <2>1, <2>4 DEF DiskTypes, Exists, Holds
  <2>6. \A m \in CacheNames :
           Exists(m) => \A q \in Proc : q # p /\ flock[dir[m]] = q => flock'[dir[m]] = q
    BY <1>3, <2>4 DEF DiskTypes, Exists
  <2>7. EmptyIsOpen'
    <3>1. CASE note'.spoilt
      BY <3>1 DEF EmptyIsOpen
    <3>2. CASE ~note'.spoilt
      BY <1>1, <1>3, <2>1, <2>3, <2>5, <3>2, OpenStill
    <3> QED  BY <3>1, <3>2
  <2>8. ASSUME n \in Applied, Good(n)'
        PROVE  Counted(n)'
    <3>1. Counted(n)
      BY <1>3, <2>3, <2>8 DEF Good
    <3>2. ~UpdatesAt(p, n, {"first", "lock", "write"})'
      BY <2>2 DEF UpdatesAt
    <3> QED  BY <1>1, <1>4, <2>1, <2>3, <2>5, <2>6, <3>1, <3>2, CountedStill
  <2>9. \A m \in CacheNames : m # n =>
           /\ dir'[m] = dir[m]
           /\ Exists(m) => /\ Holds(m)' = Holds(m)
                           /\ \A q \in Proc : q # p /\ flock[dir[m]] = q => flock'[dir[m]] = q
    BY <2>1, <2>5, <2>6
  <2>10. note.spoilt => note'.spoilt
    BY <1>3, <2>3 DEF NoteTypes
  <2>11. Len(disk') = Len(disk) /\ dir'[n] = dir[n]
    BY <2>1
  <2> QED  BY <1>1, <1>4, <2>2, <2>3, <2>5, <2>7, <2>8, <2>9, <2>10, <2>11, FileStep
<1> QED  BY <1>6, <1>7, <1>8, <1>9, <1>10, <1>11, <1>12

-----------------------------------------------------------------------------

\* The other users of files make none of these.
NoCacheFiles == DOMAIN dir = Name /\ \A n \in CacheNames : dir[n] = 0
DiskKept == (note.users = "requests" /\ DiskInv) \/ (note.users # "requests" /\ NoCacheFiles)

LEMMA NoCacheFilesStays ==
    ASSUME Alone, SessionKept, NoCacheFiles, ThreadsNext \/ CronNext \/ (note.users = "browser" /\ BrowserNext)
    PROVE  NoCacheFiles'
<1>1. ASSUME NEW m, NEW k, m \notin CacheNames, dir' = dir \/ dir' = [dir EXCEPT ![m] = k]
      PROVE  NoCacheFiles'
  BY <1>1, CacheAssumption DEF NoCacheFiles
<1>2. CASE ThreadsNext
  <2>1. dir' = dir
    BY <1>2 DEF ThreadsNext, BeginRam, Call, RamStep, RamLookup, RamClear, RamCompute, RamStore, ReturnValue,
                Tick, diskVars
  <2> QED  BY <2>1 DEF NoCacheFiles
<1>3. CASE CronNext
  <2>1. dir' = dir \/ dir' = [dir EXCEPT ![Master] = Len(disk) + 1]
    BY <1>3 DEF CronNext, AskToken, Call, CronStep, TestToken, CreateToken, OpenForWriting, Acquire, ReleaseToken,
                CloseToken, MasterKilled, Tick, diskVars
  <2> QED  BY <1>1, <2>1, NameAssumption
<1>4. CASE note.users = "browser" /\ BrowserNext
  <2>1. PICK p \in Proc : Send(p) \/ SessionStep(p) \/ RaiseInRequest(p) \/ LoseAnswer(p)
    BY <1>4 DEF BrowserNext
  <2>2. CASE ~StoreSession(p) /\ ~UnlinkSession(p)
    <3>1. dir' = dir
      BY <2>1, <2>2 DEF Send, Call, SessionStep, OpenSession, LoadSession, Visit, LogIn, ClearSession, Answer,
                        RaiseInRequest, LoseAnswer, CloseSession, diskVars
    <3> QED  BY <3>1 DEF NoCacheFiles
  <2>3. CASE StoreSession(p) \/ UnlinkSession(p)
    <3>1. PICK k : dir' = dir \/ dir' = [dir EXCEPT ![proc[p].sid] = k]
      BY <2>3 DEF StoreSession, UnlinkSession, Unlink, CloseSession
    <3>2. proc[p].pc \in {"save", "unlink"} /\ proc[p] # Idle
      BY <2>3 DEF StoreSession, UnlinkSession, Is, Idle
    <3>3. SessionInv
      BY <1>4 DEF SessionKept
    <3>4. proc[p].sid \in 1..Sids
      <4>1. proc[p].sid \in 0..note.sids /\ proc[p].sid # 0 /\ note.sids \in Nat
        BY <3>2, <3>3 DEF SessionInv, Known, NoSid, Enough
      <4>2. note.sids <= Sids /\ Sids \in Nat
        BY <3>3, SidsNamed, SidAssumption DEF SessionInv
      <4> QED  BY <4>1, <4>2
    <3> QED  BY <1>1, <3>1, <3>4, NameAssumption
  <2> QED  BY <2>2, <2>3
<1> QED  BY <1>2, <1>3, <1>4

LEMMA DiskStays ==
    ASSUME Alone, SessionKept, DiskKept, [FilesNext]_fileVars
    PROVE  DiskKept'
<1>1. CASE UNCHANGED fileVars
  <2>1. dir' = dir /\ disk' = disk /\ flock' = flock /\ proc' = proc /\ note' = note
    BY <1>1 DEF fileVars, diskVars
  <2>2. ASSUME DiskInv
        PROVE  DiskInv'
    <3>1. DiskTypes' /\ NoteTypes'
      BY <2>1, <2>2 DEF DiskInv, DiskTypes, NoteTypes
    <3>2. (\A p \in Proc : CallOK(p))'
      BY <2>1, <2>2 DEF DiskInv, CallOK, FileOf, HasFile
    <3>3. EmptyIsOpen'
      BY <2>1, <2>2 DEF DiskInv, EmptyIsOpen, IsWriting, Is, Exists, Holds
    <3>4. ASSUME NEW n \in Applied, Good(n)'
          PROVE  Counted(n)'
      <4>1. Counted(n)
        BY <2>1, <2>2, <3>4 DEF DiskInv, Good
      <4> QED  BY <2>1, <4>1 DEF Counted, UpdatesAt, MakesAt, Exists, Holds
    <3> QED  BY <3>1, <3>2, <3>3, <3>4 DEF DiskInv
  <2> QED  BY <2>1, <2>2 DEF DiskKept, NoCacheFiles
<1>2. CASE FilesNext
  <2>1. note'.users = note.users
    BY <1>2, UsersStay
  <2>2. CASE note.users = "requests"
    <3>1. PICK p \in Proc : Begin(p) \/ CacheStep(p) \/ Killed(p)
      BY <1>2, <2>2, KindsApart DEF RequestsNext
    <3> QED  BY <2>1, <2>2, <3>1, ReadingSteps, WritingSteps DEF DiskKept, CacheStep
  <2>3. CASE note.users # "requests"
    BY <1>2, <2>1, <2>3, KindsApart, NoCacheFilesStays DEF DiskKept
  <2> QED  BY <2>2, <2>3
<1> QED  BY <1>1, <1>2

LEMMA AlwaysDisk == FilesSpec => []DiskKept
<1>1. FilesInit => DiskKept
  <2> SUFFICES ASSUME FilesInit PROVE DiskKept
    OBVIOUS
  <2>1. PICK users \in Kinds : note = FreshNote(users)
    BY DEF FilesInit, Kinds
  <2>2. /\ disk = <<>> /\ flock = <<>> /\ dir = [n \in Name |-> 0] /\ proc = [p \in Proc |-> Idle]
        /\ note.counted = [n \in Applied |-> 0] /\ note.creators = [n \in Applied |-> 0]
        /\ note.forgot = 0 /\ note.spoilt = FALSE
    BY <2>1 DEF FilesInit, FreshNote
  <2>3. NoCacheFiles
    BY <2>2, CacheAssumption DEF NoCacheFiles
  <2>4. DiskTypes
    <3>1. /\ disk \in Seq(Int \cup {Empty}) /\ flock \in Seq(Proc \cup {NoProc})
          /\ Len(disk) = 0 /\ Len(flock) = 0
      BY <2>2
    <3> QED  BY <2>3, <3>1 DEF DiskTypes, NoCacheFiles
  <2>5. NoteTypes
    <3>1. [n \in Applied |-> 0] \in [Applied -> Nat]
      OBVIOUS
    <3>2. note.spoilt \in BOOLEAN
      BY <2>2
    <3> QED  BY <2>2, <3>1, <3>2 DEF NoteTypes
  <2>6. ASSUME NEW p \in Proc
        PROVE  CallOK(p) /\ \A n \in Applied : ~MakesAt(p, n) /\ ~UpdatesAt(p, n, {"first"})
                                             /\ ~UpdatesAt(p, n, {"lock", "write"})
    BY <2>2 DEF CallOK, MakesAt, UpdatesAt, Idle
  <2>7. EmptyIsOpen
    BY <2>3 DEF EmptyIsOpen, NoCacheFiles, Exists
  <2>8. ASSUME NEW n \in Applied
        PROVE  Counted(n)
    <3>1. note.counted[n] = 0 /\ n \in CacheNames
      BY <2>2 DEF Applied, CacheNames
    <3> QED  BY <2>3, <2>6, <3>1 DEF Counted, NoCacheFiles, Exists
  <2> QED  BY <2>3, <2>4, <2>5, <2>6, <2>7, <2>8 DEF DiskKept, DiskInv
<1>2. Alone /\ SessionKept /\ DiskKept /\ [FilesNext]_fileVars => DiskKept'
  BY DiskStays
<1> QED  BY <1>1, <1>2, AlwaysAlone, AlwaysSession, PTL DEF FilesSpec

\* A file of cache.disk without a pickle is one that a call has opened and will write, unless a
\* process was killed there or a value could not be pickled (CacheOnDisk.PersistentStorage).
THEOREM FilesHoldPickles == FilesSpec => []EmptyIsOpen
<1>1. DiskKept => EmptyIsOpen
  BY DEF DiskKept, DiskInv, NoCacheFiles, EmptyIsOpen, Exists
<1> QED  BY <1>1, AlwaysDisk, PTL

\* safe_apply loses no increment, unless two calls found the file missing, or it was removed
\* or spoilt (PersistentStorage.safe_apply).
THEOREM IncrementsAreKept == FilesSpec => []CountExact
<1>1. Alone /\ DiskKept => CountExact
  <2> SUFFICES ASSUME Alone, DiskKept, NEW n \in Applied,
                      Exists(n), n \notin note.cut, note.creators[n] <= 1, ~note.spoilt,
                      \A p \in Proc : ~(proc[p].pc \in {"first", "lock", "write"} /\ proc[p].file = n)
               PROVE  Holds(n) = note.counted[n]
    BY DEF CountExact
  <2>1. n \in CacheNames /\ n # Value
    BY CacheAssumption DEF Applied, CacheNames
  <2>2. DiskInv
    BY <2>1 DEF DiskKept, NoCacheFiles, Exists
  <2>3. Counted(n)
    BY <2>2 DEF DiskInv, Good
  <2>4. ASSUME NEW p \in Proc, IsWriting(p), proc[p].inode = dir[n]
        PROVE  FALSE
    <3>1. proc[p] # Idle /\ CallOK(p) /\ HasFile(p)
      BY <2>2, <2>4 DEF DiskInv, IsWriting, Is, HasFile, Idle
    <3>2. FileOf(p) = n
      BY <2>1, <2>4, <3>1 DEF CallOK
    <3> QED  BY <2>1, <2>4, <3>2 DEF FileOf, IsWriting, Is
  <2>5. Holds(n) # Empty
    BY <2>1, <2>2, <2>4 DEF DiskInv, EmptyIsOpen
  <2> QED  BY <2>3, <2>5 DEF Counted
<1> QED  BY <1>1, AlwaysAlone, AlwaysDisk, PTL

-----------------------------------------------------------------------------
(* What was stored before a clear. *)

\* cache.ram: what is stored, and what is to be stored, has been computed since the last clear.
RamForgets ==
    /\ note.forgot \in Nat
    /\ note.stale \in BOOLEAN
    /\ note.ram.value \in Int
    /\ \A p \in Proc : proc[p] # Idle => proc[p].item \in Int /\ proc[p].since \in 0..note.forgot
    /\ ~note.stale =>
          /\ note.ram.value # Nothing => note.ram.value >= note.forgot
          /\ \A p \in Proc :
                /\ Is(p, "keep") => proc[p].item >= note.forgot
                /\ Is(p, "return") => proc[p].item >= proc[p].since

\* cache.disk: what the file of Value holds, and what is to be stored there, has been computed
\* since the last clear; what a call has loaded or computed, since the last clear before it.
Applying == {"apply", "first", "lock", "write"}

KeepsUp(p) ==
    /\ Is(p, "store") => proc[p].item >= note.forgot
    /\ Is(p, "put") /\ proc[p].inode = dir[Value] => proc[p].item >= note.forgot
    /\ Is(p, "load") /\ disk[proc[p].inode] # Empty => disk[proc[p].inode] >= proc[p].since
    /\ proc[p].pc \in {"store", "put", "return"} \/ (proc[p].pc \in Applying /\ proc[p].then = "return")
          => proc[p].item >= proc[p].since
    /\ proc[p].pc \in {"read", "decide"} \/ (proc[p].pc \in Applying /\ proc[p].then = "decide")
          => proc[p].item = Nothing \/ proc[p].item >= proc[p].since

\* Who has an inode of the value open to write it has it for those who have it open to load it.
ReadsWhatIsPut(p, q) ==
    Is(p, "load") /\ Is(q, "put") /\ proc[p].inode = proc[q].inode => proc[q].item >= proc[p].since

OneName(p, q) == HasFile(p) /\ HasFile(q) /\ proc[p].inode = proc[q].inode => FileOf(p) = FileOf(q)

DiskForgets ==
    /\ note.stale \in BOOLEAN
    /\ \A p \in Proc : proc[p] # Idle => proc[p].since \in 0..note.forgot
    /\ \A p, q \in Proc : OneName(p, q)
    /\ ~note.stale =>
          /\ Exists(Value) /\ Holds(Value) # Empty => Holds(Value) >= note.forgot
          /\ \A p \in Proc : KeepsUp(p)
          /\ \A p, q \in Proc : ReadsWhatIsPut(p, q)

ForgetKept ==
    /\ note.users = "threads" => RamForgets
    /\ note.users = "requests" => DiskForgets

LEMMA RamForgetSteps ==
    ASSUME Alone, note.users = "threads", RamForgets, NEW p \in Proc,
           BeginRam(p) \/ RamStep(p) \/ ReturnValue(p)
    PROVE  RamForgets'
<1>1. /\ DOMAIN note = NoteFields /\ DOMAIN proc = Proc /\ InCall(p)
      /\ \A q \in Proc : q # p => proc'[q] = proc[q]
  BY ThreadMoves DEF Alone, Moved
<1>2. proc[p].pc # "idle" => DOMAIN proc[p] = CallFields("threads") /\ proc[p] # Idle
  BY <1>1 DEF InCall, Idle
<1>3. proc'[p] = Idle => proc'[p].pc = "idle"
  BY DEF Idle
<1>4. ASSUME note' = note, proc'[p] # Idle => proc'[p].item \in Int /\ proc'[p].since \in 0..note.forgot,
             ~note.stale => /\ proc'[p].pc = "keep" => proc'[p].item >= note.forgot
                            /\ proc'[p].pc = "return" => proc'[p].item >= proc'[p].since
      PROVE  RamForgets'
  BY <1>1, <1>4 DEF RamForgets, Is
<1>5. ASSUME Return(p), note' = note
      PROVE  RamForgets'
  BY <1>1, <1>3, <1>4, <1>5, ReturnMoves
<1>6. CASE BeginRam(p)
  <2>1. PICK op \in {"get", "drop", "clear"} : Call(p, Asks(op))
    BY <1>6 DEF BeginRam
  <2>2. proc'[p] = Asks(op) /\ note' = note
    BY <1>1, <1>6, <2>1, CallMoves DEF BeginRam
  <2> QED  BY <1>4, <2>2 DEF Asks, Nothing, RamForgets
<1>7. CASE RamLookup(p) /\ proc[p].op = "drop"
  <2>1. note'.ram = NoItem /\ note'.forgot = note.forgot /\ note'.stale = note.stale /\ proc'[p] = Idle
    BY <1>1, <1>7, ReturnMoves DEF RamLookup, NoteFields
  <2> QED  BY <1>1, <1>3, <2>1 DEF RamForgets, NoItem, Nothing, Is
<1>8. CASE RamLookup(p) /\ proc[p].op = "get"
  <2>1. proc[p].pc = "lookup" /\ note' = note
    BY <1>8 DEF RamLookup, Is
  <2>2. CASE note.ram.value # Nothing /\ note.ram.time > proc[p].now - Expire
    <3>1. Step(p, [pc |-> "return", item |-> note.ram.value, made |-> note.ram.made])
      BY <1>8, <2>2 DEF RamLookup
    <3>2. proc'[p].pc = "return" /\ proc'[p].item = note.ram.value /\ proc'[p].since = proc[p].since
      BY <1>1, <1>2, <2>1, <3>1, StepMoves DEF CallFields
    <3> QED  BY <1>2, <1>4, <2>1, <2>2, <3>2 DEF RamForgets
  <2>3. CASE ~(note.ram.value # Nothing /\ note.ram.time > proc[p].now - Expire)
    <3>1. Step(p, [pc |-> "call"])
      BY <1>8, <2>3 DEF RamLookup
    <3>2. proc'[p].pc = "call" /\ proc'[p].item = proc[p].item /\ proc'[p].since = proc[p].since
      BY <1>1, <1>2, <2>1, <3>1, StepMoves DEF CallFields
    <3> QED  BY <1>2, <1>4, <2>1, <3>2 DEF RamForgets
  <2> QED  BY <2>2, <2>3
<1>9. CASE RamClear(p)
  <2>1. /\ note'.ram = NoItem /\ note'.forgot = note.forgot + 1 /\ proc'[p] = Idle
        /\ note'.stale = (note.stale \/ \E q \in Proc : Is(q, "keep"))
    BY <1>1, <1>9, ReturnMoves DEF RamClear, NoteFields
  <2>2. note'.forgot \in Nat /\ note'.stale \in BOOLEAN /\ 0..note.forgot \subseteq 0..note'.forgot
    BY <2>1 DEF RamForgets
  <2>3. ~note'.stale => ~note.stale /\ \A q \in Proc : ~Is(q, "keep")
    BY <2>1
  <2>4. ASSUME NEW q \in Proc
        PROVE  /\ proc'[q] # Idle => proc'[q].item \in Int /\ proc'[q].since \in 0..note'.forgot
               /\ ~note'.stale => /\ proc'[q].pc # "keep"
                                  /\ proc'[q].pc = "return" => proc'[q].item >= proc'[q].since
    <3>1. CASE q = p
      BY <1>3, <2>1, <3>1
    <3>2. CASE q # p
      BY <1>1, <2>2, <2>3, <3>2 DEF RamForgets, Is
    <3> QED  BY <3>1, <3>2
  <2> QED  BY <2>1, <2>2, <2>4 DEF RamForgets, NoItem, Nothing, Is
<1>10. CASE RamCompute(p)
  <2>1. CASE Return(p)
    BY <1>5, <1>10, <2>1 DEF RamCompute
  <2>2. CASE Step(p, [pc |-> "keep", item |-> note.forgot, made |-> note.clock])
    <3>1. proc[p].pc = "call" /\ note' = note
      BY <1>10 DEF RamCompute, Is
    <3>2. proc'[p].pc = "keep" /\ proc'[p].item = note.forgot /\ proc'[p].since = proc[p].since
      BY <1>1, <1>2, <2>2, <3>1, StepMoves DEF CallFields
    <3> QED  BY <1>2, <1>4, <3>1, <3>2 DEF RamForgets
  <2> QED  BY <1>10, <2>1, <2>2 DEF RamCompute
<1>11. CASE RamStore(p)
  <2>1. /\ note'.ram.value = proc[p].item /\ note'.forgot = note.forgot /\ note'.stale = note.stale
        /\ proc[p].pc = "keep"
    BY <1>1, <1>11 DEF RamStore, NoteFields, Is
  <2>2. proc'[p].pc = "return" /\ proc'[p].item = proc[p].item /\ proc'[p].since = proc[p].since
    BY <1>1, <1>2, <1>11, <2>1, StepMoves DEF RamStore, CallFields
  <2>3. proc[p].item \in Int /\ proc[p].since \in 0..note.forgot /\ (~note.stale => proc[p].item >= note.forgot)
    BY <1>2, <2>1 DEF RamForgets, Is
  <2>4. ASSUME NEW q \in Proc
        PROVE  /\ proc'[q] # Idle => proc'[q].item \in Int /\ proc'[q].since \in 0..note'.forgot
               /\ ~note'.stale => /\ proc'[q].pc = "keep" => proc'[q].item >= note'.forgot
                                  /\ proc'[q].pc = "return" => proc'[q].item >= proc'[q].since
    <3>1. CASE q = p
      BY <2>1, <2>2, <2>3, <3>1 DEF RamForgets
    <3>2. CASE q # p
      BY <1>1, <2>1, <3>2 DEF RamForgets, Is
    <3> QED  BY <3>1, <3>2
  <2> QED  BY <2>1, <2>3, <2>4 DEF RamForgets, Is
<1>12. CASE ReturnValue(p)
  BY <1>5, <1>12 DEF ReturnValue
<1>13. CASE RamLookup(p)
  BY <1>7, <1>8, <1>13 DEF RamLookup
<1> QED  BY <1>6, <1>9, <1>10, <1>11, <1>12, <1>13 DEF RamStep

\* open(n, 'wb') empties at most what an inode held before.
LEMMA OpenKeeps ==
    ASSUME DiskTypes, NEW n \in CacheNames, OpenForWriting(n), NEW j \in 1..Len(disk)
    PROVE  disk'[j] = Empty \/ disk'[j] = disk[j]
<1>1. CASE Exists(n)
  BY <1>1 DEF OpenForWriting, DiskTypes
<1>2. CASE ~Exists(n)
  BY <1>2 DEF OpenForWriting, DiskTypes
<1> QED  BY <1>1, <1>2

\* What a step of p must keep so that all is kept.
LEMMA ForgetStep ==
    ASSUME DiskInv, DiskForgets, NEW p \in Proc, \A q \in Proc : q # p => proc'[q] = proc[q],
           note'.stale = note.stale, note'.forgot = note.forgot,
           dir'[Value] \in {dir[Value], 0, Len(disk) + 1},
           proc'[p] # Idle => proc'[p].since \in 0..note.forgot,
           \A q \in Proc : q # p => OneName(p, q)',
           ~note.stale =>
              /\ Exists(Value)' /\ Holds(Value)' # Empty => Holds(Value)' >= note.forgot
              /\ KeepsUp(p)'
              /\ \A q \in Proc : q # p => ReadsWhatIsPut(p, q)' /\ ReadsWhatIsPut(q, p)'
              /\ \A q \in Proc : q # p /\ Is(q, "load") =>
                    disk'[proc[q].inode] = Empty \/ disk'[proc[q].inode] = disk[proc[q].inode]
                        \/ disk'[proc[q].inode] >= proc[q].since
    PROVE  DiskForgets'
<1>1. \A q, r \in Proc : OneName(q, r)'
  <2>1. \A q, r \in Proc : q # p /\ r # p => OneName(q, r)'
    BY DEF DiskForgets, OneName, HasFile, FileOf
  <2>2. \A q, r \in Proc : OneName(q, r)' => OneName(r, q)'
    BY DEF OneName
  <2>3. OneName(p, p)'
    BY DEF OneName
  <2> QED  BY <2>1, <2>2, <2>3
<1>2. \A q \in Proc : proc'[q] # Idle => proc'[q].since \in 0..note'.forgot
  BY DEF DiskForgets
<1>3. ASSUME ~note.stale, NEW q \in Proc
      PROVE  KeepsUp(q)'
  <2>1. CASE q = p
    BY <1>3, <2>1
  <2>2. CASE q # p
    <3>1. KeepsUp(q) /\ proc'[q] = proc[q]
      BY <1>3, <2>2 DEF DiskForgets
    <3>2. Is(q, "put") /\ proc[q].inode = dir'[Value] => proc[q].inode = dir[Value]
      <4>1. Is(q, "put") => proc[q].inode \in 1..Len(disk) /\ Len(disk) \in Nat
        <5>1. Is(q, "put") => proc[q] # Idle /\ HasFile(q)
          BY DEF Is, Idle, HasFile
        <5> QED  BY <5>1 DEF DiskInv, DiskTypes, CallOK
      <4> QED  BY <4>1
    <3>3. Is(q, "load") /\ disk'[proc[q].inode] # Empty => disk'[proc[q].inode] >= proc[q].since
      BY <1>3, <2>2, <3>1 DEF KeepsUp
    <3> QED  BY <3>1, <3>2, <3>3 DEF KeepsUp, Is
  <2> QED  BY <2>1, <2>2
<1>4. ASSUME ~note.stale, NEW q \in Proc, NEW r \in Proc
      PROVE  ReadsWhatIsPut(q, r)'
  <2>1. CASE q # p /\ r # p
    BY <1>4, <2>1 DEF DiskForgets, ReadsWhatIsPut, Is
  <2>2. CASE q = p /\ r = p
    BY <2>2 DEF ReadsWhatIsPut, Is
  <2> QED  BY <1>4, <2>1, <2>2
<1> QED  BY <1>1, <1>2, <1>3, <1>4 DEF DiskForgets

\* A step of p that writes nothing and leaves it with no file open.
LEMMA ForgetQuiet ==
    ASSUME DiskInv, DiskForgets, NEW p \in Proc, \A q \in Proc : q # p => proc'[q] = proc[q],
           note'.stale = note.stale, note'.forgot = note.forgot,
           disk' = disk, dir'[Value] \in {dir[Value], 0},
           proc'[p] # Idle => proc'[p].since \in 0..note.forgot,
           ~HasFile(p)', ~note.stale => KeepsUp(p)'
    PROVE  DiskForgets'
<1>1. \A q \in Proc : OneName(p, q)' /\ ReadsWhatIsPut(p, q)' /\ ReadsWhatIsPut(q, p)'
  BY DEF OneName, ReadsWhatIsPut, HasFile, Is
<1>2. ~note.stale /\ Exists(Value)' /\ Holds(Value)' # Empty => Holds(Value)' >= note.forgot
  BY DEF DiskForgets, Exists, Holds
<1> QED  BY <1>1, <1>2, ForgetStep

LEMMA DiskForgetReads ==
    ASSUME Alone, note.users = "requests", DiskInv, DiskForgets, NEW p \in Proc,
           Begin(p) \/ OpenItem(p) \/ LoadItem(p) \/ Decide(p) \/ Compute(p) \/ ReturnValue(p) \/ ClearNext(p)
    PROVE  DiskForgets'
<1>1. DOMAIN note = NoteFields /\ DOMAIN proc = Proc /\ InCall(p) /\ CallOK(p)
      /\ \A q \in Proc : q # p => proc'[q] = proc[q]
  BY RequestMoves DEF Alone, Moved, DiskInv, CacheStep
<1>2. proc[p].pc # "idle" => DOMAIN proc[p] = CallFields("requests") /\ proc[p] # Idle
  BY <1>1 DEF InCall, Idle
<1>3. DiskTypes /\ NoteTypes /\ note.forgot \in Nat /\ note.stale \in BOOLEAN
      /\ (proc[p] # Idle => proc[p].since \in 0..note.forgot)
      /\ (~note.stale => KeepsUp(p))
  BY DEF DiskInv, NoteTypes, DiskForgets
<1>4. proc'[p] = Idle => ~HasFile(p)' /\ KeepsUp(p)'
  BY DEF HasFile, KeepsUp, Is, Idle, Applying
<1>5. ASSUME Return(p), UNCHANGED <<diskVars, note>>
      PROVE  DiskForgets'
  <2>1. proc'[p] = Idle /\ disk' = disk /\ dir' = dir
    BY <1>1, <1>5, ReturnMoves DEF diskVars
  <2> QED  BY <1>1, <1>4, <1>5, <2>1, ForgetQuiet
<1>6. CASE Begin(p)
  <2>1. PICK program : /\ Call(p, program)
                       /\ program.pc \in {"read", "apply", "clear"} /\ program.then = "idle"
                       /\ program.since = note.forgot /\ program.item = Nothing
    <3>1. CASE \E op \in {"get", "drop"} : Call(p, Working(op, "read"))
      BY <3>1 DEF Working
    <3>2. CASE Call(p, [Working("incr", "apply") EXCEPT !.file = Counter])
      BY <3>2 DEF Working
    <3>3. CASE Call(p, [Working("clear", "clear") EXCEPT !.todo = {n \in CacheNames : Exists(n)}])
      BY <3>3 DEF Working
    <3> QED  BY <1>6, <3>1, <3>2, <3>3 DEF Begin
  <2>2. proc'[p] = program /\ UNCHANGED <<diskVars, note>>
    BY <1>1, <1>6, <2>1, CallMoves DEF Begin, Call
  <2>3. ~HasFile(p)' /\ KeepsUp(p)' /\ dir' = dir /\ disk' = disk
    BY <2>1, <2>2 DEF HasFile, KeepsUp, Is, Applying, diskVars
  <2> QED  BY <1>1, <1>3, <2>1, <2>2, <2>3, ForgetQuiet
<1>7. CASE OpenItem(p)
  <2>1. proc[p].pc = "read" /\ dir' = dir /\ disk' = disk /\ note' = note /\ proc[p] # Idle
    BY <1>2, <1>7 DEF OpenItem, Is, diskVars
  <2>2. CASE Exists(Value)
    <3>1. Step(p, [pc |-> "load", inode |-> dir[Value]])
      BY <1>7, <2>2 DEF OpenItem
    <3>2. /\ proc'[p].pc = "load" /\ proc'[p].inode = dir[Value] /\ proc'[p].since = proc[p].since
          /\ proc'[p].file = proc[p].file
      BY <1>1, <1>2, <2>1, <3>1, StepMoves DEF CallFields
    <3>3. Holds(Value) = disk[dir[Value]] /\ Value \in CacheNames
      BY <2>2 DEF Holds, CacheNames
    <3>4. ASSUME NEW q \in Proc, q # p
          PROVE  OneName(p, q)'
      <4>1. proc'[q] = proc[q] /\ FileOf(p)' = Value
        BY <1>1, <3>2, <3>4 DEF FileOf
      <4>2. HasFile(q) /\ proc[q].inode = dir[Value] => FileOf(q) = Value
        <5>1. HasFile(q) => proc[q] # Idle /\ CallOK(q)
          BY DEF HasFile, Idle, DiskInv
        <5> QED  BY <3>3, <5>1 DEF CallOK
      <4> QED  BY <3>2, <4>1, <4>2 DEF OneName, HasFile, FileOf
    <3>5. ASSUME ~note.stale
          PROVE  KeepsUp(p)' /\ \A q \in Proc : q # p => ReadsWhatIsPut(p, q)' /\ ReadsWhatIsPut(q, p)'
      <4>1. disk[dir[Value]] # Empty => disk[dir[Value]] >= note.forgot
        BY <2>2, <3>3, <3>5 DEF DiskForgets
      <4>2. disk[dir[Value]] # Empty => disk[dir[Value]] \in Int
        BY <2>2, <3>3, <1>3 DEF DiskTypes, Exists
      <4>3. KeepsUp(p)'
        BY <1>3, <2>1, <3>2, <4>1, <4>2 DEF KeepsUp, Is, Applying
      <4>4. ASSUME NEW q \in Proc, q # p
            PROVE  ReadsWhatIsPut(p, q)' /\ ReadsWhatIsPut(q, p)'
        <5>1. Is(q, "put") /\ proc[q].inode = dir[Value] => proc[q].item >= note.forgot /\ proc[q].item \in Int
          <6>1. Is(q, "put") => proc[q] # Idle /\ CallOK(q)
            BY DEF Is, Idle, DiskInv
          <6> QED  BY <3>5, <6>1 DEF DiskForgets, KeepsUp, CallOK
        <5> QED  BY <1>1, <1>3, <2>1, <3>2, <4>4, <5>1 DEF ReadsWhatIsPut, Is
      <4> QED  BY <4>3, <4>4
    <3>6. ~note.stale /\ Exists(Value)' /\ Holds(Value)' # Empty => Holds(Value)' >= note.forgot
      BY <2>1 DEF DiskForgets, Exists, Holds
    <3> QED  BY <1>1, <1>3, <2>1, <3>2, <3>4, <3>5, <3>6, ForgetStep
  <2>3. CASE ~Exists(Value)
    <3>1. Step(p, [pc |-> "apply", file |-> Stats, then |-> "decide"])
      BY <1>7, <2>3 DEF OpenItem
    <3>2. /\ proc'[p].pc = "apply" /\ proc'[p].then = "decide"
          /\ proc'[p].item = proc[p].item /\ proc'[p].since = proc[p].since
      BY <1>1, <1>2, <2>1, <3>1, StepMoves DEF CallFields
    <3>3. ~HasFile(p)' /\ (~note.stale => KeepsUp(p)')
      BY <1>3, <2>1, <3>2 DEF HasFile, KeepsUp, Is, Applying
    <3> QED  BY <1>1, <1>3, <2>1, <3>2, <3>3, ForgetQuiet
  <2> QED  BY <2>2, <2>3
<1>8. CASE LoadItem(p)
  <2>1. proc[p].pc = "load" /\ UNCHANGED <<diskVars, note>> /\ dir' = dir /\ disk' = disk /\ proc[p] # Idle
    BY <1>2, <1>8 DEF LoadItem, Is, diskVars
  <2>2. CASE Return(p)
    BY <1>5, <2>1, <2>2
  <2>3. CASE ~Return(p)
    <3>1. disk[proc[p].inode] # Empty
          /\ Step(p, [pc |-> "apply", item |-> disk[proc[p].inode], file |-> Stats, then |-> "decide"])
      BY <1>8, <2>3 DEF LoadItem, Raise
    <3>2. /\ proc'[p].pc = "apply" /\ proc'[p].then = "decide"
          /\ proc'[p].item = disk[proc[p].inode] /\ proc'[p].since = proc[p].since
      BY <1>1, <1>2, <2>1, <3>1, StepMoves DEF CallFields
    <3>3. ~HasFile(p)' /\ (~note.stale => KeepsUp(p)')
      BY <1>3, <2>1, <3>1, <3>2 DEF HasFile, KeepsUp, Is, Applying
    <3> QED  BY <1>1, <1>3, <2>1, <3>2, <3>3, ForgetQuiet
  <2> QED  BY <2>2, <2>3
<1>9. CASE Decide(p)
  <2>1. proc[p].pc = "decide" /\ proc[p] # Idle
    BY <1>2, <1>9 DEF Decide, Is
  <2>2. CASE Return(p) /\ UNCHANGED <<diskVars, note>>
    BY <1>5, <2>2
  <2>3. CASE Return(p) /\ Unlink(Value) /\ note' = [note EXCEPT !.cut = @ \cup {Value}]
    <3>1. proc'[p] = Idle
      BY <1>1, <2>3, ReturnMoves
    <3>2. note'.stale = note.stale /\ note'.forgot = note.forgot /\ disk' = disk /\ dir'[Value] = 0
      <4>1. Value \in DOMAIN dir
        BY <1>3, CacheAssumption DEF DiskTypes, CacheNames
      <4> QED  BY <1>1, <2>3, <4>1 DEF NoteFields, Unlink
    <3> QED  BY <1>1, <1>4, <3>1, <3>2, ForgetQuiet
  <2>4. CASE \/ proc[p].item # Nothing /\ Step(p, [pc |-> "return"]) /\ UNCHANGED <<diskVars, note>>
             \/ Step(p, [pc |-> "compute"]) /\ UNCHANGED <<diskVars, note>>
    <3>1. PICK pc \in {"return", "compute"} :
             Step(p, [pc |-> pc]) /\ UNCHANGED <<diskVars, note>> /\ (pc = "return" => proc[p].item # Nothing)
      BY <2>4
    <3>2. /\ proc'[p].pc = pc /\ proc'[p].item = proc[p].item /\ proc'[p].since = proc[p].since
          /\ dir' = dir /\ disk' = disk
      BY <1>1, <1>2, <2>1, <3>1, StepMoves DEF CallFields, diskVars
    <3>3. ~HasFile(p)' /\ (~note.stale => KeepsUp(p)')
      BY <1>3, <2>1, <3>1, <3>2 DEF HasFile, KeepsUp, Is, Applying
    <3> QED  BY <1>1, <1>3, <2>1, <3>1, <3>2, <3>3, ForgetQuiet
  <2> QED  BY <1>9, <2>2, <2>3, <2>4 DEF Decide
<1>10. CASE Compute(p)
  <2>1. /\ proc[p].pc = "compute" /\ UNCHANGED <<diskVars, note>> /\ dir' = dir /\ disk' = disk
        /\ proc[p] # Idle
    BY <1>2, <1>10 DEF Compute, Is, diskVars
  <2>2. CASE Return(p)
    BY <1>5, <2>1, <2>2
  <2>3. CASE Step(p, [pc |-> "store", item |-> note.forgot])
    <3>1. proc'[p].pc = "store" /\ proc'[p].item = note.forgot /\ proc'[p].since = proc[p].since
      BY <1>1, <1>2, <2>1, <2>3, StepMoves DEF CallFields
    <3>2. ~HasFile(p)' /\ (~note.stale => KeepsUp(p)')
      BY <1>3, <2>1, <3>1 DEF HasFile, KeepsUp, Is, Applying
    <3> QED  BY <1>1, <1>3, <2>1, <3>1, <3>2, ForgetQuiet
  <2>4. CASE Step(p, [pc |-> "stuck"])
    <3>1. proc'[p].pc = "stuck" /\ proc'[p].since = proc[p].since
      BY <1>1, <1>2, <2>1, <2>4, StepMoves DEF CallFields
    <3>2. ~HasFile(p)' /\ KeepsUp(p)'
      BY <3>1 DEF HasFile, KeepsUp, Is, Applying
    <3> QED  BY <1>1, <1>3, <2>1, <3>1, <3>2, ForgetQuiet
  <2> QED  BY <1>10, <2>2, <2>3, <2>4 DEF Compute
<1>11. CASE ReturnValue(p)
  BY <1>5, <1>11 DEF ReturnValue
<1>12. CASE ClearNext(p)
  <2>1. proc[p].pc = "clear" /\ proc[p] # Idle
    <3>1. Is(p, "clear")
      BY <1>12 DEF ClearNext
    <3> QED  BY <1>2, <3>1 DEF Is
  <2>2. CASE Return(p) /\ UNCHANGED <<diskVars, note>>
    BY <1>5, <2>2
  <2>3. CASE ~(Return(p) /\ UNCHANGED <<diskVars, note>>)
    <3>1. PICK n \in proc[p].todo :
             /\ Step(p, [todo |-> proc[p].todo \ {n}])
             /\ Unlink(n)
             /\ note' = IF n = Value
                        THEN [note EXCEPT !.cut = @ \cup {n}, !.forgot = @ + 1,
                                          !.stale = @ \/ \E q \in Proc : Is(q, "store")]
                        ELSE [note EXCEPT !.cut = @ \cup {n}]
      BY <1>12, <2>3 DEF ClearNext
    <3>2. proc'[p].pc = "clear" /\ proc'[p].since = proc[p].since
      BY <1>1, <1>2, <2>1, <3>1, StepMoves DEF CallFields
    <3>3. ~HasFile(p)' /\ KeepsUp(p)' /\ disk' = disk /\ dir' = [dir EXCEPT ![n] = 0]
      BY <3>1, <3>2 DEF HasFile, KeepsUp, Is, Applying, Unlink
    <3>4. CASE n # Value
      <4>1. note'.stale = note.stale /\ note'.forgot = note.forgot
        BY <1>1, <3>1, <3>4 DEF NoteFields
      <4> QED  BY <1>1, <1>3, <2>1, <3>2, <3>3, <3>4, <4>1, ForgetQuiet
    <3>5. CASE n = Value
      <4>1. /\ note'.forgot = note.forgot + 1
            /\ note'.stale = (note.stale \/ \E q \in Proc : Is(q, "store"))
        BY <1>1, <3>1, <3>5 DEF NoteFields
      <4>2. note'.stale \in BOOLEAN /\ 0..note.forgot \subseteq 0..note'.forgot
            /\ (~note'.stale => ~note.stale /\ \A q \in Proc : ~Is(q, "store"))
        <5>1. note'.stale \in BOOLEAN
          BY <4>1
        <5>2. ~note'.stale => ~note.stale /\ \A q \in Proc : ~Is(q, "store")
          BY <4>1
        <5>3. 0..note.forgot \subseteq 0..note'.forgot
          BY <1>3, <4>1
        <5> QED  BY <5>1, <5>2, <5>3
      <4>3. dir'[Value] = 0
        <5>1. Value \in DOMAIN dir
          BY <1>3, CacheAssumption DEF DiskTypes, CacheNames
        <5> QED  BY <3>3, <3>5, <5>1
      <4>4. \A q \in Proc : proc'[q] # Idle => proc'[q].since \in 0..note'.forgot
        BY <1>1, <1>3, <2>1, <3>2, <4>2 DEF DiskForgets
      <4>5. \A q, r \in Proc : OneName(q, r)'
        BY <1>1, <3>3 DEF DiskForgets, OneName, HasFile, FileOf
      <4>6. ASSUME ~note'.stale, NEW q \in Proc
            PROVE  KeepsUp(q)'
        <5>1. CASE q = p
          BY <3>3, <5>1
        <5>2. CASE q # p
          <6>1. KeepsUp(q) /\ ~Is(q, "store") /\ proc'[q] = proc[q]
            BY <1>1, <4>2, <4>6, <5>2 DEF DiskForgets
          <6>2. Is(q, "put") => proc[q].inode \in 1..Len(disk) /\ Len(disk) \in Nat
            <7>1. Is(q, "put") => proc[q] # Idle /\ HasFile(q)
              BY DEF Is, Idle, HasFile
            <7> QED  BY <7>1 DEF DiskInv, DiskTypes, CallOK
          <6>3. ~(Is(q, "put") /\ proc[q].inode = dir'[Value])
            BY <4>3, <6>2
          <6> QED  BY <3>3, <6>1, <6>3 DEF KeepsUp, Is
        <5> QED  BY <5>1, <5>2
      <4>7. ASSUME ~note'.stale, NEW q \in Proc, NEW r \in Proc
            PROVE  ReadsWhatIsPut(q, r)'
        BY <1>1, <3>2, <4>2, <4>7 DEF DiskForgets, ReadsWhatIsPut, Is
      <4> QED  BY <4>2, <4>3, <4>4, <4>5, <4>6, <4>7 DEF DiskForgets, Exists
    <3> QED  BY <3>4, <3>5
  <2> QED  BY <2>2, <2>3
<1> QED  BY <1>6, <1>7, <1>8, <1>9, <1>10, <1>11, <1>12

LEMMA DiskForgetWrites ==
    ASSUME Alone, note.users = "requests", DiskInv, DiskForgets, NEW p \in Proc,
           ApplyOpen(p) \/ ApplyFirst(p) \/ ApplyLoad(p) \/ ApplyStore(p) \/ StoreOpen(p) \/ StorePut(p) \/ Killed(p)
    PROVE  DiskForgets'
<1> SUFFICES ASSUME NEW n, n = proc[p].file, NEW i, i = proc[p].inode
             PROVE  DiskForgets'
  OBVIOUS
<1>1. /\ DOMAIN note = NoteFields /\ DOMAIN proc = Proc /\ InCall(p) /\ CallOK(p)
      /\ \A q \in Proc : q # p => proc'[q] = proc[q]
      /\ proc[p].pc \in {"apply", "first", "lock", "write", "store", "put"}
  <2>1. proc[p].pc \in {"apply", "first", "lock", "write", "store", "put"}
    BY DEF ApplyOpen, ApplyFirst, ApplyLoad, ApplyStore, StoreOpen, StorePut, Killed, Is
  <2> QED  BY <2>1, RequestMoves DEF Alone, Moved, DiskInv, CacheStep
<1>2. DOMAIN proc[p] = CallFields("requests") /\ proc[p] # Idle /\ proc[p].then \in {"idle", "decide", "return"}
  BY <1>1 DEF InCall, Idle
<1>3. /\ DiskTypes /\ NoteTypes /\ note.forgot \in Nat /\ Len(disk) \in Nat
      /\ proc[p].since \in 0..note.forgot /\ proc[p].item \in Int
      /\ (~note.stale => KeepsUp(p))
      /\ proc[p].pc \in {"apply", "first", "lock", "write"} => n \in Applied
      /\ HasFile(p) => i \in 1..Len(disk) /\ \A m \in CacheNames \ {FileOf(p)} : dir[m] # i
      /\ Value \in CacheNames /\ Value \notin Applied /\ Applied \subseteq CacheNames
  BY <1>1, <1>2, CacheAssumption DEF DiskInv, NoteTypes, DiskTypes, DiskForgets, CallOK, CacheNames, Applied
<1>4. proc'[p] = Idle => ~HasFile(p)' /\ KeepsUp(p)'
  BY DEF HasFile, KeepsUp, Is, Idle, Applying
<1>5. ASSUME NEW q \in Proc, HasFile(q)
      PROVE  proc[q].inode \in 1..Len(disk) /\ \A m \in CacheNames \ {FileOf(q)} : dir[m] # proc[q].inode
  <2>1. proc[q] # Idle /\ CallOK(q)
    BY <1>5 DEF HasFile, Idle, DiskInv
  <2> QED  BY <1>5, <2>1 DEF CallOK
<1>6. ~note.stale /\ Exists(Value) /\ Holds(Value) # Empty => Holds(Value) >= note.forgot
  BY DEF DiskForgets
<1>7. CASE ApplyOpen(p)
  <2>1. proc[p].pc = "apply" /\ dir' = dir /\ disk' = disk
    BY <1>7 DEF ApplyOpen, Is, diskVars
  <2>2. note'.stale = note.stale /\ note'.forgot = note.forgot
    BY <1>1, <1>7 DEF ApplyOpen, NoteFields
  <2>3. CASE Exists(n)
    <3>1. Step(p, [pc |-> "lock", found |-> TRUE, inode |-> dir[n]])
      BY <1>7, <2>3 DEF ApplyOpen
    <3>2. /\ proc'[p].pc = "lock" /\ proc'[p].inode = dir[n] /\ proc'[p].file = n
          /\ proc'[p].item = proc[p].item /\ proc'[p].since = proc[p].since /\ proc'[p].then = proc[p].then
      BY <1>1, <1>2, <2>1, <3>1, StepMoves DEF CallFields
    <3>3. n \in CacheNames
      BY <1>3, <2>1
    <3>4. ASSUME NEW q \in Proc, q # p
          PROVE  OneName(p, q)'
      <4>1. HasFile(q) /\ proc[q].inode = dir[n] => FileOf(q) = n
        BY <1>5, <3>3
      <4> QED  BY <1>1, <3>2, <3>4, <4>1 DEF OneName, HasFile, FileOf
    <3>5. /\ ~note.stale => KeepsUp(p)'
          /\ \A q \in Proc : q # p => ReadsWhatIsPut(p, q)' /\ ReadsWhatIsPut(q, p)'
      BY <1>3, <2>1, <3>2 DEF KeepsUp, Is, Applying, ReadsWhatIsPut
    <3>6. ~note.stale /\ Exists(Value)' /\ Holds(Value)' # Empty => Holds(Value)' >= note.forgot
      BY <1>6, <2>1 DEF Exists, Holds
    <3> QED  BY <1>1, <1>3, <2>1, <2>2, <3>2, <3>4, <3>5, <3>6, ForgetStep
  <2>4. CASE ~Exists(n)
    <3>1. Step(p, [pc |-> "first", found |-> FALSE])
      BY <1>7, <2>4 DEF ApplyOpen
    <3>2. /\ proc'[p].pc = "first"
          /\ proc'[p].item = proc[p].item /\ proc'[p].since = proc[p].since /\ proc'[p].then = proc[p].then
      BY <1>1, <1>2, <2>1, <3>1, StepMoves DEF CallFields
    <3>3. ~HasFile(p)' /\ (~note.stale => KeepsUp(p)')
      BY <1>3, <2>1, <3>2 DEF HasFile, KeepsUp, Is, Applying
    <3> QED  BY <1>1, <1>3, <2>1, <2>2, <3>2, <3>3, ForgetQuiet
  <2> QED  BY <2>3, <2>4
<1>8. CASE ApplyFirst(p)
  <2>1. /\ proc[p].pc = "first" /\ OpenForWriting(n) /\ note' = note /\ n \in CacheNames /\ n # Value
        /\ Step(p, [pc |-> "lock", inode |-> InodeForWriting(n)])
    BY <1>3, <1>8 DEF ApplyFirst, Is
  <2>2. /\ dir'[n] = InodeForWriting(n)
        /\ Exists(n) => dir' = dir
        /\ dir'[Value] = dir[Value] /\ (Exists(Value) => Holds(Value)' = Holds(Value))
    BY <1>3, <2>1, Opened
  <2>3. dir'[n] \in {dir[n], Len(disk) + 1}
    BY <1>3, <2>1, ItsInode
  <2>4. /\ proc'[p].pc = "lock" /\ proc'[p].inode = dir'[n] /\ proc'[p].file = n
        /\ proc'[p].item = proc[p].item /\ proc'[p].since = proc[p].since /\ proc'[p].then = proc[p].then
    BY <1>1, <1>2, <2>1, <2>2, StepMoves DEF CallFields
  <2>5. ASSUME NEW q \in Proc, q # p
        PROVE  OneName(p, q)'
    <3>1. HasFile(q) /\ proc[q].inode = dir'[n] => FileOf(q) = n
      BY <1>3, <1>5, <2>1, <2>3
    <3> QED  BY <1>1, <2>4, <2>5, <3>1 DEF OneName, HasFile, FileOf
  <2>6. /\ ~note.stale => KeepsUp(p)'
        /\ \A q \in Proc : q # p => ReadsWhatIsPut(p, q)' /\ ReadsWhatIsPut(q, p)'
    BY <1>3, <2>1, <2>4 DEF KeepsUp, Is, Applying, ReadsWhatIsPut
  <2>7. ~note.stale /\ Exists(Value)' /\ Holds(Value)' # Empty => Holds(Value)' >= note.forgot
    BY <1>6, <2>2 DEF Exists
  <2>8. \A q \in Proc : q # p /\ Is(q, "load") =>
           disk'[proc[q].inode] = Empty \/ disk'[proc[q].inode] = disk[proc[q].inode]
    BY <1>3, <1>5, <2>1, OpenKeeps DEF HasFile, Is
  <2> QED  BY <1>1, <1>3, <2>1, <2>2, <2>4, <2>5, <2>6, <2>7, <2>8, ForgetStep
<1>9. CASE ApplyLoad(p)
  <2>1. proc[p].pc = "lock" /\ dir' = dir /\ disk' = disk /\ note' = note /\ HasFile(p) /\ FileOf(p) = n
    BY <1>9 DEF ApplyLoad, Is, HasFile, FileOf
  <2>2. CASE Return(p)
    BY <1>1, <1>3, <1>4, <2>1, <2>2, ReturnMoves, ForgetQuiet
  <2>3. CASE ~Return(p)
    <3>1. PICK c : Step(p, [pc |-> "write", count |-> c])
      BY <1>9, <2>3 DEF ApplyLoad, Raise
    <3>2. /\ proc'[p].pc = "write" /\ proc'[p].inode = i /\ proc'[p].file = n
          /\ proc'[p].item = proc[p].item /\ proc'[p].since = proc[p].since /\ proc'[p].then = proc[p].then
      BY <1>1, <1>2, <2>1, <3>1, StepMoves DEF CallFields
    <3>3. ASSUME NEW q \in Proc, q # p
          PROVE  OneName(p, q)'
      <4>1. OneName(p, q) /\ proc'[q] = proc[q]
        BY <1>1, <3>3 DEF DiskForgets
      <4>2. FileOf(p)' = n
        BY <3>2 DEF FileOf
      <4> QED  BY <2>1, <4>1, <4>2, <3>2 DEF OneName, HasFile, FileOf
    <3>4. /\ ~note.stale => KeepsUp(p)'
          /\ \A q \in Proc : q # p => ReadsWhatIsPut(p, q)' /\ ReadsWhatIsPut(q, p)'
      BY <1>3, <2>1, <3>2 DEF KeepsUp, Is, Applying, ReadsWhatIsPut
    <3>5. ~note.stale /\ Exists(Value)' /\ Holds(Value)' # Empty => Holds(Value)' >= note.forgot
      BY <1>6, <2>1 DEF Exists, Holds
    <3> QED  BY <1>1, <1>3, <2>1, <3>2, <3>3, <3>4, <3>5, ForgetStep
  <2> QED  BY <2>2, <2>3
<1>10. CASE ApplyStore(p)
  <2>1. /\ proc[p].pc = "write" /\ dir' = dir /\ disk' = [disk EXCEPT ![i] = proc[p].count + 1]
        /\ HasFile(p) /\ FileOf(p) = n /\ n \in Applied
    BY <1>3, <1>10 DEF ApplyStore, Is, HasFile, FileOf
  <2>2. note'.stale = note.stale /\ note'.forgot = note.forgot
    BY <1>1, <1>10 DEF ApplyStore, NoteFields
  <2>3. dir[Value] # i /\ i \in 1..Len(disk)
    BY <1>3, <2>1
  <2>4. /\ proc'[p] # Idle => proc'[p].since \in 0..note.forgot
        /\ ~HasFile(p)' /\ (~note.stale => KeepsUp(p)')
    <3>1. CASE proc[p].then = "idle"
      <4>1. proc'[p] = Idle
        BY <1>1, <1>10, <3>1, ReturnMoves DEF ApplyStore
      <4> QED  BY <1>4, <4>1
    <3>2. CASE proc[p].then # "idle"
      <4>1. proc[p].then \in {"decide", "return"} /\ Step(p, [pc |-> proc[p].then])
        BY <1>2, <1>10, <3>2 DEF ApplyStore
      <4>2. proc'[p].pc = proc[p].then /\ proc'[p].item = proc[p].item /\ proc'[p].since = proc[p].since
        BY <1>1, <1>2, <4>1, StepMoves DEF CallFields
      <4> QED  BY <1>3, <2>1, <4>1, <4>2 DEF HasFile, KeepsUp, Is, Applying
    <3> QED  BY <3>1, <3>2
  <2>5. \A q \in Proc : q # p => OneName(p, q)' /\ ReadsWhatIsPut(p, q)' /\ ReadsWhatIsPut(q, p)'
    BY <2>4 DEF OneName, ReadsWhatIsPut, HasFile, Is
  <2>6. \A j \in 1..Len(disk) : j # i => disk'[j] = disk[j]
    BY <1>3, <2>1 DEF DiskTypes
  <2>7. ~note.stale /\ Exists(Value)' /\ Holds(Value)' # Empty => Holds(Value)' >= note.forgot
    <3>1. Exists(Value) => dir[Value] \in 1..Len(disk)
      BY <1>3 DEF DiskTypes, Exists
    <3> QED  BY <1>6, <2>1, <2>3, <2>6, <3>1 DEF Exists, Holds
  <2>8. ASSUME NEW q \in Proc, q # p, Is(q, "load")
        PROVE  disk'[proc[q].inode] = disk[proc[q].inode]
    <3>1. HasFile(q) /\ FileOf(q) = Value /\ proc[q].inode \in 1..Len(disk)
      BY <1>5, <2>8 DEF HasFile, FileOf, Is
    <3>2. OneName(p, q) /\ n # Value
      BY <1>3, <2>1 DEF DiskForgets
    <3>3. proc[q].inode # i
      BY <2>1, <3>1, <3>2 DEF OneName
    <3> QED  BY <2>6, <3>1, <3>3
  <2> QED  BY <1>1, <2>1, <2>2, <2>4, <2>5, <2>7, <2>8, ForgetStep
<1>11. CASE StoreOpen(p)
  <2>1. /\ proc[p].pc = "store" /\ OpenForWriting(Value) /\ note' = note
        /\ Step(p, [pc |-> "put", inode |-> InodeForWriting(Value)])
    BY <1>11 DEF StoreOpen, Is
  <2>2. /\ dir'[Value] = InodeForWriting(Value) /\ Holds(Value)' = Empty
        /\ dir'[Value] \in {dir[Value], Len(disk) + 1}
        /\ \A m \in CacheNames \ {Value} : dir'[m] # dir'[Value]
        /\ \A m \in CacheNames \ {Value} : dir'[m] = dir[m]
    BY <1>3, <2>1, Opened, ItsInode
  <2>3. /\ proc'[p].pc = "put" /\ proc'[p].inode = dir'[Value] /\ proc'[p].item = proc[p].item
        /\ proc'[p].since = proc[p].since
    BY <1>1, <1>2, <2>1, <2>2, StepMoves DEF CallFields
  <2>4. ASSUME NEW q \in Proc, q # p
        PROVE  OneName(p, q)'
    <3>1. HasFile(q) /\ proc[q].inode = dir'[Value] => FileOf(q) = Value
      BY <1>3, <1>5, <2>2
    <3> QED  BY <1>1, <2>3, <2>4, <3>1 DEF OneName, HasFile, FileOf
  <2>5. ASSUME ~note.stale
        PROVE  KeepsUp(p)' /\ \A q \in Proc : q # p => ReadsWhatIsPut(p, q)' /\ ReadsWhatIsPut(q, p)'
    <3>1. proc[p].item >= note.forgot /\ proc[p].item >= proc[p].since
      BY <1>3, <2>1, <2>5 DEF KeepsUp, Is
    <3>2. KeepsUp(p)'
      BY <2>1, <2>3, <3>1 DEF KeepsUp, Is, Applying
    <3>3. ASSUME NEW q \in Proc, q # p, Is(q, "load")
          PROVE  proc[p].item >= proc[q].since
      <4>1. proc[q].since \in 0..note.forgot
        BY <3>3 DEF DiskForgets, Is, Idle
      <4> QED  BY <1>3, <3>1, <4>1
    <3> QED  BY <1>1, <2>3, <3>2, <3>3 DEF ReadsWhatIsPut, Is
  <2>6. \A q \in Proc : q # p /\ Is(q, "load") =>
           disk'[proc[q].inode] = Empty \/ disk'[proc[q].inode] = disk[proc[q].inode]
    BY <1>3, <1>5, <2>1, OpenKeeps DEF HasFile, Is
  <2> QED  BY <1>1, <1>3, <2>1, <2>2, <2>3, <2>4, <2>5, <2>6, ForgetStep
<1>12. CASE StorePut(p)
  <2>1. proc[p].pc = "put" /\ dir' = dir /\ HasFile(p) /\ FileOf(p) = Value /\ i \in 1..Len(disk)
    BY <1>3, <1>12 DEF StorePut, Is, HasFile, FileOf
  <2>2. PICK v \in {proc[p].item, Empty} :
           /\ disk' = [disk EXCEPT ![i] = v]
           /\ \/ note' = note /\ Step(p, [pc |-> "apply", file |-> Stats, then |-> "return"])
              \/ note' = [note EXCEPT !.spoilt = TRUE] /\ Return(p)
    BY <1>12 DEF StorePut
  <2>3. note'.stale = note.stale /\ note'.forgot = note.forgot
    BY <1>1, <2>2 DEF NoteFields
  <2>4. /\ proc'[p] # Idle => proc'[p].since \in 0..note.forgot
        /\ ~HasFile(p)' /\ (~note.stale => KeepsUp(p)')
    <3>1. CASE Return(p)
      <4>1. proc'[p] = Idle
        BY <1>1, <3>1, ReturnMoves
      <4> QED  BY <1>4, <4>1
    <3>2. CASE Step(p, [pc |-> "apply", file |-> Stats, then |-> "return"])
      <4>1. /\ proc'[p].pc = "apply" /\ proc'[p].then = "return"
            /\ proc'[p].item = proc[p].item /\ proc'[p].since = proc[p].since
        BY <1>1, <1>2, <3>2, StepMoves DEF CallFields
      <4> QED  BY <1>3, <2>1, <4>1 DEF HasFile, KeepsUp, Is, Applying
    <3> QED  BY <2>2, <3>1, <3>2
  <2>5. \A q \in Proc : q # p => OneName(p, q)' /\ ReadsWhatIsPut(p, q)' /\ ReadsWhatIsPut(q, p)'
    BY <2>4 DEF OneName, ReadsWhatIsPut, HasFile, Is
  <2>6. disk'[i] = v /\ \A j \in 1..Len(disk) : j # i => disk'[j] = disk[j]
    BY <1>3, <2>1, <2>2 DEF DiskTypes
  <2>7. ~note.stale /\ Exists(Value)' /\ Holds(Value)' # Empty => Holds(Value)' >= note.forgot
    <3>1. Exists(Value) => dir[Value] \in 1..Len(disk)
      BY <1>3 DEF DiskTypes, Exists
    <3>2. ~note.stale /\ dir[Value] = i => proc[p].item >= note.forgot
      BY <1>3, <2>1 DEF KeepsUp, Is
    <3> QED  BY <1>6, <2>1, <2>2, <2>6, <3>1, <3>2 DEF Exists, Holds
  <2>8. ASSUME ~note.stale, NEW q \in Proc, q # p, Is(q, "load")
        PROVE  disk'[proc[q].inode] = Empty \/ disk'[proc[q].inode] = disk[proc[q].inode]
                  \/ disk'[proc[q].inode] >= proc[q].since
    <3>1. proc[q].inode \in 1..Len(disk)
      BY <1>5, <2>8 DEF HasFile, Is
    <3>2. proc[q].inode = i => proc[p].item >= proc[q].since
      BY <2>1, <2>8 DEF DiskForgets, ReadsWhatIsPut, Is
    <3> QED  BY <2>2, <2>6, <3>1, <3>2
  <2> QED  BY <1>1, <2>1, <2>3, <2>4, <2>5, <2>7, <2>8, ForgetStep
<1>13. CASE Killed(p)
  <2>1. proc'[p] = Idle /\ disk' = disk /\ dir' = dir
    BY <1>1, <1>13, ReturnMoves DEF Killed
  <2>2. note'.stale = note.stale /\ note'.forgot = note.forgot
    BY <1>1, <1>13 DEF Killed, NoteFields
  <2> QED  BY <1>1, <1>4, <2>1, <2>2, ForgetQuiet
<1> QED  BY <1>7, <1>8, <1>9, <1>10, <1>11, <1>12, <1>13

LEMMA ForgetStays ==
    ASSUME Alone, DiskKept, ForgetKept, [FilesNext]_fileVars
    PROVE  ForgetKept'
<1>1. CASE UNCHANGED fileVars
  <2>1. dir' = dir /\ disk' = disk /\ proc' = proc /\ note' = note
    BY <1>1 DEF fileVars, diskVars
  <2>2. RamForgets => RamForgets'
    BY <2>1 DEF RamForgets, Is
  <2>3. DiskForgets => DiskForgets'
    BY <2>1 DEF DiskForgets, OneName, KeepsUp, ReadsWhatIsPut, Is, HasFile, FileOf, Exists, Holds
  <2> QED  BY <2>1, <2>2, <2>3 DEF ForgetKept
<1>2. CASE FilesNext
  <2>1. note'.users = note.users
    BY <1>2, UsersStay
  <2>2. CASE note.users = "requests"
    <3>1. PICK p \in Proc : Begin(p) \/ CacheStep(p) \/ Killed(p)
      BY <1>2, <2>2, KindsApart DEF RequestsNext
    <3> QED  BY <2>1, <2>2, <3>1, DiskForgetReads, DiskForgetWrites DEF ForgetKept, DiskKept, CacheStep
  <2>3. CASE note.users = "threads"
    <3>1. CASE Tick
      <4>1. /\ note'.forgot = note.forgot /\ note'.stale = note.stale /\ note'.ram = note.ram
            /\ proc' = proc
        BY <3>1 DEF Tick, Alone, NoteFields
      <4> QED  BY <2>1, <2>3, <4>1 DEF ForgetKept, RamForgets, Is
    <3>2. CASE \E p \in Proc : BeginRam(p) \/ RamStep(p) \/ ReturnValue(p)
      BY <2>1, <2>3, <3>2, RamForgetSteps DEF ForgetKept
    <3> QED  BY <1>2, <2>3, <3>1, <3>2, KindsApart DEF ThreadsNext
  <2> QED  BY <2>1, <2>2, <2>3 DEF ForgetKept
<1> QED  BY <1>1, <1>2

\* A value that cache.disk or cache.ram returns was computed since the last clear before the
\* call, however many calls load, compute, store and clear at the same time, unless one that
\* was computed before was still to be stored when clear came (CacheOnDisk.__call__, clear).
THEOREM ClearedIsForgotten == FilesSpec => []ClearForgets
<1>1. FilesInit => ForgetKept
  <2> SUFFICES ASSUME FilesInit PROVE ForgetKept
    OBVIOUS
  <2>1. PICK users \in Kinds : note = FreshNote(users)
    BY DEF FilesInit, Kinds
  <2>2. /\ dir = [n \in Name |-> 0] /\ proc = [p \in Proc |-> Idle]
        /\ note.forgot = 0 /\ note.stale = FALSE /\ note.ram = NoItem
    BY <2>1 DEF FilesInit, FreshNote
  <2>3. ~Exists(Value)
    BY <2>2, CacheAssumption DEF Exists, CacheNames
  <2>4. RamForgets
    <3>1. \A p \in Proc : proc[p] = Idle /\ proc[p].pc = "idle"
      BY <2>2 DEF Idle
    <3>2. note.ram.value = Nothing /\ Nothing \in Int
      BY <2>2 DEF NoItem, Nothing
    <3>3. note.stale \in BOOLEAN
      BY <2>2
    <3> QED  BY <2>2, <3>1, <3>2, <3>3 DEF RamForgets, Is
  <2>5. \A p, q \in Proc : OneName(p, q) /\ KeepsUp(p) /\ ReadsWhatIsPut(p, q)
    BY <2>2 DEF OneName, HasFile, KeepsUp, ReadsWhatIsPut, Is, Idle, Applying
  <2>6. DiskForgets
    <3>1. note.stale \in BOOLEAN
      BY <2>2
    <3> QED  BY <2>2, <2>3, <2>5, <3>1 DEF DiskForgets
  <2> QED  BY <2>4, <2>6 DEF ForgetKept
<1>2. Alone /\ DiskKept /\ ForgetKept /\ [FilesNext]_fileVars => ForgetKept'
  BY ForgetStays
<1>3. Alone /\ ForgetKept => ClearForgets
  <2> SUFFICES ASSUME Alone, ForgetKept, NEW p \in Proc, Is(p, "return"), ~note.stale
               PROVE  proc[p].item >= proc[p].since
    BY DEF ClearForgets
  <2>1. proc[p].pc = "return" /\ proc[p].pc \in Places(note.users) /\ note.users \in Kinds
    <3>1. proc[p].pc = "return" /\ proc[p] # Idle
      BY DEF Is, Idle
    <3> QED  BY <3>1 DEF Alone, InCall
  <2>2. note.users \in {"requests", "threads"}
    BY <2>1 DEF Places, Kinds
  <2> QED  BY <2>1, <2>2 DEF ForgetKept, RamForgets, DiskForgets, KeepsUp, Is
<1> QED  BY <1>1, <1>2, <1>3, AlwaysAlone, AlwaysDisk, PTL DEF FilesSpec

=============================================================================
