----------------------------- MODULE FilesProof -----------------------------
(***************************************************************************)
(* That the four kinds of users of FileUsers do not meet, and what holds   *)
(* of cron's token, of cache.ram and of sessions for any number of         *)
(* processes and calls, concurrent requests of a browser, logins and       *)
(* logouts.                                                                *)
(***************************************************************************)
EXTENDS FileUsers, TLAPS, FiniteSetTheorems

Kinds == {"requests", "threads", "cron", "browser"}

NoteFields ==
    {"users", "clock", "counted", "creators", "cut", "forgot", "stale", "spoilt", "ram", "masters",
     "disturbed", "cookie", "sids", "cleared", "wanted", "overlap", "crossed"}

\* The program of a call, and the places where it can be, for each kind of user.
CallFields(users) ==
    CASE users = "requests" -> {"pc", "op", "file", "inode", "found", "item", "count", "then", "todo", "since"}
      [] users = "threads" -> {"pc", "op", "now", "item", "made", "since"}
      [] users = "cron" -> {"pc", "op", "startup", "id", "now", "mine"}
      [] users = "browser" -> {"pc", "op", "sid", "inode", "auth", "new", "changed"}

Places(users) ==
    CASE users = "requests" -> {"read", "load", "apply", "first", "lock", "write", "decide", "compute",
                                "store", "put", "stuck", "return", "clear"}
      [] users = "threads" -> {"lookup", "call", "keep", "return"}
      [] users = "cron" -> {"token", "create", "acquire", "jobs", "close"}
      [] users = "browser" -> {"connect", "session", "controller", "save", "unlink", "answer"}

InCall(p) ==
    \/ proc[p] = Idle
    \/ /\ DOMAIN proc[p] = CallFields(note.users)
       /\ proc[p].pc \in Places(note.users)
       /\ note.users = "requests" => proc[p].then \in {"idle", "decide", "return"}

\* Each process is idle or within a call of the one kind that there is.
Alone ==
    /\ note.users \in Kinds
    /\ DOMAIN note = NoteFields
    /\ DOMAIN proc = Proc
    /\ \A p \in Proc : InCall(p)

RequestsNext == \E p \in Proc : Begin(p) \/ CacheStep(p) \/ Killed(p)
ThreadsNext == (\E p \in Proc : BeginRam(p) \/ RamStep(p) \/ ReturnValue(p)) \/ Tick
CronNext == (\E p \in Proc : AskToken(p) \/ CronStep(p) \/ MasterKilled(p)) \/ Tick
BrowserNext == \E p \in Proc : Send(p) \/ SessionStep(p) \/ RaiseInRequest(p) \/ LoseAnswer(p)

LEMMA FirstAlone == FilesInit => Alone
  BY DEF FilesInit, FreshNote, Alone, Kinds, NoteFields, InCall

LEMMA KindsApart ==
    ASSUME Alone, FilesNext
    PROVE  \/ note.users = "requests" /\ RequestsNext
           \/ note.users = "threads" /\ ThreadsNext
           \/ note.users = "cron" /\ CronNext
           \/ note.users = "browser" /\ BrowserNext
<1>1. ASSUME NEW p \in Proc
      PROVE  proc[p].pc = "idle" \/ proc[p].pc \in Places(note.users)
  BY DEF Alone, InCall, Idle
<1>2. CASE Tick
  BY <1>2 DEF Tick, ThreadsNext, CronNext, Alone, Kinds
<1>3. ASSUME NEW p \in Proc, Begin(p) \/ CacheStep(p) \/ Killed(p)
      PROVE  (note.users = "requests" /\ RequestsNext) \/ (note.users = "threads" /\ ThreadsNext)
  <2>1. CASE Begin(p)
    BY <2>1 DEF Begin, RequestsNext
  <2>2. CASE Killed(p)
    BY <2>2, <1>1 DEF Killed, RequestsNext, Places, Alone, Kinds
  <2>3. CASE CacheStep(p)
    <3>1. proc[p].pc \in Places("requests")
      BY <2>3 DEF CacheStep, OpenItem, LoadItem, ApplyOpen, ApplyFirst, ApplyLoad, ApplyStore, Decide,
                  Compute, StoreOpen, StorePut, ReturnValue, ClearNext, Is, Places
    <3>2. proc[p].pc = "return" \/ note.users = "requests"
      BY <1>1, <3>1 DEF Places, Alone, Kinds
    <3>3. CASE proc[p].pc = "return"
      <4>1. ReturnValue(p)
        BY <2>3, <3>3 DEF CacheStep, OpenItem, LoadItem, ApplyOpen, ApplyFirst, ApplyLoad, ApplyStore,
                          Decide, Compute, StoreOpen, StorePut, ClearNext, Is
      <4>2. note.users \in {"requests", "threads"}
        BY <1>1, <3>3 DEF Places, Alone, Kinds
      <4> QED  BY <2>3, <4>1, <4>2 DEF ThreadsNext, RequestsNext
    <3> QED  BY <2>3, <3>2, <3>3 DEF RequestsNext
  <2> QED  BY <1>3, <2>1, <2>2, <2>3
<1>4. ASSUME NEW p \in Proc, BeginRam(p) \/ RamStep(p)
      PROVE  note.users = "threads" /\ ThreadsNext
  <2>1. CASE BeginRam(p)
    BY <2>1 DEF BeginRam, ThreadsNext
  <2>2. CASE RamStep(p)
    <3>1. proc[p].pc \in {"lookup", "call", "keep"}
      BY <2>2 DEF RamStep, RamLookup, RamClear, RamCompute, RamStore, Is
    <3> QED  BY <1>1, <2>2, <3>1 DEF ThreadsNext, Places, Alone, Kinds
  <2> QED  BY <1>4, <2>1, <2>2
<1>5. ASSUME NEW p \in Proc, AskToken(p) \/ CronStep(p) \/ MasterKilled(p)
      PROVE  note.users = "cron" /\ CronNext
  <2>1. CASE AskToken(p)
    BY <2>1 DEF AskToken, CronNext
  <2>2. CASE CronStep(p) \/ MasterKilled(p)
    <3>1. proc[p].pc \in Places("cron")
      BY <2>2 DEF CronStep, TestToken, CreateToken, Acquire, ReleaseToken, CloseToken, MasterKilled, Is, Places
    <3> QED  BY <1>1, <2>2, <3>1 DEF CronNext, Places, Alone, Kinds
  <2> QED  BY <1>5, <2>1, <2>2
<1>6. ASSUME NEW p \in Proc, Send(p) \/ SessionStep(p) \/ RaiseInRequest(p) \/ LoseAnswer(p)
      PROVE  note.users = "browser" /\ BrowserNext
  <2>1. CASE Send(p)
    BY <2>1 DEF Send, BrowserNext
  <2>2. CASE SessionStep(p) \/ RaiseInRequest(p) \/ LoseAnswer(p)
    <3>1. proc[p].pc \in Places("browser")
      BY <2>2 DEF SessionStep, OpenSession, LoadSession, Visit, LogIn, ClearSession, UnlinkSession,
                  StoreSession, Answer, RaiseInRequest, LoseAnswer, Is, Places
    <3> QED  BY <1>1, <2>2, <3>1 DEF BrowserNext, Places, Alone, Kinds
  <2> QED  BY <1>6, <2>1, <2>2
<1> QED  BY <1>2, <1>3, <1>4, <1>5, <1>6 DEF FilesNext


-----------------------------------------------------------------------------
(* Every step is a step of one call. *)

\* What Step, Return and Call do to the calls.
LEMMA StepMoves ==
    ASSUME DOMAIN proc = Proc, NEW p \in Proc, NEW fields, Step(p, fields)
    PROVE  /\ DOMAIN proc' = Proc
           /\ \A q \in Proc : q # p => proc'[q] = proc[q]
           /\ DOMAIN proc'[p] = DOMAIN proc[p]
           /\ \A f \in DOMAIN proc[p] :
                 proc'[p][f] = IF f \in DOMAIN fields THEN fields[f] ELSE proc[p][f]
  BY DEF Step

LEMMA ReturnMoves ==
    ASSUME DOMAIN proc = Proc, NEW p \in Proc, Return(p)
    PROVE  DOMAIN proc' = Proc /\ proc'[p] = Idle /\ \A q \in Proc : q # p => proc'[q] = proc[q]
  BY DEF Return

LEMMA CallMoves ==
    ASSUME DOMAIN proc = Proc, NEW p \in Proc, NEW program, Call(p, program)
    PROVE  DOMAIN proc' = Proc /\ proc'[p] = program /\ \A q \in Proc : q # p => proc'[q] = proc[q]
  BY DEF Call

\* The note keeps its fields and the kind of the users.
NoteKept == DOMAIN note' = NoteFields /\ note'.users = note.users

\* p alone has moved.
Moved(p) ==
    /\ DOMAIN proc' = Proc
    /\ \A q \in Proc : q # p => proc'[q] = proc[q]
    /\ InCall(p)'
    /\ NoteKept

LEMMA MovedAlone ==
    ASSUME Alone, NEW p \in Proc, Moved(p)
    PROVE  Alone'
  BY DEF Alone, Moved, InCall, NoteKept

LEMMA ReturnMoved ==
    ASSUME Alone, NEW p \in Proc, Return(p), NoteKept
    PROVE  Moved(p)
  BY ReturnMoves DEF Alone, Moved, InCall

LEMMA CallMoved ==
    ASSUME Alone, NEW p \in Proc, NEW program, Call(p, program), NoteKept,
           DOMAIN program = CallFields(note.users),
           program.pc \in Places(note.users),
           note.users = "requests" => program.then \in {"idle", "decide", "return"}
    PROVE  Moved(p)
  BY CallMoves DEF Alone, Moved, InCall, NoteKept

LEMMA StepMoved ==
    ASSUME Alone, NEW p \in Proc, NEW fields, Step(p, fields), NoteKept, proc[p].pc # "idle",
           "pc" \in DOMAIN fields => fields.pc \in Places(note.users),
           note.users = "requests" /\ "then" \in DOMAIN fields => fields.then \in {"idle", "decide", "return"}
    PROVE  Moved(p)
<1>1. /\ DOMAIN proc[p] = CallFields(note.users)
      /\ proc[p].pc \in Places(note.users)
      /\ note.users = "requests" => proc[p].then \in {"idle", "decide", "return"}
  BY DEF Alone, InCall, Idle
<1>2. "pc" \in CallFields(note.users) /\ (note.users = "requests" => "then" \in CallFields(note.users))
  BY DEF Alone, Kinds, CallFields
<1> QED  BY <1>1, <1>2, StepMoves DEF Alone, Moved, InCall, NoteKept

LEMMA RequestMoves ==
    ASSUME Alone, note.users = "requests", NEW p \in Proc, Begin(p) \/ CacheStep(p) \/ Killed(p)
    PROVE  Moved(p)
<1>1. NoteKept
  BY DEF Alone, NoteKept, NoteFields, CacheStep, Begin, OpenItem, LoadItem, ApplyOpen, ApplyFirst, ApplyLoad, ApplyStore, Decide, Compute, StoreOpen, StorePut, ReturnValue, ClearNext, Killed
<1>2. CASE Begin(p)
  <2>1. PICK program : /\ Call(p, program) /\ DOMAIN program = CallFields("requests")
                       /\ program.pc \in Places("requests") /\ program.then = "idle"
    BY <1>2 DEF Begin, Working, CallFields, Places
  <2> QED  BY <1>1, <2>1, CallMoved
<1>3. CASE OpenItem(p)
  <2>1. proc[p].pc # "idle" /\ proc[p].then \in {"idle", "decide", "return"}
    BY <1>3 DEF OpenItem, Is, Alone, InCall, Idle
  <2>2. PICK fields : /\ Step(p, fields)
                      /\ "pc" \in DOMAIN fields => fields.pc \in Places("requests")
                      /\ "then" \in DOMAIN fields => fields.then \in {"idle", "decide", "return"}
    BY <1>3, <2>1 DEF OpenItem, Places
  <2> QED  BY <1>1, <2>1, <2>2, StepMoved
<1>4. CASE LoadItem(p)
  <2>1. proc[p].pc # "idle" /\ proc[p].then \in {"idle", "decide", "return"}
    BY <1>4 DEF LoadItem, Is, Alone, InCall, Idle
  <2>2. CASE ~Return(p)
    <3>1. PICK fields : /\ Step(p, fields)
                        /\ "pc" \in DOMAIN fields => fields.pc \in Places("requests")
                        /\ "then" \in DOMAIN fields => fields.then \in {"idle", "decide", "return"}
      BY <1>4, <2>1, <2>2 DEF LoadItem, Raise, Places
    <3> QED  BY <1>1, <2>1, <3>1, StepMoved
  <2> QED  BY <1>1, <2>2, ReturnMoved
<1>5. CASE ApplyOpen(p)
  <2>1. proc[p].pc # "idle" /\ proc[p].then \in {"idle", "decide", "return"}
    BY <1>5 DEF ApplyOpen, Is, Alone, InCall, Idle
  <2>2. PICK fields : /\ Step(p, fields)
                      /\ "pc" \in DOMAIN fields => fields.pc \in Places("requests")
                      /\ "then" \in DOMAIN fields => fields.then \in {"idle", "decide", "return"}
    BY <1>5, <2>1 DEF ApplyOpen, Places
  <2> QED  BY <1>1, <2>1, <2>2, StepMoved
<1>6. CASE ApplyFirst(p)
  <2>1. proc[p].pc # "idle" /\ proc[p].then \in {"idle", "decide", "return"}
    BY <1>6 DEF ApplyFirst, Is, Alone, InCall, Idle
  <2>2. PICK fields : /\ Step(p, fields)
                      /\ "pc" \in DOMAIN fields => fields.pc \in Places("requests")
                      /\ "then" \in DOMAIN fields => fields.then \in {"idle", "decide", "return"}
    BY <1>6, <2>1 DEF ApplyFirst, Places
  <2> QED  BY <1>1, <2>1, <2>2, StepMoved
<1>7. CASE ApplyLoad(p)
  <2>1. proc[p].pc # "idle" /\ proc[p].then \in {"idle", "decide", "return"}
    BY <1>7 DEF ApplyLoad, Is, Alone, InCall, Idle
  <2>2. CASE ~Return(p)
    <3>1. PICK fields : /\ Step(p, fields)
                        /\ "pc" \in DOMAIN fields => fields.pc \in Places("requests")
                        /\ "then" \in DOMAIN fields => fields.then \in {"idle", "decide", "return"}
      BY <1>7, <2>1, <2>2 DEF ApplyLoad, Raise, Places
    <3> QED  BY <1>1, <2>1, <3>1, StepMoved
  <2> QED  BY <1>1, <2>2, ReturnMoved
<1>8. CASE ApplyStore(p)
  <2>1. proc[p].pc # "idle" /\ proc[p].then \in {"idle", "decide", "return"}
    BY <1>8 DEF ApplyStore, Is, Alone, InCall, Idle
  <2>2. CASE ~Return(p)
    <3>1. PICK fields : /\ Step(p, fields)
                        /\ "pc" \in DOMAIN fields => fields.pc \in Places("requests")
                        /\ "then" \in DOMAIN fields => fields.then \in {"idle", "decide", "return"}
      BY <1>8, <2>1, <2>2 DEF ApplyStore, Places
    <3> QED  BY <1>1, <2>1, <3>1, StepMoved
  <2> QED  BY <1>1, <2>2, ReturnMoved
<1>9. CASE Decide(p)
  <2>1. proc[p].pc # "idle" /\ proc[p].then \in {"idle", "decide", "return"}
    BY <1>9 DEF Decide, Is, Alone, InCall, Idle
  <2>2. CASE ~Return(p)
    <3>1. PICK fields : /\ Step(p, fields)
                        /\ "pc" \in DOMAIN fields => fields.pc \in Places("requests")
                        /\ "then" \in DOMAIN fields => fields.then \in {"idle", "decide", "return"}
      BY <1>9, <2>1, <2>2 DEF Decide, Places
    <3> QED  BY <1>1, <2>1, <3>1, StepMoved
  <2> QED  BY <1>1, <2>2, ReturnMoved
<1>10. CASE Compute(p)
  <2>1. proc[p].pc # "idle" /\ proc[p].then \in {"idle", "decide", "return"}
    BY <1>10 DEF Compute, Is, Alone, InCall, Idle
  <2>2. CASE ~Return(p)
    <3>1. PICK fields : /\ Step(p, fields)
                        /\ "pc" \in DOMAIN fields => fields.pc \in Places("requests")
                        /\ "then" \in DOMAIN fields => fields.then \in {"idle", "decide", "return"}
      BY <1>10, <2>1, <2>2 DEF Compute, Places
    <3> QED  BY <1>1, <2>1, <3>1, StepMoved
  <2> QED  BY <1>1, <2>2, ReturnMoved
<1>11. CASE StoreOpen(p)
  <2>1. proc[p].pc # "idle" /\ proc[p].then \in {"idle", "decide", "return"}
    BY <1>11 DEF StoreOpen, Is, Alone, InCall, Idle
  <2>2. PICK fields : /\ Step(p, fields)
                      /\ "pc" \in DOMAIN fields => fields.pc \in Places("requests")
                      /\ "then" \in DOMAIN fields => fields.then \in {"idle", "decide", "return"}
    BY <1>11, <2>1 DEF StoreOpen, Places
  <2> QED  BY <1>1, <2>1, <2>2, StepMoved
<1>12. CASE StorePut(p)
  <2>1. proc[p].pc # "idle" /\ proc[p].then \in {"idle", "decide", "return"}
    BY <1>12 DEF StorePut, Is, Alone, InCall, Idle
  <2>2. CASE ~Return(p)
    <3>1. PICK fields : /\ Step(p, fields)
                        /\ "pc" \in DOMAIN fields => fields.pc \in Places("requests")
                        /\ "then" \in DOMAIN fields => fields.then \in {"idle", "decide", "return"}
      BY <1>12, <2>1, <2>2 DEF StorePut, Places
    <3> QED  BY <1>1, <2>1, <3>1, StepMoved
  <2> QED  BY <1>1, <2>2, ReturnMoved
<1>13. CASE ReturnValue(p)
  BY <1>1, <1>13, ReturnMoved DEF ReturnValue
<1>14. CASE ClearNext(p)
  <2>1. Is(p, "clear") /\ proc[p].pc = "clear"
    BY <1>14 DEF ClearNext, Is
  <2>2. CASE ~Return(p)
    <3>1. PICK n \in proc[p].todo : Step(p, [todo |-> proc[p].todo \ {n}])
      BY <1>14, <2>2 DEF ClearNext
    <3>2. DOMAIN [todo |-> proc[p].todo \ {n}] = {"todo"}
      OBVIOUS
    <3> QED  BY <1>1, <2>1, <3>1, <3>2, StepMoved
  <2> QED  BY <1>1, <2>2, ReturnMoved
<1>15. CASE Killed(p)
  BY <1>1, <1>15, ReturnMoved DEF Killed
<1> QED
  BY <1>2, <1>3, <1>4, <1>5, <1>6, <1>7, <1>8, <1>9, <1>10, <1>11, <1>12, <1>13, <1>14, <1>15 DEF CacheStep

LEMMA ThreadMoves ==
    ASSUME Alone, note.users = "threads", NEW p \in Proc, BeginRam(p) \/ RamStep(p) \/ ReturnValue(p)
    PROVE  Moved(p)
<1>1. NoteKept
  BY DEF Alone, NoteKept, NoteFields, RamStep, BeginRam, RamLookup, RamClear, RamCompute, RamStore, ReturnValue
<1>2. CASE BeginRam(p)
  <2>1. PICK program : /\ Call(p, program) /\ DOMAIN program = CallFields("threads")
                       /\ program.pc \in Places("threads")
    BY <1>2 DEF BeginRam, Asks, CallFields, Places
  <2> QED  BY <1>1, <2>1, CallMoved
<1>3. CASE RamLookup(p)
  <2>1. proc[p].pc # "idle"
    BY <1>3 DEF RamLookup, Is
  <2>2. CASE ~Return(p)
    <3>1. PICK fields : /\ Step(p, fields)
                        /\ "pc" \in DOMAIN fields => fields.pc \in Places("threads")
      BY <1>3, <2>1, <2>2 DEF RamLookup, Places
    <3> QED  BY <1>1, <2>1, <3>1, StepMoved
  <2> QED  BY <1>1, <2>2, ReturnMoved
<1>4. CASE RamClear(p)
  BY <1>1, <1>4, ReturnMoved DEF RamClear
<1>5. CASE RamCompute(p)
  <2>1. proc[p].pc # "idle"
    BY <1>5 DEF RamCompute, Is
  <2>2. CASE ~Return(p)
    <3>1. PICK fields : /\ Step(p, fields)
                        /\ "pc" \in DOMAIN fields => fields.pc \in Places("threads")
      BY <1>5, <2>1, <2>2 DEF RamCompute, Places
    <3> QED  BY <1>1, <2>1, <3>1, StepMoved
  <2> QED  BY <1>1, <2>2, ReturnMoved
<1>6. CASE RamStore(p)
  <2>1. proc[p].pc # "idle"
    BY <1>6 DEF RamStore, Is
  <2>2. PICK fields : /\ Step(p, fields)
                      /\ "pc" \in DOMAIN fields => fields.pc \in Places("threads")
    BY <1>6, <2>1 DEF RamStore, Places
  <2> QED  BY <1>1, <2>1, <2>2, StepMoved
<1>7. CASE ReturnValue(p)
  BY <1>1, <1>7, ReturnMoved DEF ReturnValue
<1> QED
  BY <1>2, <1>3, <1>4, <1>5, <1>6, <1>7 DEF RamStep

LEMMA CronMoves ==
    ASSUME Alone, note.users = "cron", NEW p \in Proc, AskToken(p) \/ CronStep(p) \/ MasterKilled(p)
    PROVE  Moved(p)
<1>1. NoteKept
  BY DEF Alone, NoteKept, NoteFields, CronStep, AskToken, TestToken, CreateToken, Acquire, ReleaseToken, CloseToken, MasterKilled
<1>2. CASE AskToken(p)
  <2>1. PICK program : /\ Call(p, program) /\ DOMAIN program = CallFields("cron")
                       /\ program.pc \in Places("cron")
    BY <1>2 DEF AskToken, Asking, CallFields, Places
  <2> QED  BY <1>1, <2>1, CallMoved
<1>3. CASE TestToken(p)
  <2>1. proc[p].pc # "idle"
    BY <1>3 DEF TestToken, Is
  <2>2. PICK fields : /\ Step(p, fields)
                      /\ "pc" \in DOMAIN fields => fields.pc \in Places("cron")
    BY <1>3, <2>1 DEF TestToken, Places
  <2> QED  BY <1>1, <2>1, <2>2, StepMoved
<1>4. CASE CreateToken(p)
  <2>1. proc[p].pc # "idle"
    BY <1>4 DEF CreateToken, Is
  <2>2. PICK fields : /\ Step(p, fields)
                      /\ "pc" \in DOMAIN fields => fields.pc \in Places("cron")
    BY <1>4, <2>1 DEF CreateToken, Places
  <2> QED  BY <1>1, <2>1, <2>2, StepMoved
<1>5. CASE Acquire(p)
  <2>1. proc[p].pc # "idle"
    BY <1>5 DEF Acquire, Is
  <2>2. CASE ~Return(p)
    <3>1. PICK fields : /\ Step(p, fields)
                        /\ "pc" \in DOMAIN fields => fields.pc \in Places("cron")
      <4>1. Step(p, [pc |-> "jobs"])
        BY <1>5, <2>2 DEF Acquire
      <4> QED  BY <4>1 DEF Places
    <3> QED  BY <1>1, <2>1, <3>1, StepMoved
  <2> QED  BY <1>1, <2>2, ReturnMoved
<1>6. CASE ReleaseToken(p)
  <2>1. proc[p].pc # "idle"
    BY <1>6 DEF ReleaseToken, Is
  <2>2. CASE ~Return(p)
    <3>1. PICK fields : /\ Step(p, fields)
                        /\ "pc" \in DOMAIN fields => fields.pc \in Places("cron")
      BY <1>6, <2>1, <2>2 DEF ReleaseToken, Places
    <3> QED  BY <1>1, <2>1, <3>1, StepMoved
  <2> QED  BY <1>1, <2>2, ReturnMoved
<1>7. CASE CloseToken(p)
  BY <1>1, <1>7, ReturnMoved DEF CloseToken
<1>8. CASE MasterKilled(p)
  BY <1>1, <1>8, ReturnMoved DEF MasterKilled
<1> QED
  BY <1>2, <1>3, <1>4, <1>5, <1>6, <1>7, <1>8 DEF CronStep

LEMMA BrowserMoves ==
    ASSUME Alone, note.users = "browser", NEW p \in Proc, Send(p) \/ SessionStep(p) \/ RaiseInRequest(p) \/ LoseAnswer(p)
    PROVE  Moved(p)
<1>1. NoteKept
  BY DEF Alone, NoteKept, NoteFields, SessionStep, Send, OpenSession, LoadSession, Visit, LogIn, ClearSession, UnlinkSession, StoreSession, Answer, RaiseInRequest, LoseAnswer
<1>2. CASE Send(p)
  <2>1. PICK program : /\ Call(p, program) /\ DOMAIN program = CallFields("browser")
                       /\ program.pc \in Places("browser")
    <3>1. PICK op \in {"visit"} \cup Changes : Call(p, Requesting(op))
      BY <1>2 DEF Send
    <3> QED  BY <3>1 DEF Requesting, CallFields, Places
  <2> QED  BY <1>1, <2>1, CallMoved
<1>3. CASE OpenSession(p)
  <2>1. proc[p].pc # "idle"
    BY <1>3 DEF OpenSession, Is
  <2>2. PICK fields : /\ Step(p, fields)
                      /\ "pc" \in DOMAIN fields => fields.pc \in Places("browser")
    BY <1>3, <2>1 DEF OpenSession, Places
  <2> QED  BY <1>1, <2>1, <2>2, StepMoved
<1>4. CASE LoadSession(p)
  <2>1. proc[p].pc # "idle"
    BY <1>4 DEF LoadSession, Is
  <2>2. PICK fields : /\ Step(p, fields)
                      /\ "pc" \in DOMAIN fields => fields.pc \in Places("browser")
    BY <1>4, <2>1 DEF LoadSession, Places
  <2> QED  BY <1>1, <2>1, <2>2, StepMoved
<1>5. CASE Visit(p)
  <2>1. proc[p].pc # "idle"
    BY <1>5 DEF Visit, Is
  <2>2. PICK fields : /\ Step(p, fields)
                      /\ "pc" \in DOMAIN fields => fields.pc \in Places("browser")
    BY <1>5, <2>1 DEF Visit, Places
  <2> QED  BY <1>1, <2>1, <2>2, StepMoved
<1>6. CASE LogIn(p)
  <2>1. proc[p].pc # "idle"
    BY <1>6 DEF LogIn, Is
  <2>2. PICK fields : /\ Step(p, fields)
                      /\ "pc" \in DOMAIN fields => fields.pc \in Places("browser")
    BY <1>6, <2>1 DEF LogIn, Places
  <2> QED  BY <1>1, <2>1, <2>2, StepMoved
<1>7. CASE ClearSession(p)
  <2>1. proc[p].pc # "idle"
    BY <1>7 DEF ClearSession, Is
  <2>2. PICK fields : /\ Step(p, fields)
                      /\ "pc" \in DOMAIN fields => fields.pc \in Places("browser")
    BY <1>7, <2>1 DEF ClearSession, Places
  <2> QED  BY <1>1, <2>1, <2>2, StepMoved
<1>8. CASE UnlinkSession(p)
  <2>1. proc[p].pc # "idle"
    BY <1>8 DEF UnlinkSession, Is
  <2>2. PICK fields : /\ Step(p, fields)
                      /\ "pc" \in DOMAIN fields => fields.pc \in Places("browser")
    BY <1>8, <2>1 DEF UnlinkSession, Places
  <2> QED  BY <1>1, <2>1, <2>2, StepMoved
<1>9. CASE StoreSession(p)
  <2>1. proc[p].pc # "idle"
    BY <1>9 DEF StoreSession, Is
  <2>2. PICK fields : /\ Step(p, fields)
                      /\ "pc" \in DOMAIN fields => fields.pc \in Places("browser")
    BY <1>9, <2>1 DEF StoreSession, Places
  <2> QED  BY <1>1, <2>1, <2>2, StepMoved
<1>10. CASE Answer(p)
  BY <1>1, <1>10, ReturnMoved DEF Answer
<1>11. CASE RaiseInRequest(p)
  BY <1>1, <1>11, ReturnMoved DEF RaiseInRequest
<1>12. CASE LoseAnswer(p)
  BY <1>1, <1>12, ReturnMoved DEF LoseAnswer
<1> QED
  BY <1>2, <1>3, <1>4, <1>5, <1>6, <1>7, <1>8, <1>9, <1>10, <1>11, <1>12 DEF SessionStep

LEMMA StaysAlone ==
    ASSUME Alone, [FilesNext]_fileVars
    PROVE  Alone'
<1>1. CASE UNCHANGED fileVars
  BY <1>1 DEF fileVars, Alone, InCall
<1>2. CASE Tick
  BY <1>2 DEF Tick, Alone, InCall, NoteFields
<1>3. CASE FilesNext /\ ~Tick
  <2>1. PICK p \in Proc : Moved(p)
    BY <1>3, KindsApart, RequestMoves, ThreadMoves, CronMoves, BrowserMoves
       DEF RequestsNext, ThreadsNext, CronNext, BrowserNext
  <2> QED  BY <2>1, MovedAlone
<1> QED  BY <1>1, <1>2, <1>3

-----------------------------------------------------------------------------
(* cache.ram. *)

\* What is stored was computed after its call began; where a value is on its way, its call
\* has found it fresh or computed it.
RamInv ==
    /\ note.clock \in Nat
    /\ note.ram.time \in Nat /\ note.ram.made \in Nat
    /\ note.ram.value # Nothing => note.ram.made >= note.ram.time
    /\ \A p \in Proc : proc[p] # Idle =>
          /\ proc[p].now \in 0..note.clock
          /\ proc[p].made \in Nat
          /\ proc[p].pc = "keep" => proc[p].made >= proc[p].now
          /\ proc[p].pc = "return" /\ Expire > 0 => proc[p].made > proc[p].now - Expire

RamKept == note.users = "threads" => RamInv

LEMMA RamTick ==
    ASSUME Alone, RamInv, Tick
    PROVE  RamInv'
  BY BoundAssumption DEF Alone, RamInv, Tick, NoteFields

\* A step of p leaves the calls of the others as they were.
LEMMA RamSteps ==
    ASSUME Alone, note.users = "threads", RamInv, NEW p \in Proc,
           BeginRam(p) \/ RamStep(p) \/ ReturnValue(p)
    PROVE  RamInv'
<1> DEFINE Fine ==
             proc'[p] # Idle =>
                /\ proc'[p].now \in 0..note.clock
                /\ proc'[p].made \in Nat
                /\ proc'[p].pc = "keep" => proc'[p].made >= proc'[p].now
                /\ proc'[p].pc = "return" /\ Expire > 0 => proc'[p].made > proc'[p].now - Expire
<1>1. /\ DOMAIN note = NoteFields /\ DOMAIN proc = Proc /\ InCall(p)
      /\ \A q \in Proc : q # p => proc'[q] = proc[q]
  BY ThreadMoves DEF Alone, Moved
<1>2. ASSUME note' = note, Fine
      PROVE  RamInv'
  BY <1>1, <1>2 DEF RamInv
<1>3. proc[p].pc # "idle" => DOMAIN proc[p] = CallFields("threads") /\ proc[p] # Idle
  BY <1>1 DEF InCall, Idle
<1>4. CASE BeginRam(p)
  <2>1. PICK op \in {"get", "drop", "clear"} : Call(p, Asks(op))
    BY <1>4 DEF BeginRam
  <2>2. proc'[p] = Asks(op)
    BY <1>1, <2>1, CallMoves
  <2> QED  BY <1>2, <1>4, <2>2 DEF BeginRam, Asks, RamInv
<1>5. CASE RamLookup(p) /\ proc[p].op = "drop"
  <2>1. note'.ram = NoItem /\ note'.clock = note.clock /\ proc'[p] = Idle
    BY <1>1, <1>5, ReturnMoves DEF RamLookup, NoteFields
  <2> QED  BY <1>1, <2>1 DEF RamInv, NoItem
<1>6. CASE RamLookup(p) /\ proc[p].op = "get"
  <2>1. CASE note.ram.value # Nothing /\ note.ram.time > proc[p].now - Expire
    <3>1. Step(p, [pc |-> "return", item |-> note.ram.value, made |-> note.ram.made])
      BY <1>6, <2>1 DEF RamLookup
    <3>2. proc'[p].pc = "return" /\ proc'[p].made = note.ram.made /\ proc'[p].now = proc[p].now
      BY <1>1, <1>3, <1>6, <3>1, StepMoves DEF RamLookup, Is, CallFields
    <3> QED  BY <1>2, <1>3, <1>6, <2>1, <3>2, ExpireAssumption DEF RamInv, RamLookup, Is
  <2>2. CASE ~(note.ram.value # Nothing /\ note.ram.time > proc[p].now - Expire)
    <3>1. Step(p, [pc |-> "call"])
      BY <1>6, <2>2 DEF RamLookup
    <3>2. proc'[p].pc = "call" /\ proc'[p].made = proc[p].made /\ proc'[p].now = proc[p].now
      BY <1>1, <1>3, <1>6, <3>1, StepMoves DEF RamLookup, Is, CallFields
    <3> QED  BY <1>2, <1>3, <1>6, <2>2, <3>2 DEF RamInv, RamLookup, Is
  <2> QED  BY <2>1, <2>2
<1>7. CASE RamClear(p)
  <2>1. note'.ram = NoItem /\ note'.clock = note.clock /\ proc'[p] = Idle
    BY <1>1, <1>7, ReturnMoves DEF RamClear, NoteFields
  <2> QED  BY <1>1, <2>1 DEF RamInv, NoItem
<1>8. CASE RamCompute(p)
  <2>1. CASE Return(p)
    BY <1>1, <1>2, <1>8, <2>1, ReturnMoves DEF RamCompute
  <2>2. CASE Step(p, [pc |-> "keep", item |-> note.forgot, made |-> note.clock])
    <3>1. proc'[p].pc = "keep" /\ proc'[p].made = note.clock /\ proc'[p].now = proc[p].now
      BY <1>1, <1>3, <1>8, <2>2, StepMoves DEF RamCompute, Is, CallFields
    <3> QED  BY <1>2, <1>3, <1>8, <3>1 DEF RamCompute, RamInv, Is
  <2> QED  BY <1>8, <2>1, <2>2 DEF RamCompute
<1>9. CASE RamStore(p)
  <2>1. /\ note'.ram = [time |-> proc[p].now, value |-> proc[p].item, made |-> proc[p].made]
        /\ note'.clock = note.clock
    BY <1>1, <1>9 DEF RamStore, NoteFields
  <2>2. proc'[p].pc = "return" /\ proc'[p].made = proc[p].made /\ proc'[p].now = proc[p].now
    BY <1>1, <1>3, <1>9, StepMoves DEF RamStore, Is, CallFields
  <2>3. proc[p] # Idle /\ proc[p].pc = "keep"
    BY <1>3, <1>9 DEF RamStore, Is
  <2>4. Fine
    BY <2>2, <2>3, ExpireAssumption DEF RamInv
  <2> QED  BY <1>1, <2>1, <2>3, <2>4 DEF RamInv
<1>10. CASE ReturnValue(p)
  BY <1>1, <1>2, <1>10, ReturnMoves DEF ReturnValue
<1>11. CASE RamLookup(p)
  BY <1>5, <1>6, <1>11 DEF RamLookup
<1> QED  BY <1>4, <1>7, <1>8, <1>9, <1>10, <1>11 DEF RamStep

LEMMA UsersStay ==
    ASSUME Alone, FilesNext
    PROVE  note'.users = note.users
<1>1. CASE Tick
  BY <1>1 DEF Tick, Alone, NoteFields
<1>2. CASE ~Tick
  BY <1>2, KindsApart, RequestMoves, ThreadMoves, CronMoves, BrowserMoves
     DEF RequestsNext, ThreadsNext, CronNext, BrowserNext, Moved, NoteKept
<1> QED  BY <1>1, <1>2

LEMMA RamStays ==
    ASSUME Alone, RamKept, [FilesNext]_fileVars
    PROVE  RamKept'
<1>1. CASE UNCHANGED fileVars
  BY <1>1 DEF fileVars, RamKept, RamInv
<1>2. CASE FilesNext
  <2>1. note'.users = note.users
    BY <1>2, UsersStay
  <2> QED  BY <1>2, <2>1, KindsApart, RamTick, RamSteps DEF RamKept, ThreadsNext
<1> QED  BY <1>1, <1>2

\* The users of the files stay apart, in every behaviour.
LEMMA AlwaysAlone == FilesSpec => []Alone
<1>1. FilesInit => Alone
  BY FirstAlone
<1>2. Alone /\ [FilesNext]_fileVars => Alone'
  BY StaysAlone
<1> QED  BY <1>1, <1>2, PTL DEF FilesSpec

\* A value that cache.ram returns was computed less than time_expire before the call, for any
\* number of threads, of calls and of clears (CacheInRam.__call__).
THEOREM RamIsFresh == FilesSpec => []RamExpires
<1>1. FilesInit => RamKept
  BY DEF FilesInit, FreshNote, RamKept, RamInv, NoItem
<1>2. Alone /\ RamKept /\ [FilesNext]_fileVars => RamKept'
  BY RamStays
<1>3. Alone /\ RamKept => RamExpires
  BY DEF Alone, RamKept, RamInv, RamExpires, Is, Idle
<1> QED  BY <1>1, <1>2, <1>3, AlwaysAlone, PTL DEF FilesSpec

-----------------------------------------------------------------------------
(* That cron's token keeps regular masters further apart than locktime, for any number of *)
(* processes, calls and jobs, whoever is killed.                                           *)

Tokens == [start : 0..MaxClock, id : 0..MaxOps, stop : BOOLEAN]

Token == Holds(Master)

CronTypes ==
    /\ note.clock \in 0..MaxClock
    /\ ops \in 0..MaxOps
    /\ disk \in Seq(Tokens \cup {Empty})
    /\ DOMAIN dir = Name
    /\ dir[Master] \in 0..Len(disk)
    /\ note.masters \in Seq(Int)
    /\ note.disturbed \in BOOLEAN

\* A call has an id and, once it has seen or made the file, a time.
Asked(p) ==
    proc[p] # Idle =>
        /\ proc[p].id \in 0..(ops - 1)
        /\ proc[p].now \in 0..note.clock
        /\ proc[p].pc \in {"acquire", "jobs", "close"} => Exists(Master)

\* A token with the id of a call is that call's own, with its time.
Owns(p) ==
    proc[p] # Idle /\ Token # Empty /\ Token.id = proc[p].id =>
        proc[p].pc \in {"jobs", "close"} /\ Token.start = proc[p].now

IdsDiffer ==
    \A p, q \in Proc : p # q /\ proc[p] # Idle /\ proc[q] # Idle => proc[p].id # proc[q].id

\* The token is as late as the last regular master.
Latest ==
    ~note.disturbed /\ note.masters # <<>> =>
        Token # Empty /\ Token.start >= note.masters[Len(note.masters)]

CronInv ==
    /\ CronTypes
    /\ \A p \in Proc : Asked(p) /\ Owns(p)
    /\ IdsDiffer
    /\ Token # Empty => Token.id < ops
    /\ Latest
    /\ OneMaster

LEMMA Further ==
    ASSUME NEW now \in Int, NEW last \in Int, NEW first \in Int, NEW time \in Nat,
           now - last > time, first = last \/ last - first > time
    PROVE  now - first > time
  OBVIOUS

-----------------------------------------------------------------------------
(* The file of the token. *)

LEMMA TokenType ==
    ASSUME CronTypes, Token # Empty
    PROVE  Token \in Tokens
  BY DEF CronTypes, Token, Holds, Exists

LEMMA Emptied ==
    ASSUME CronTypes, OpenForWriting(Master)
    PROVE  /\ disk' \in Seq(Tokens \cup {Empty}) /\ DOMAIN dir' = Name /\ dir'[Master] \in 0..Len(disk')
           /\ Token' = Empty /\ Exists(Master)'
<1>1. CASE Exists(Master)
  <2>1. dir' = dir /\ disk' = [disk EXCEPT ![dir[Master]] = Empty] /\ dir[Master] \in 1..Len(disk)
    BY <1>1 DEF OpenForWriting, CronTypes, Exists
  <2> QED  BY <2>1 DEF CronTypes, Token, Holds, Exists
<1>2. CASE ~Exists(Master)
  <2>1. disk' = Append(disk, Empty) /\ dir' = [dir EXCEPT ![Master] = Len(disk) + 1]
    BY <1>2 DEF OpenForWriting
  <2>2. dir'[Master] = Len(disk) + 1 /\ DOMAIN dir' = Name
    BY <2>1, CronAssumption DEF CronTypes
  <2> QED  BY <2>1, <2>2 DEF CronTypes, Token, Holds, Exists
<1> QED  BY <1>1, <1>2

LEMMA Written ==
    ASSUME CronTypes, Exists(Master), NEW p \in Proc, NEW stop \in BOOLEAN, Write(p, stop), dir' = dir,
           proc[p].now \in 0..MaxClock, proc[p].id \in 0..MaxOps
    PROVE  /\ disk' \in Seq(Tokens \cup {Empty}) /\ Len(disk') = Len(disk)
           /\ Token' # Empty /\ Token'.start = proc[p].now /\ Token'.id = proc[p].id
<1> DEFINE token == [start |-> proc[p].now, id |-> proc[p].id, stop |-> stop]
<1>1. token \in Tokens /\ token # Empty
  BY TokenAssumption DEF Tokens
<1>2. dir[Master] \in 1..Len(disk) /\ disk' = [disk EXCEPT ![dir[Master]] = token]
  BY DEF Write, CronTypes, Exists
<1> HIDE DEF token
<1>3. disk' \in Seq(Tokens \cup {Empty}) /\ Len(disk') = Len(disk) /\ disk'[dir[Master]] = token
  BY <1>1, <1>2 DEF CronTypes
<1>4. Token' = token
  BY <1>2, <1>3 DEF Token, Holds, Exists
<1> QED  BY <1>1, <1>3, <1>4 DEF token

-----------------------------------------------------------------------------
(* The steps. *)

\* A step of p that leaves the token and the masters alone, and the id of p if it goes on.
LEMMA CronQuiet ==
    ASSUME Alone, CronInv, NEW p \in Proc, Moved(p), UNCHANGED <<diskVars, note>>,
           ops' \in {ops, ops + 1}, ops' <= MaxOps,
           Asked(p)', Owns(p)',
           proc'[p] # Idle => (proc[p] # Idle /\ proc'[p].id = proc[p].id) \/ proc'[p].id = ops
    PROVE  CronInv'
<1>1. Token' = Token /\ dir' = dir
  BY DEF diskVars, Token, Holds, Exists
<1>2. CronTypes' /\ (Token' # Empty => Token'.id < ops') /\ Latest' /\ OneMaster'
  <2>1. Token # Empty => Token.id \in Int
    BY TokenType DEF Tokens, CronInv
  <2> QED  BY <1>1, <2>1 DEF CronInv, CronTypes, Latest, OneMaster, diskVars
<1>3. ASSUME NEW q \in Proc, q # p
      PROVE  Asked(q)' /\ Owns(q)'
  BY <1>1, <1>3 DEF CronInv, CronTypes, Moved, Asked, Owns, Exists
<1>4. IdsDiffer'
  <2>1. ASSUME NEW q \in Proc, q # p, proc[q] # Idle, proc'[p] # Idle
        PROVE  proc[q].id # proc'[p].id
    <3>1. proc[q].id < ops /\ (proc[p] # Idle => proc[q].id # proc[p].id)
      BY <2>1 DEF CronInv, CronTypes, IdsDiffer, Asked
    <3> QED  BY <2>1, <3>1 DEF CronInv, CronTypes
  <2> QED  BY <2>1 DEF CronInv, IdsDiffer, Moved
<1> QED  BY <1>2, <1>3, <1>4 DEF CronInv

LEMMA CronTick ==
    ASSUME Alone, note.users = "cron", CronInv, Tick
    PROVE  CronInv'
<1>1. /\ UNCHANGED <<dir, disk, proc, ops>> /\ note'.clock = note.clock + 1 /\ note.clock < MaxClock
      /\ note'.masters = note.masters /\ note'.disturbed = note.disturbed
  BY DEF Tick, Alone, NoteFields, diskVars
<1>2. Token' = Token /\ CronTypes'
  BY <1>1, BoundAssumption DEF CronInv, CronTypes, Token, Holds, Exists
<1>3. ASSUME NEW q \in Proc
      PROVE  Asked(q)' /\ Owns(q)'
  BY <1>1, <1>2 DEF CronInv, CronTypes, Asked, Owns, Exists
<1> QED  BY <1>1, <1>2, <1>3 DEF CronInv, IdsDiffer, Latest, OneMaster

LEMMA CronSteps ==
    ASSUME Alone, note.users = "cron", CronInv, NEW p \in Proc,
           AskToken(p) \/ CronStep(p) \/ MasterKilled(p)
    PROVE  CronInv'
<1>1. /\ DOMAIN note = NoteFields /\ DOMAIN proc = Proc /\ InCall(p)
      /\ Moved(p)
  BY CronMoves DEF Alone
<1>2. proc[p].pc # "idle" => DOMAIN proc[p] = CallFields("cron") /\ proc[p] # Idle
  BY <1>1 DEF InCall, Idle
<1>3. CronTypes /\ Asked(p) /\ Owns(p) /\ Latest /\ OneMaster /\ MaxOps \in Nat /\ MaxClock \in Nat
  BY BoundAssumption DEF CronInv
<1>4. ASSUME Return(p), UNCHANGED <<diskVars, ops, note>>
      PROVE  CronInv'
  <2>1. proc'[p] = Idle
    BY <1>1, <1>4, ReturnMoves
  <2>2. Asked(p)' /\ Owns(p)' /\ ops' \in {ops, ops + 1} /\ ops' <= MaxOps
    BY <1>3, <1>4, <2>1 DEF Asked, Owns, CronTypes
  <2> QED  BY <1>1, <1>4, <2>1, <2>2, CronQuiet
<1>5. CASE AskToken(p)
  <2>1. PICK startup \in BOOLEAN : Call(p, Asking(startup))
    BY <1>5 DEF AskToken
  <2>2. proc'[p] = Asking(startup) /\ ops' = ops + 1 /\ ops' <= MaxOps /\ UNCHANGED <<diskVars, note>>
    BY <1>1, <1>3, <1>5, <2>1, CallMoves DEF AskToken, Call, CronTypes
  <2>3. proc'[p].id = ops /\ proc'[p].now = 0 /\ proc'[p].pc = "token"
    BY <2>2 DEF Asking
  <2>4. Asked(p)'
    BY <1>3, <2>2, <2>3 DEF Asked, CronTypes
  <2>5. Owns(p)'
    <3>1. Token' = Token
      BY <2>2 DEF diskVars, Token, Holds, Exists
    <3>2. Token # Empty => Token.id # ops
      BY TokenType, <1>3 DEF CronInv, CronTypes, Tokens
    <3> QED  BY <2>3, <3>1, <3>2 DEF Owns
  <2> QED  BY <1>1, <2>2, <2>3, <2>4, <2>5, CronQuiet
<1>6. CASE TestToken(p)
  <2>1. proc[p].pc = "token" /\ UNCHANGED <<diskVars, ops, note>>
    BY <1>6 DEF TestToken, Is
  <2>2. /\ proc'[p].id = proc[p].id /\ proc'[p].pc \in {"acquire", "create"}
        /\ proc'[p].now \in {proc[p].now, note.clock}
        /\ proc'[p].pc = "acquire" => Exists(Master)
    <3>1. CASE Exists(Master)
      <4>1. Step(p, [pc |-> "acquire", now |-> note.clock])
        BY <1>6, <3>1 DEF TestToken
      <4> QED  BY <1>1, <1>2, <2>1, <3>1, <4>1, StepMoves DEF CallFields
    <3>2. CASE ~Exists(Master)
      <4>1. Step(p, [pc |-> "create"])
        BY <1>6, <3>2 DEF TestToken
      <4> QED  BY <1>1, <1>2, <2>1, <3>2, <4>1, StepMoves DEF CallFields
    <3> QED  BY <3>1, <3>2
  <2>3. Token' = Token /\ dir' = dir
    BY <2>1 DEF diskVars, Token, Holds, Exists
  <2>4. Asked(p)' /\ Owns(p)' /\ proc[p] # Idle
    BY <1>2, <1>3, <2>1, <2>2, <2>3 DEF Asked, Owns, CronTypes, Exists
  <2>5. ops' \in {ops, ops + 1} /\ ops' <= MaxOps
    BY <1>3, <2>1 DEF CronTypes
  <2> QED  BY <1>1, <2>1, <2>2, <2>4, <2>5, CronQuiet
<1>7. CASE CreateToken(p)
  <2>1. proc[p].pc = "create" /\ OpenForWriting(Master) /\ UNCHANGED ops
    BY <1>7 DEF CreateToken, Is
  <2>2. /\ proc'[p].id = proc[p].id /\ proc'[p].pc = "acquire" /\ proc'[p].now = note.clock
    <3>1. Step(p, [pc |-> "acquire", now |-> note.clock])
      BY <1>7 DEF CreateToken
    <3> QED  BY <1>1, <1>2, <2>1, <3>1, StepMoves DEF CallFields
  <2>3. /\ note'.clock = note.clock /\ note'.masters = note.masters
        /\ note'.disturbed = (note.disturbed \/ Token # Empty)
    BY <1>1, <1>7 DEF CreateToken, NoteFields, Token
  <2>4. CronTypes' /\ Token' = Empty /\ Exists(Master)'
    BY <1>3, <2>1, <2>3, Emptied DEF CronTypes
  <2>5. ASSUME NEW q \in Proc
        PROVE  Asked(q)' /\ Owns(q)'
    <3>1. proc'[p] # Idle /\ proc[p] # Idle
      BY <1>2, <2>1, <2>2 DEF Idle
    <3>2. CASE q = p
      BY <1>3, <2>1, <2>2, <2>3, <2>4, <3>1, <3>2 DEF Asked, Owns, CronTypes
    <3>3. CASE q # p
      BY <1>1, <2>1, <2>3, <2>4, <3>3 DEF CronInv, Asked, Owns, Moved
    <3> QED  BY <3>2, <3>3
  <2>6. IdsDiffer'
    BY <1>1, <1>2, <2>1, <2>2 DEF CronInv, IdsDiffer, Moved
  <2>7. Latest' /\ OneMaster'
    BY <1>3, <2>3, <2>4 DEF Latest, OneMaster, CronTypes
  <2> QED  BY <2>4, <2>5, <2>6, <2>7 DEF CronInv
<1>8. ASSUME NEW stop \in BOOLEAN, Write(p, stop), dir' = dir, ops' = ops, proc[p].pc \in {"acquire", "close"},
             proc'[p] = Idle \/ (proc'[p].id = proc[p].id /\ proc'[p].now = proc[p].now /\ proc'[p].pc = "jobs"),
             note'.clock = note.clock, note'.masters \in Seq(Int), note'.disturbed \in BOOLEAN,
             ~note'.disturbed /\ note'.masters # <<>> => proc[p].now >= note'.masters[Len(note'.masters)],
             OneMaster'
      PROVE  CronInv'
  <2>1. proc[p] # Idle /\ proc[p].now \in 0..MaxClock /\ proc[p].id \in 0..MaxOps /\ Exists(Master)
        /\ proc[p].id < ops
    BY <1>2, <1>3, <1>8 DEF Asked, CronTypes
  <2>2. /\ CronTypes' /\ Exists(Master)'
        /\ Token' # Empty /\ Token'.start = proc[p].now /\ Token'.id = proc[p].id
    BY <1>3, <1>8, <2>1, Written DEF CronTypes, Exists
  <2>3. ASSUME NEW q \in Proc
        PROVE  Asked(q)' /\ Owns(q)'
    <3>1. CASE q = p
      BY <1>3, <1>8, <2>1, <2>2, <3>1 DEF Asked, Owns
    <3>2. CASE q # p
      <4>1. proc'[q] = proc[q] /\ (proc[q] # Idle => proc[q].id # proc[p].id)
        BY <1>1, <2>1, <3>2 DEF CronInv, IdsDiffer, Moved
      <4> QED  BY <1>8, <2>2, <4>1 DEF CronInv, Asked, Owns
    <3> QED  BY <3>1, <3>2
  <2>4. IdsDiffer'
    BY <1>1, <1>8, <2>1 DEF CronInv, IdsDiffer, Moved
  <2>5. Latest' /\ Token'.id < ops'
    BY <1>8, <2>1, <2>2 DEF Latest
  <2> QED  BY <1>8, <2>2, <2>3, <2>4, <2>5 DEF CronInv
<1>9. CASE Acquire(p) /\ (proc[p].startup \/ IsFree(proc[p].now))
  <2>1. proc[p].pc = "acquire" /\ Write(p, FALSE) /\ dir' = dir /\ ops' = ops /\ Step(p, [pc |-> "jobs"])
    BY <1>9 DEF Acquire, Is
  <2>2. proc'[p].id = proc[p].id /\ proc'[p].now = proc[p].now /\ proc'[p].pc = "jobs"
    BY <1>1, <1>2, <2>1, StepMoves DEF CallFields
  <2>3. proc[p].now \in Nat /\ LockTime \in Nat
    BY <1>2, <1>3, <2>1, CronAssumption DEF Asked, CronTypes
  <2>4. ~note.disturbed /\ note.masters # <<>> /\ IsFree(proc[p].now)
           => proc[p].now - note.masters[Len(note.masters)] > LockTime
    <3>1. Token # Empty => Token.start \in Nat
      BY <1>3, TokenType DEF Tokens
    <3>2. note.masters # <<>> => note.masters[Len(note.masters)] \in Int
      BY <1>3 DEF CronTypes
    <3> QED  BY <1>3, <2>3, <3>1, <3>2 DEF Latest, IsFree, Token
  <2>5. CASE proc[p].startup
    <3>1. /\ note'.clock = note.clock /\ note'.masters = note.masters
          /\ note'.disturbed = (note.disturbed \/ ~IsFree(proc[p].now))
      BY <1>1, <1>9, <2>5 DEF Acquire, NoteFields
    <3>2. OneMaster'
      BY <1>3, <3>1 DEF OneMaster
    <3>3. ~note'.disturbed /\ note'.masters # <<>> => proc[p].now >= note'.masters[Len(note'.masters)]
      <4>1. ~note'.disturbed => ~note.disturbed /\ IsFree(proc[p].now)
        BY <3>1
      <4>2. note.masters # <<>> => note.masters[Len(note.masters)] \in Int
        BY <1>3 DEF CronTypes
      <4> QED  BY <2>3, <2>4, <3>1, <4>1, <4>2
    <3> QED  BY <1>3, <1>8, <2>1, <2>2, <3>1, <3>2, <3>3 DEF CronTypes
  <2>6. CASE ~proc[p].startup
    <3>1. /\ note'.clock = note.clock /\ note'.masters = Append(note.masters, proc[p].now)
          /\ note'.disturbed = note.disturbed
      BY <1>1, <1>9, <2>6 DEF Acquire, NoteFields
    <3>2. /\ note'.masters \in Seq(Int) /\ Len(note'.masters) = Len(note.masters) + 1
          /\ note'.masters[Len(note.masters) + 1] = proc[p].now
          /\ \A i \in 1..Len(note.masters) : note'.masters[i] = note.masters[i]
          /\ DOMAIN note'.masters = 1..(Len(note.masters) + 1)
      BY <1>3, <2>3, <3>1 DEF CronTypes
    <3>3. OneMaster'
      <4>1. SUFFICES ASSUME ~note'.disturbed,
                            NEW i \in 1..(Len(note.masters) + 1), NEW j \in 1..(Len(note.masters) + 1), i < j
                     PROVE  note'.masters[j] - note'.masters[i] > LockTime
        BY <3>2 DEF OneMaster
      <4>2. /\ Len(note.masters) \in Nat
            /\ \A k \in 1..Len(note.masters) : note.masters[k] \in Int
            /\ DOMAIN note.masters = 1..Len(note.masters)
            /\ i \in 1..Len(note.masters) /\ note.masters # <<>>
        <5>1. note.masters \in Seq(Int)
          BY <1>3 DEF CronTypes
        <5>2. /\ Len(note.masters) \in Nat /\ DOMAIN note.masters = 1..Len(note.masters)
              /\ \A k \in 1..Len(note.masters) : note.masters[k] \in Int
          BY <5>1
        <5>3. i \in 1..Len(note.masters)
          BY <4>1, <5>2
        <5> QED  BY <5>2, <5>3
      <4>3. \A k, l \in 1..Len(note.masters) : k < l => note.masters[l] - note.masters[k] > LockTime
        BY <1>3, <3>1, <4>1, <4>2 DEF OneMaster
      <4>4. CASE j = Len(note.masters) + 1
        <5>1. proc[p].now - note.masters[Len(note.masters)] > LockTime
          BY <1>9, <2>4, <2>6, <3>1, <4>1, <4>2
        <5>2. i = Len(note.masters) \/ note.masters[Len(note.masters)] - note.masters[i] > LockTime
          <6>1. Len(note.masters) \in 1..Len(note.masters) /\ (i = Len(note.masters) \/ i < Len(note.masters))
            BY <4>2
          <6> QED  BY <4>2, <4>3, <6>1
        <5>3. note.masters[Len(note.masters)] \in Int /\ note.masters[i] \in Int
          BY <4>2
        <5>4. proc[p].now - note.masters[i] > LockTime
          BY <2>3, <5>1, <5>2, <5>3, Further, CronAssumption
        <5> QED  BY <3>2, <4>2, <4>4, <5>4
      <4>5. CASE j # Len(note.masters) + 1
        <5>1. j \in 1..Len(note.masters)
          BY <4>1, <4>2, <4>5
        <5> QED  BY <3>2, <4>1, <4>2, <4>3, <5>1
      <4> QED  BY <4>4, <4>5
    <3>4. proc[p].now >= note'.masters[Len(note'.masters)]
      BY <2>3, <3>2
    <3> QED  BY <1>3, <1>8, <2>1, <2>2, <3>1, <3>2, <3>3, <3>4 DEF CronTypes
  <2> QED  BY <2>5, <2>6
<1>10. CASE Acquire(p) /\ ~(proc[p].startup \/ IsFree(proc[p].now))
  BY <1>4, <1>10 DEF Acquire, diskVars
<1>11. CASE ReleaseToken(p)
  <2>1. proc[p].pc = "jobs" /\ UNCHANGED <<diskVars, ops, note>>
    BY <1>11 DEF ReleaseToken, Is
  <2>2. CASE Token = Empty
    BY <1>4, <1>11, <2>1, <2>2 DEF ReleaseToken, Token
  <2>3. CASE Token # Empty
    <3>1. PICK mine : Step(p, [pc |-> "close", mine |-> mine])
      BY <1>11, <2>3 DEF ReleaseToken, Token
    <3>2. proc'[p].id = proc[p].id /\ proc'[p].now = proc[p].now /\ proc'[p].pc = "close"
      BY <1>1, <1>2, <2>1, <3>1, StepMoves DEF CallFields
    <3>3. Token' = Token /\ dir' = dir
      BY <2>1 DEF diskVars, Token, Holds, Exists
    <3>4. Asked(p)' /\ Owns(p)' /\ proc[p] # Idle
      BY <1>2, <1>3, <2>1, <3>2, <3>3 DEF Asked, Owns, Exists
    <3>5. ops' \in {ops, ops + 1} /\ ops' <= MaxOps
      BY <1>3, <2>1 DEF CronTypes
    <3> QED  BY <1>1, <2>1, <3>2, <3>4, <3>5, CronQuiet
  <2> QED  BY <2>2, <2>3
<1>12. CASE CloseToken(p) /\ ~proc[p].mine
  BY <1>4, <1>12 DEF CloseToken, diskVars
<1>13. CASE CloseToken(p) /\ proc[p].mine
  <2>1. proc[p].pc = "close" /\ Write(p, TRUE) /\ dir' = dir /\ ops' = ops /\ Return(p)
    BY <1>13 DEF CloseToken, Is
  <2>2. proc'[p] = Idle
    BY <1>1, <2>1, ReturnMoves
  <2>3. /\ note'.clock = note.clock /\ note'.masters = note.masters
        /\ note'.disturbed = (note.disturbed \/ (Token # Empty /\ Token.id # proc[p].id))
    BY <1>1, <1>13 DEF CloseToken, NoteFields, Token
  <2>4. OneMaster'
    BY <1>3, <2>3 DEF OneMaster
  <2>5. ~note'.disturbed /\ note'.masters # <<>> => proc[p].now >= note'.masters[Len(note'.masters)]
    BY <1>2, <1>3, <2>1, <2>3 DEF Latest, Owns
  <2> QED  BY <1>3, <1>8, <2>1, <2>2, <2>3, <2>4, <2>5 DEF CronTypes
<1>14. CASE MasterKilled(p)
  BY <1>4, <1>14 DEF MasterKilled
<1> QED  BY <1>5, <1>6, <1>7, <1>9, <1>10, <1>11, <1>12, <1>13, <1>14 DEF CronStep

-----------------------------------------------------------------------------

\* The other users of files have no masters.
CronKept == (note.users = "cron" /\ CronInv) \/ (note.users # "cron" /\ note.masters = <<>>)

LEMMA MastersStay ==
    ASSUME Alone, RequestsNext \/ ThreadsNext \/ BrowserNext
    PROVE  note'.masters = note.masters
<1>1. DOMAIN note = NoteFields
  BY DEF Alone
<1>2. CASE RequestsNext
  <2>1. PICK p \in Proc : Begin(p) \/ CacheStep(p) \/ Killed(p)
    BY <1>2 DEF RequestsNext
  <2>2. CASE ApplyOpen(p) \/ ApplyFirst(p) \/ ApplyLoad(p) \/ ApplyStore(p)
    BY <1>1, <2>2 DEF NoteFields, ApplyOpen, ApplyFirst, ApplyLoad, ApplyStore
  <2>3. CASE StoreOpen(p) \/ StorePut(p) \/ ClearNext(p) \/ Killed(p)
    BY <1>1, <2>3 DEF NoteFields, StoreOpen, StorePut, ClearNext, Killed
  <2>4. CASE Begin(p) \/ OpenItem(p) \/ LoadItem(p) \/ Decide(p) \/ Compute(p) \/ ReturnValue(p)
    BY <1>1, <2>4 DEF NoteFields, Begin, OpenItem, LoadItem, Decide, Compute, ReturnValue
  <2> QED  BY <2>1, <2>2, <2>3, <2>4 DEF CacheStep
<1>3. CASE ThreadsNext
  BY <1>1, <1>3 DEF NoteFields, ThreadsNext, BeginRam, RamStep, RamLookup, RamClear, RamCompute, RamStore,
                    ReturnValue, Tick
<1>4. CASE BrowserNext
  <2>1. PICK p \in Proc : Send(p) \/ SessionStep(p) \/ RaiseInRequest(p) \/ LoseAnswer(p)
    BY <1>4 DEF BrowserNext
  <2>2. CASE Send(p) \/ Answer(p) \/ RaiseInRequest(p) \/ LoseAnswer(p) \/ StoreSession(p) \/ UnlinkSession(p)
    BY <1>1, <2>2 DEF NoteFields, Send, Answer, RaiseInRequest, LoseAnswer, StoreSession, UnlinkSession
  <2>3. CASE OpenSession(p) \/ LoadSession(p) \/ Visit(p) \/ LogIn(p) \/ ClearSession(p)
    BY <1>1, <2>3 DEF NoteFields, OpenSession, LoadSession, Visit, LogIn, ClearSession
  <2> QED  BY <2>1, <2>2, <2>3 DEF SessionStep
<1> QED  BY <1>2, <1>3, <1>4

LEMMA CronStays ==
    ASSUME Alone, CronKept, [FilesNext]_fileVars
    PROVE  CronKept'
<1>1. CASE UNCHANGED fileVars
  BY <1>1 DEF fileVars, diskVars, CronKept, CronInv, CronTypes, Asked, Owns, IdsDiffer, Latest, OneMaster,
              Token, Holds, Exists
<1>2. CASE FilesNext
  <2>1. note'.users = note.users
    BY <1>2, UsersStay
  <2>2. CASE note.users = "cron"
    BY <1>2, <2>1, <2>2, KindsApart, CronTick, CronSteps DEF CronKept, CronNext
  <2>3. CASE note.users # "cron"
    <3>1. note'.masters = note.masters
      BY <1>2, <2>3, KindsApart, MastersStay
    <3> QED  BY <2>1, <2>3, <3>1 DEF CronKept
  <2> QED  BY <2>2, <2>3
<1> QED  BY <1>1, <1>2

\* Two regular masters are further apart than locktime, unless the token was emptied by a second
\* creator, taken at a startup or written back by a late close (Token.acquire and release).
THEOREM MastersApart == FilesSpec => []OneMaster
<1>1. FilesInit => CronKept
  <2> SUFFICES ASSUME FilesInit PROVE CronKept
    OBVIOUS
  <2>1. PICK users \in Kinds : note = FreshNote(users)
    BY DEF FilesInit, Kinds
  <2>2. /\ note.masters = <<>> /\ note.clock = 0 /\ note.disturbed = FALSE
        /\ disk = <<>> /\ dir = [n \in Name |-> 0] /\ ops = 0 /\ proc = [p \in Proc |-> Idle]
    BY <2>1 DEF FilesInit, FreshNote
  <2>3. disk \in Seq(Tokens \cup {Empty}) /\ Len(disk) = 0 /\ note.masters \in Seq(Int)
    BY <2>2
  <2>4. DOMAIN dir = Name /\ dir[Master] = 0
    BY <2>2, CronAssumption
  <2>5. note.clock \in 0..MaxClock /\ ops \in 0..MaxOps
    BY <2>2, BoundAssumption
  <2>6. CronTypes /\ Token = Empty
    <3>1. note.disturbed \in BOOLEAN /\ dir[Master] \in 0..Len(disk)
      <4>1. note.disturbed = FALSE
        BY <2>2
      <4>2. 0 \in 0..Len(disk)
        BY <2>3
      <4> QED  BY <2>4, <4>1, <4>2
    <3>2. Token = Empty
      BY <2>4 DEF Token, Holds, Exists
    <3> QED  BY <2>3, <2>4, <2>5, <3>1, <3>2 DEF CronTypes
  <2> QED  BY <2>2, <2>6 DEF CronKept, CronInv, Asked, Owns, IdsDiffer, Latest, OneMaster
<1>2. Alone /\ CronKept /\ [FilesNext]_fileVars => CronKept'
  BY CronStays
<1>3. CronKept => OneMaster
  BY DEF CronKept, CronInv, OneMaster
<1> QED  BY <1>1, <1>2, <1>3, AlwaysAlone, PTL DEF FilesSpec

-----------------------------------------------------------------------------
(* Sessions. *)

\* The requests that may still make up two ids, or one.
TwoLeft == {p \in Proc : proc[p].pc = "connect"}
OneLeft == {p \in Proc : proc[p].pc \in {"connect", "session", "controller", "unlink"}}

\* Two ids a request: so many names are enough (SidAssumption).
Enough ==
    /\ note.sids \in Nat /\ ops \in 0..MaxOps
    /\ IsFiniteSet(TwoLeft) /\ IsFiniteSet(OneLeft)
    /\ note.sids + Cardinality(TwoLeft) + Cardinality(OneLeft) <= 2 * ops

\* The session of a request is one that was made up before.
Known(p) ==
    proc[p] # Idle =>
        /\ proc[p].sid \in 0..note.sids
        /\ proc[p].pc # "connect" => proc[p].sid # NoSid
        /\ proc[p].pc \in {"connect", "session"} => ~proc[p].new

\* Until its file is made, a new session is its request's own.
Unshared(p) ==
    proc[p].pc \in {"controller", "unlink", "save"} /\ proc[p].new =>
        /\ proc[p].sid \notin note.cleared
        /\ proc[p].sid # note.cookie
        /\ \A q \in Proc : q # p /\ proc[q] # Idle => proc[q].sid # proc[p].sid

SessionInv ==
    /\ Enough
    /\ DOMAIN dir = Name
    /\ note.cookie \in 0..note.sids
    /\ note.cleared \subseteq 1..note.sids
    /\ \A p \in Proc : Known(p) /\ Unshared(p)
    /\ ClearedForGood

-----------------------------------------------------------------------------

LEMMA SidsNamed ==
    ASSUME Enough
    PROVE  1..note.sids \subseteq Name /\ note.sids <= Sids
<1>1. Cardinality(TwoLeft) \in Nat /\ Cardinality(OneLeft) \in Nat
  BY FS_CardinalityType DEF Enough
<1>2. note.sids <= Sids
  BY <1>1, SidAssumption, BoundAssumption DEF Enough
<1> QED  BY <1>2, SidAssumption DEF Enough

\* A call moves and makes up ids, no more than it may.
LEMMA StillEnough ==
    ASSUME Enough, NEW p \in Proc, \A q \in Proc : q # p => proc'[q] = proc[q],
           note'.sids \in Nat, ops' \in 0..MaxOps, proc'[p].pc # "connect" \/ ops' = ops + 1,
           \/ /\ note'.sids = note.sids /\ ops' = ops
              /\ p \in OneLeft' => p \in OneLeft
           \/ note'.sids = note.sids + 1 /\ ops' = ops /\ p \in TwoLeft /\ p \in OneLeft
           \/ note'.sids = note.sids + 1 /\ ops' = ops /\ p \in OneLeft /\ p \notin OneLeft'
           \/ note'.sids = note.sids /\ ops' = ops + 1
    PROVE  Enough'
<1>1. TwoLeft' \in {TwoLeft \cup {p}, TwoLeft \ {p}} /\ OneLeft' \in {OneLeft \cup {p}, OneLeft \ {p}}
  BY DEF TwoLeft, OneLeft
<1>2. /\ IsFiniteSet(TwoLeft) /\ IsFiniteSet(OneLeft)
      /\ Cardinality(TwoLeft) \in Nat /\ Cardinality(OneLeft) \in Nat
  BY FS_CardinalityType DEF Enough
<1>3. /\ IsFiniteSet(TwoLeft') /\ IsFiniteSet(OneLeft')
      /\ Cardinality(TwoLeft') = Cardinality(TwoLeft)
            + (IF p \in TwoLeft' /\ p \notin TwoLeft THEN 1 ELSE 0)
            - (IF p \in TwoLeft /\ p \notin TwoLeft' THEN 1 ELSE 0)
      /\ Cardinality(OneLeft') = Cardinality(OneLeft)
            + (IF p \in OneLeft' /\ p \notin OneLeft THEN 1 ELSE 0)
            - (IF p \in OneLeft /\ p \notin OneLeft' THEN 1 ELSE 0)
  <2>1. ASSUME NEW S, NEW T, IsFiniteSet(S), T \in {S \cup {p}, S \ {p}}
        PROVE  /\ IsFiniteSet(T)
               /\ Cardinality(T) = Cardinality(S)
                     + (IF p \in T /\ p \notin S THEN 1 ELSE 0) - (IF p \in S /\ p \notin T THEN 1 ELSE 0)
    <3>1. CASE T = S \cup {p}
      <4>1. p \in T /\ IsFiniteSet(T) /\ Cardinality(S) \in Nat
            /\ Cardinality(T) = IF p \in S THEN Cardinality(S) ELSE Cardinality(S) + 1
        BY <2>1, <3>1, FS_AddElement, FS_CardinalityType
      <4> QED  BY <4>1
    <3>2. CASE T = S \ {p}
      <4>1. p \notin T /\ IsFiniteSet(T) /\ Cardinality(S) \in Nat
            /\ Cardinality(T) = IF p \in S THEN Cardinality(S) - 1 ELSE Cardinality(S)
        BY <2>1, <3>2, FS_RemoveElement, FS_CardinalityType
      <4> QED  BY <4>1
    <3> QED  BY <2>1, <3>1, <3>2
  <2> QED  BY <1>1, <1>2, <2>1
<1>4. p \in TwoLeft' => ops' = ops + 1
  BY DEF TwoLeft
<1>5. ops \in Nat /\ note.sids \in Nat /\ ops' \in 0..MaxOps
  BY BoundAssumption DEF Enough
<1> QED  BY <1>2, <1>3, <1>4, <1>5 DEF Enough

-----------------------------------------------------------------------------
(* The steps. *)

\* What the others have is left to them: p's session is its own still, an old one that p
\* shared with them already, or new to all.
LEMMA OthersKeep ==
    ASSUME Alone, SessionInv, NEW p \in Proc, Moved(p), Enough', DOMAIN dir' = Name, ClearedForGood',
           note'.sids \in {note.sids, note.sids + 1},
           note'.cookie = note.cookie \/ (proc[p] # Idle /\ note'.cookie = proc[p].sid),
           \/ note'.cleared = note.cleared
           \/ proc[p] # Idle /\ note'.cleared = note.cleared \cup {proc[p].sid} /\ proc[p].sid # NoSid,
           \/ proc'[p] = Idle
           \/ proc[p] # Idle /\ proc'[p].sid = proc[p].sid
           \/ proc[p] = Idle /\ proc'[p].sid = note.cookie
           \/ note'.sids = note.sids + 1 /\ proc'[p].sid = note.sids + 1,
           Known(p)', Unshared(p)'
    PROVE  SessionInv'
<1>1. note.sids \in Nat
  BY DEF SessionInv, Enough
<1>2. proc[p] # Idle => proc[p].sid \in 0..note.sids
  BY DEF SessionInv, Known
<1>3. note'.cookie \in 0..note'.sids /\ note'.cleared \subseteq 1..note'.sids
  BY <1>1, <1>2 DEF SessionInv, NoSid
<1>4. ASSUME NEW q \in Proc, q # p
      PROVE  Known(q)' /\ Unshared(q)'
  <2>1. proc'[q] = proc[q]
    BY <1>4 DEF Moved
  <2>2. Known(q)'
    BY <1>1, <2>1 DEF SessionInv, Known
  <2>3. ASSUME proc[q].pc \in {"controller", "unlink", "save"}, proc[q].new
        PROVE  /\ proc[q].sid \notin note'.cleared
               /\ proc[q].sid # note'.cookie
               /\ \A r \in Proc : r # q /\ proc'[r] # Idle => proc'[r].sid # proc[q].sid
    <3>1. proc[q] # Idle /\ proc[q].sid \in 0..note.sids /\ Unshared(q)
      BY <2>3 DEF Idle, SessionInv, Known
    <3>2. proc[q].sid # note.cookie /\ proc[q].sid \notin note.cleared
          /\ (proc[p] # Idle => proc[p].sid # proc[q].sid)
      BY <1>4, <2>3, <3>1 DEF Unshared
    <3>3. proc'[p] # Idle => proc'[p].sid # proc[q].sid
      BY <1>1, <3>1, <3>2
    <3>4. ASSUME NEW r \in Proc, r # q, r # p, proc'[r] # Idle
          PROVE  proc'[r].sid # proc[q].sid
      BY <2>3, <3>1, <3>4 DEF Moved, Unshared
    <3> QED  BY <3>2, <3>3, <3>4
  <2> QED  BY <2>1, <2>2, <2>3 DEF Unshared
<1> QED  BY <1>3, <1>4 DEF SessionInv

\* What a new id is to the request that made it up.
LEMMA FreshSid ==
    ASSUME Alone, SessionInv, NEW p \in Proc, Moved(p), note'.sids = note.sids + 1,
           note'.cookie = note.cookie,
           note'.cleared \subseteq note.cleared \cup (1..note.sids),
           proc'[p].sid = note.sids + 1, proc'[p].pc \in {"controller", "save"}
    PROVE  Known(p)' /\ Unshared(p)'
<1>1. note.sids \in Nat
  BY DEF SessionInv, Enough
<1>2. note.sids + 1 # note'.cookie /\ note.sids + 1 \notin note'.cleared
  BY <1>1 DEF SessionInv
<1>3. ASSUME NEW q \in Proc, q # p, proc'[q] # Idle
      PROVE  proc'[q].sid # note.sids + 1
  BY <1>1, <1>3 DEF SessionInv, Known, Moved
<1> QED  BY <1>1, <1>2, <1>3 DEF Known, Unshared, NoSid

LEMMA SessionSteps ==
    ASSUME Alone, note.users = "browser", SessionInv, NEW p \in Proc,
           Send(p) \/ SessionStep(p) \/ RaiseInRequest(p) \/ LoseAnswer(p)
    PROVE  SessionInv'
<1>1. DOMAIN note = NoteFields /\ DOMAIN proc = Proc /\ InCall(p) /\ Moved(p)
      /\ \A q \in Proc : q # p => proc'[q] = proc[q]
  BY BrowserMoves DEF Alone, Moved
<1>2. proc[p].pc # "idle" => DOMAIN proc[p] = CallFields("browser") /\ proc[p] # Idle
  BY <1>1 DEF InCall, Idle
<1>3. Enough /\ note.sids \in Nat /\ ops \in 0..MaxOps /\ Known(p) /\ Unshared(p) /\ ClearedForGood /\ MaxOps \in Nat
      /\ note.cookie \in 0..note.sids /\ note.cleared \subseteq 1..note.sids /\ DOMAIN dir = Name
  BY BoundAssumption DEF SessionInv, Enough
<1>4. ASSUME ops' = ops, note'.sids = note.sids, p \in OneLeft' => p \in OneLeft, proc'[p].pc # "connect"
      PROVE  Enough'
  BY <1>1, <1>3, <1>4, StillEnough
\* A request ends.
<1>5. ASSUME Return(p), UNCHANGED <<dir, ops>>, note'.sids = note.sids, note'.cleared = note.cleared,
             proc[p].pc # "idle", note'.cookie \in {note.cookie, proc[p].sid}
      PROVE  SessionInv'
  <2>1. proc'[p] = Idle /\ proc'[p].pc = "idle"
    BY <1>1, <1>5, ReturnMoves DEF Idle
  <2>2. Enough'
    BY <1>4, <1>5, <2>1 DEF OneLeft
  <2>3. Known(p)' /\ Unshared(p)' /\ ClearedForGood'
    BY <1>3, <1>5, <2>1 DEF Known, Unshared, ClearedForGood, Exists
  <2> QED  BY <1>1, <1>2, <1>3, <1>5, <2>1, <2>2, <2>3, OthersKeep
\* A request goes on with its session.
<1>6. ASSUME UNCHANGED <<dir, ops>>, note'.sids = note.sids, note'.cleared = note.cleared,
             note'.cookie = note.cookie, proc[p].pc # "idle",
             proc'[p].sid = proc[p].sid, proc'[p].pc # "connect",
             proc[p].pc = "connect" => Found(proc[p].sid),
             p \in OneLeft' => p \in OneLeft,
             proc'[p].pc = "session" => ~proc'[p].new,
             proc'[p].pc \in {"controller", "unlink", "save"} /\ proc'[p].new
                => proc[p].pc \in {"controller", "unlink", "save"} /\ proc[p].new
      PROVE  SessionInv'
  <2>1. Enough'
    BY <1>4, <1>6
  <2>2. ClearedForGood'
    BY <1>3, <1>6 DEF ClearedForGood, Exists
  <2>3. Known(p)'
    BY <1>2, <1>3, <1>6 DEF Known, Found
  <2>4. Unshared(p)'
    BY <1>1, <1>3, <1>6 DEF Unshared
  <2> QED  BY <1>1, <1>2, <1>3, <1>6, <2>1, <2>2, <2>3, <2>4, OthersKeep
\* A request makes up an id.
<1>7. ASSUME UNCHANGED ops, DOMAIN dir' = Name, note'.sids = note.sids + 1, note'.cookie = note.cookie,
             proc[p].pc # "idle", proc'[p].sid = note.sids + 1, proc'[p].pc \in {"controller", "save"},
             \/ proc[p].pc = "connect"
             \/ proc[p].pc \in {"controller", "unlink"} /\ proc'[p].pc = "save",
             \/ note'.cleared = note.cleared
             \/ note'.cleared = note.cleared \cup {proc[p].sid} /\ proc[p].pc = "unlink",
             ClearedForGood'
      PROVE  SessionInv'
  <2>1. Enough'
    <3>1. proc[p].pc = "connect" => p \in TwoLeft /\ p \in OneLeft
      BY DEF TwoLeft, OneLeft
    <3>2. proc[p].pc \in {"controller", "unlink"} /\ proc'[p].pc = "save" => p \in OneLeft /\ p \notin OneLeft'
      BY DEF OneLeft
    <3>3. note'.sids \in Nat
      BY <1>3, <1>7
    <3> QED  BY <1>1, <1>3, <1>7, <3>1, <3>2, <3>3, StillEnough
  <2>2. proc[p] # Idle /\ proc[p].sid \in 0..note.sids /\ (proc[p].pc = "unlink" => proc[p].sid # NoSid)
    BY <1>2, <1>3, <1>7 DEF Known
  <2>3. note'.cleared \subseteq note.cleared \cup (1..note.sids)
    BY <1>3, <1>7, <2>2 DEF NoSid
  <2>4. Known(p)' /\ Unshared(p)'
    BY <1>1, <1>7, <2>3, FreshSid
  <2> QED  BY <1>1, <1>7, <2>1, <2>2, <2>4, OthersKeep
<1>8. CASE Send(p)
  <2>1. PICK op \in {"visit"} \cup Changes : Call(p, Requesting(op))
    BY <1>8 DEF Send
  <2>2. /\ proc[p] = Idle /\ proc'[p] = Requesting(op) /\ dir' = dir /\ ops' = ops + 1 /\ ops' <= MaxOps
        /\ note'.sids = note.sids /\ note'.cleared = note.cleared /\ note'.cookie = note.cookie
    <3>1. proc[p].pc = "idle"
      BY <2>1 DEF Call, Is
    <3>2. proc[p] = Idle
      BY <1>1, <3>1 DEF InCall, Places, Alone
    <3>3. proc'[p] = Requesting(op)
      BY <1>1, <2>1, CallMoves
    <3>4. dir' = dir /\ ops' = ops + 1 /\ ops' <= MaxOps
      BY <1>3, <2>1 DEF Call, diskVars
    <3>5. note'.sids = note.sids /\ note'.cleared = note.cleared /\ note'.cookie = note.cookie
      BY <1>1, <1>8 DEF Send, NoteFields
    <3> QED  BY <3>2, <3>3, <3>4, <3>5
  <2>3. proc'[p].pc = "connect" /\ proc'[p].sid = note.cookie /\ proc'[p].new = FALSE
    BY <2>2 DEF Requesting
  <2>4. Enough'
    BY <1>1, <1>3, <2>2, StillEnough
  <2>5. Known(p)' /\ Unshared(p)' /\ ClearedForGood'
    BY <1>3, <2>2, <2>3 DEF Known, Unshared, ClearedForGood, Exists
  <2> QED  BY <1>1, <1>3, <2>2, <2>3, <2>4, <2>5, OthersKeep
<1>9. CASE OpenSession(p) /\ Found(proc[p].sid)
  <2>1. proc[p].pc = "connect" /\ UNCHANGED <<diskVars, ops, note>> /\ Step(p, [pc |-> "session", inode |-> dir[proc[p].sid]])
    BY <1>9 DEF OpenSession, Is
  <2>2. proc'[p].pc = "session" /\ proc'[p].sid = proc[p].sid /\ proc'[p].new = proc[p].new /\ ~proc[p].new
    BY <1>1, <1>2, <1>3, <2>1, StepMoves DEF CallFields, Known
  <2>3. p \in OneLeft
    BY <2>1 DEF OneLeft
  <2> QED  BY <1>6, <1>9, <2>1, <2>2, <2>3 DEF diskVars
<1>10. CASE OpenSession(p) /\ ~Found(proc[p].sid)
  <2>1. proc[p].pc = "connect" /\ UNCHANGED <<diskVars, ops>>
        /\ Step(p, [pc |-> "controller", sid |-> note.sids + 1, new |-> TRUE])
    BY <1>10 DEF OpenSession, Is
  <2>2. note'.sids = note.sids + 1 /\ note'.cookie = note.cookie /\ note'.cleared = note.cleared
    BY <1>1, <1>10 DEF OpenSession, NoteFields
  <2>3. proc'[p].pc = "controller" /\ proc'[p].sid = note.sids + 1
    BY <1>1, <1>2, <2>1, StepMoves DEF CallFields
  <2>4. ClearedForGood'
    BY <1>3, <2>1, <2>2 DEF ClearedForGood, Exists, diskVars
  <2> QED  BY <1>3, <1>7, <2>1, <2>2, <2>3, <2>4 DEF diskVars
<1>11. CASE LoadSession(p)
  <2>1. proc[p].pc = "session" /\ UNCHANGED <<dir, ops, note>>
    BY <1>11 DEF LoadSession, Is
  <2>2. proc'[p].pc = "controller" /\ proc'[p].sid = proc[p].sid /\ proc'[p].new = proc[p].new /\ ~proc[p].new
    BY <1>1, <1>2, <1>3, <1>11, <2>1, StepMoves DEF LoadSession, CallFields, Known
  <2>3. p \in OneLeft
    BY <2>1 DEF OneLeft
  <2> QED  BY <1>6, <2>1, <2>2, <2>3
<1>12. CASE Visit(p)
  <2>1. proc[p].pc = "controller" /\ UNCHANGED <<diskVars, ops, note>>
    BY <1>12 DEF Visit, Is
  <2>2. PICK b \in BOOLEAN : Step(p, [pc |-> "save", changed |-> b])
    BY <1>12 DEF Visit
  <2>3. proc'[p].pc = "save" /\ proc'[p].sid = proc[p].sid /\ proc'[p].new = proc[p].new
    BY <1>1, <1>2, <2>1, <2>2, StepMoves DEF CallFields
  <2>4. p \notin OneLeft'
    BY <2>3 DEF OneLeft
  <2> QED  BY <1>6, <2>1, <2>3, <2>4 DEF diskVars
<1>13. CASE LogIn(p)
  <2>1. proc[p].pc = "controller" /\ UNCHANGED <<dir, ops>>
    BY <1>13 DEF LogIn, Is, CloseSession
  <2>2. note'.sids = note.sids + 1 /\ note'.cookie = note.cookie /\ note'.cleared = note.cleared
    BY <1>1, <1>13 DEF LogIn, NoteFields
  <2>3. proc'[p].pc = "save" /\ proc'[p].sid = note.sids + 1
    BY <1>1, <1>2, <1>13, <2>1, StepMoves DEF LogIn, CallFields
  <2>4. ClearedForGood'
    BY <1>3, <2>1, <2>2 DEF ClearedForGood, Exists
  <2> QED  BY <1>3, <1>7, <2>1, <2>2, <2>3, <2>4
<1>14. CASE ClearSession(p)
  <2>1. proc[p].pc = "controller" /\ UNCHANGED <<dir, ops>> /\ Step(p, [pc |-> "unlink"])
    BY <1>14 DEF ClearSession, Is, CloseSession
  <2>2. note'.sids = note.sids /\ note'.cookie = note.cookie /\ note'.cleared = note.cleared
    BY <1>1, <1>14 DEF ClearSession, NoteFields
  <2>3. proc'[p].pc = "unlink" /\ proc'[p].sid = proc[p].sid /\ proc'[p].new = proc[p].new
    BY <1>1, <1>2, <2>1, StepMoves DEF CallFields
  <2>4. p \in OneLeft
    BY <2>1 DEF OneLeft
  <2> QED  BY <1>6, <2>1, <2>2, <2>3, <2>4
<1>15. CASE UnlinkSession(p)
  <2>1. proc[p].pc = "unlink" /\ ops' = ops /\ dir' = [dir EXCEPT ![proc[p].sid] = 0]
    BY <1>15 DEF UnlinkSession, Is, Unlink
  <2>2. /\ note'.sids = note.sids + 1 /\ note'.cookie = note.cookie
        /\ note'.cleared = note.cleared \cup {proc[p].sid}
    BY <1>1, <1>15 DEF UnlinkSession, NoteFields
  <2>3. PICK b \in BOOLEAN :
           Step(p, [pc |-> "save", auth |-> FALSE, new |-> TRUE, changed |-> b, sid |-> note.sids + 1])
    BY <1>15 DEF UnlinkSession
  <2>4. proc'[p].pc = "save" /\ proc'[p].sid = note.sids + 1
    BY <1>1, <1>2, <2>1, <2>3, StepMoves DEF CallFields
  <2>5. proc[p].sid \in Name
    BY <1>2, <1>3, <2>1, SidsNamed DEF Known, NoSid
  <2>6. ClearedForGood' /\ DOMAIN dir' = Name
    <3>1. DOMAIN dir' = Name /\ dir'[proc[p].sid] = 0 /\ \A n \in Name : dir[n] = 0 => dir'[n] = 0
      BY <1>3, <2>1, <2>5
    <3>2. note.cleared \subseteq Name
      BY <1>3, SidsNamed
    <3> QED  BY <1>3, <2>2, <3>1, <3>2 DEF ClearedForGood, Exists
  <2> QED  BY <1>7, <2>1, <2>2, <2>4, <2>6
<1>16. CASE StoreSession(p)
  <2>1. proc[p].pc = "save" /\ UNCHANGED <<ops, note>> /\ Step(p, [pc |-> "answer"])
    BY <1>16 DEF StoreSession, Is
  <2>2. proc'[p].pc = "answer" /\ proc'[p].sid = proc[p].sid
    BY <1>1, <1>2, <2>1, StepMoves DEF CallFields
  <2>3. dir' = dir \/ (proc[p].new /\ dir' = [dir EXCEPT ![proc[p].sid] = Len(disk) + 1])
    BY <1>16 DEF StoreSession, CloseSession
  <2>4. DOMAIN dir' = Name /\ ClearedForGood'
    <3>1. proc[p].new => proc[p].sid \notin note.cleared
      BY <1>3, <2>1 DEF Unshared
    <3>2. note.cleared \subseteq Name
      BY <1>3, SidsNamed
    <3>3. DOMAIN dir' = Name /\ \A n \in note.cleared : dir'[n] = dir[n]
      BY <1>3, <2>3, <3>1, <3>2
    <3> QED  BY <1>3, <2>1, <3>3 DEF ClearedForGood, Exists
  <2>5. Enough'
    BY <1>4, <2>1, <2>2 DEF OneLeft
  <2>6. Known(p)' /\ Unshared(p)' /\ proc[p] # Idle
    BY <1>2, <1>3, <2>1, <2>2 DEF Known, Unshared
  <2> QED  BY <1>1, <1>3, <2>1, <2>2, <2>4, <2>5, <2>6, OthersKeep
<1>17. CASE Answer(p)
  <2>1. proc[p].pc = "answer" /\ Return(p) /\ UNCHANGED <<diskVars, ops>>
    BY <1>17 DEF Answer, Is
  <2>2. note'.sids = note.sids /\ note'.cookie = proc[p].sid /\ note'.cleared = note.cleared
    BY <1>1, <1>17 DEF Answer, NoteFields
  <2> QED  BY <1>5, <2>1, <2>2 DEF diskVars
<1>18. CASE RaiseInRequest(p) \/ LoseAnswer(p)
  <2>1. proc[p].pc # "idle" /\ Return(p) /\ UNCHANGED <<dir, ops, note>>
    BY <1>18 DEF RaiseInRequest, LoseAnswer, Is, CloseSession, diskVars
  <2> QED  BY <1>5, <2>1
<1> QED  BY <1>8, <1>9, <1>10, <1>11, <1>12, <1>13, <1>14, <1>15, <1>16, <1>17, <1>18 DEF SessionStep

-----------------------------------------------------------------------------

\* The other users of files clear no session and touch no cookie.
SessionKept == (note.users = "browser" /\ SessionInv) \/ (note.users # "browser" /\ note.cleared = {})

LEMMA BrowserStays ==
    ASSUME Alone, RequestsNext \/ ThreadsNext \/ CronNext
    PROVE  note'.cleared = note.cleared /\ note'.cookie = note.cookie /\ note'.wanted = note.wanted
<1>1. DOMAIN note = NoteFields
  BY DEF Alone
<1>2. CASE RequestsNext
  <2>1. PICK p \in Proc : Begin(p) \/ CacheStep(p) \/ Killed(p)
    BY <1>2 DEF RequestsNext
  <2>2. CASE ApplyOpen(p) \/ ApplyFirst(p) \/ ApplyLoad(p) \/ ApplyStore(p)
    BY <1>1, <2>2 DEF NoteFields, ApplyOpen, ApplyFirst, ApplyLoad, ApplyStore
  <2>3. CASE StoreOpen(p) \/ StorePut(p) \/ ClearNext(p) \/ Killed(p)
    BY <1>1, <2>3 DEF NoteFields, StoreOpen, StorePut, ClearNext, Killed
  <2>4. CASE Begin(p) \/ OpenItem(p) \/ LoadItem(p) \/ Decide(p) \/ Compute(p) \/ ReturnValue(p)
    BY <1>1, <2>4 DEF NoteFields, Begin, OpenItem, LoadItem, Decide, Compute, ReturnValue
  <2> QED  BY <2>1, <2>2, <2>3, <2>4 DEF CacheStep
<1>3. CASE ThreadsNext
  BY <1>1, <1>3 DEF NoteFields, ThreadsNext, BeginRam, RamStep, RamLookup, RamClear, RamCompute, RamStore,
                    ReturnValue, Tick
<1>4. CASE CronNext
  BY <1>1, <1>4 DEF NoteFields, CronNext, AskToken, CronStep, TestToken, CreateToken, Acquire, ReleaseToken,
                    CloseToken, MasterKilled, Tick
<1> QED  BY <1>2, <1>3, <1>4

LEMMA SessionStays ==
    ASSUME Alone, SessionKept, [FilesNext]_fileVars
    PROVE  SessionKept'
<1>1. CASE UNCHANGED fileVars
  BY <1>1 DEF fileVars, diskVars, SessionKept, SessionInv, Enough, TwoLeft, OneLeft, Known, Unshared,
              ClearedForGood, Exists
<1>2. CASE FilesNext
  <2>1. note'.users = note.users
    BY <1>2, UsersStay
  <2>2. CASE note.users = "browser"
    BY <1>2, <2>1, <2>2, KindsApart, SessionSteps DEF SessionKept, BrowserNext
  <2>3. CASE note.users # "browser"
    <3>1. note'.cleared = note.cleared
      BY <1>2, <2>3, KindsApart, BrowserStays
    <3> QED  BY <2>1, <2>3, <3>1 DEF SessionKept
  <2> QED  BY <2>2, <2>3
<1> QED  BY <1>1, <1>2

LEMMA AlwaysSession == FilesSpec => []SessionKept
<1>1. FilesInit => SessionKept
  <2> SUFFICES ASSUME FilesInit PROVE SessionKept
    OBVIOUS
  <2>1. PICK users \in Kinds : note = FreshNote(users)
    BY DEF FilesInit, Kinds
  <2>2. /\ note.cleared = {} /\ note.cookie = 0 /\ note.sids = 0
        /\ dir = [n \in Name |-> 0] /\ ops = 0 /\ proc = [p \in Proc |-> Idle]
    BY <2>1 DEF FilesInit, FreshNote, NoSid
  <2>3. TwoLeft = {} /\ OneLeft = {}
    BY <2>2 DEF TwoLeft, OneLeft, Idle
  <2>4. Enough
    <3>1. ops \in 0..MaxOps
      BY <2>2, BoundAssumption
    <3> QED  BY <2>2, <2>3, <3>1, FS_EmptySet DEF Enough
  <2>5. \A p \in Proc : Known(p) /\ Unshared(p)
    BY <2>2 DEF Known, Unshared, Idle
  <2> QED  BY <2>2, <2>4, <2>5 DEF SessionKept, SessionInv, ClearedForGood
<1>2. Alone /\ SessionKept /\ [FilesNext]_fileVars => SessionKept'
  BY SessionStays
<1> QED  BY <1>1, <1>2, AlwaysAlone, PTL DEF FilesSpec

\* A session that was cleared never has a file again (Session.renew and clear, _try_store_in_file).
THEOREM ClearedStaysCleared == FilesSpec => []ClearedForGood
<1>1. SessionKept => ClearedForGood
  BY DEF SessionKept, SessionInv, ClearedForGood
<1> QED  BY <1>1, AlwaysSession, PTL

-----------------------------------------------------------------------------
(* Logged in or out. *)

Grants(sid) == Found(sid) /\ disk[dir[sid]].auth

\* A file per inode, files of ids that were made up, and no name for the inode of another.
FilesTyped ==
    /\ disk \in Seq([auth : BOOLEAN])
    /\ dir \in [Name -> 0..Len(disk)]
    /\ \A m, n \in Name : Exists(m) /\ dir[m] = dir[n] => m = n
    /\ \A n \in Name : Exists(n) => n \in 1..note.sids
    /\ note.wanted \in BOOLEAN

\* The file that a request has open is that of its session, if that was not cleared.
FileOfSession(p) ==
    LET i == proc[p].inode
    IN  proc[p] # Idle =>
          /\ proc[p].op \in {"visit"} \cup Changes /\ proc[p].auth \in BOOLEAN /\ proc[p].new \in BOOLEAN
          /\ proc[p].pc \in {"connect", "session"} => ~proc[p].auth
          /\ proc[p].pc \in {"session", "controller", "save"} /\ ~proc[p].new =>
               /\ i \in 1..Len(disk)
               /\ \A n \in Name : dir[n] = i => n = proc[p].sid
               /\ dir[proc[p].sid] = i \/ proc[p].sid \in note.cleared

\* A login is alone, and its answer brings a session that is logged in.
LoginOK(p) ==
    proc[p] # Idle /\ proc[p].op = "login" =>
        /\ \A q \in Proc : q # p => proc[q] = Idle
        /\ proc[p].pc # "unlink"
        /\ proc[p].pc = "save" => proc[p].auth /\ proc[p].new /\ proc[p].changed
        /\ proc[p].pc = "answer" => Grants(proc[p].sid)

\* While the user is to be logged in, each other request runs in the session of the cookie ...
InSession(p) ==
    proc[p] # Idle /\ proc[p].op # "login" =>
        /\ proc[p].sid = note.cookie
        /\ ~proc[p].new
        /\ proc[p].pc \in {"controller", "save"} => proc[p].auth

\* ... and else in one that is logged out, or in one that was cleared.
OutOfSession(p) ==
    proc[p] # Idle /\ proc[p].op # "login" =>
        /\ ~Grants(proc[p].sid)
        /\ proc[p].pc \in {"controller", "save"} /\ proc[p].auth =>
             proc[p].sid \in note.cleared /\ ~proc[p].new

\* Where the properties promise something.
Clean == ~note.overlap \/ ~note.crossed

LoggedAs ==
    IF note.wanted THEN Grants(note.cookie) /\ \A p \in Proc : InSession(p)
    ELSE ~Grants(note.cookie) /\ \A p \in Proc : OutOfSession(p)

CookieInv ==
    /\ FilesTyped
    /\ \A p \in Proc : FileOfSession(p)
    /\ Clean => LoggedAs /\ \A p \in Proc : LoginOK(p)

\* What a step of p may do to the files of sessions.
FileMoves(p) ==
    LET sid == proc[p].sid
        i == proc[p].inode
    IN  \/ UNCHANGED <<dir, disk>>
        \/ /\ proc[p].pc = "unlink"
           /\ dir' = [dir EXCEPT ![sid] = 0] /\ disk' = disk
           /\ sid \in note'.cleared
        \/ /\ proc[p].pc = "save" /\ proc[p].new
           /\ dir' = [dir EXCEPT ![sid] = Len(disk) + 1] /\ disk' = Append(disk, [auth |-> proc[p].auth])
        \/ /\ proc[p].pc = "save" /\ ~proc[p].new
           /\ dir' = dir /\ disk' = [disk EXCEPT ![i] = [auth |-> proc[p].auth]]

\* The session of a request that opened or made one has a name.
LEMMA SidNamed ==
    ASSUME SessionInv, NEW p \in Proc, proc[p].pc \in {"unlink", "save"}
    PROVE  proc[p].sid \in Name /\ proc[p].sid \in 1..note.sids /\ proc[p].sid # NoSid
<1>1. proc[p] # Idle
  BY DEF Idle
<1> QED  BY <1>1, SidsNamed DEF SessionInv, Known, Enough, NoSid

LEMMA FilesMove ==
    ASSUME SessionInv, CookieInv, NEW p \in Proc, Moved(p), FileMoves(p),
           note'.sids \in {note.sids, note.sids + 1},
           note.cleared \subseteq note'.cleared, note'.wanted \in BOOLEAN
    PROVE  FilesTyped' /\ \A q \in Proc : q # p => FileOfSession(q)'
<1>1. note.sids \in Nat /\ DOMAIN dir = Name
  BY DEF SessionInv, Enough
<1> DEFINE Session == [auth : BOOLEAN]
<1>2. disk \in Seq(Session) /\ dir \in [Name -> 0..Len(disk)] /\ Len(disk) \in Nat /\ FilesTyped
  BY DEF CookieInv, FilesTyped
<1>3. ASSUME NEW q \in Proc, q # p
      PROVE  proc'[q] = proc[q] /\ FileOfSession(q)
  BY <1>3 DEF Moved, CookieInv
<1>4. CASE UNCHANGED <<dir, disk>>
  <2>1. FilesTyped'
    BY <1>1, <1>2, <1>4 DEF FilesTyped, Exists
  <2>2. ASSUME NEW q \in Proc, q # p
        PROVE  FileOfSession(q)'
    BY <1>3, <1>4, <2>2 DEF FileOfSession
  <2> QED  BY <2>1, <2>2
<1>5. CASE /\ proc[p].pc = "unlink" /\ proc[p].sid \in note'.cleared
           /\ dir' = [dir EXCEPT ![proc[p].sid] = 0] /\ disk' = disk
  <2>1. proc[p].sid \in Name
    BY <1>5, SidNamed
  <2>2. \A n \in Name : dir'[n] = IF n = proc[p].sid THEN 0 ELSE dir[n]
    BY <1>1, <1>5, <2>1
  <2>3. dir' \in [Name -> 0..Len(disk')]
    <3>1. \A n \in Name : dir'[n] \in 0..Len(disk')
      BY <1>2, <1>5, <2>2
    <3> QED  BY <1>1, <1>5, <3>1
  <2>4. FilesTyped'
    <3>1. \A m, n \in Name : Exists(m)' /\ dir'[m] = dir'[n] => m = n
      BY <1>2, <2>2 DEF FilesTyped, Exists
    <3>2. \A n \in Name : Exists(n)' => n \in 1..note'.sids
      BY <1>1, <1>2, <2>2 DEF FilesTyped, Exists
    <3> QED  BY <1>2, <1>5, <2>3, <3>1, <3>2 DEF FilesTyped
  <2>5. ASSUME NEW q \in Proc, q # p
        PROVE  FileOfSession(q)'
    <3> DEFINE i == proc[q].inode
               sid == proc[q].sid
    <3> HIDE DEF i, sid
    <3>1. ASSUME proc[q] # Idle, proc[q].pc \in {"session", "controller", "save"}, ~proc[q].new
          PROVE  /\ i \in 1..Len(disk')
                 /\ \A n \in Name : dir'[n] = i => n = sid
                 /\ dir'[sid] = i \/ sid \in note'.cleared
      <4>1. /\ i \in 1..Len(disk)
            /\ \A n \in Name : dir[n] = i => n = sid
            /\ dir[sid] = i \/ sid \in note.cleared
        BY <1>3, <2>5, <3>1 DEF FileOfSession, i, sid
      <4>2. i # 0
        BY <1>2, <4>1
      <4>3. sid \in Name
        <5>1. sid \in 0..note.sids /\ sid # NoSid
          BY <3>1 DEF SessionInv, Known, sid
        <5> QED  BY <1>1, <5>1, SidsNamed DEF SessionInv, NoSid
      <4> QED  BY <1>5, <2>2, <4>1, <4>2, <4>3
    <3> QED  BY <1>3, <2>5, <3>1 DEF FileOfSession, i, sid
  <2> QED  BY <2>4, <2>5
<1>6. CASE /\ proc[p].pc = "save" /\ proc[p].new
           /\ dir' = [dir EXCEPT ![proc[p].sid] = Len(disk) + 1] /\ disk' = Append(disk, [auth |-> proc[p].auth])
  <2>1. proc[p].sid \in Name /\ proc[p].sid \in 1..note.sids
    BY <1>6, SidNamed
  <2>2. \A n \in Name : dir'[n] = IF n = proc[p].sid THEN Len(disk) + 1 ELSE dir[n]
    BY <1>1, <1>6, <2>1
  <2>3. proc[p] # Idle /\ proc[p].auth \in BOOLEAN
    BY <1>6 DEF Idle, CookieInv, FileOfSession
  <2>4. disk' \in Seq(Session) /\ Len(disk') = Len(disk) + 1
    <3>1. [auth |-> proc[p].auth] \in Session
      BY <2>3
    <3> HIDE DEF Session
    <3> QED  BY <1>2, <1>6, <3>1
  <2>5. dir' \in [Name -> 0..Len(disk')]
    <3>1. \A n \in Name : dir'[n] \in 0..Len(disk')
      BY <1>2, <2>2, <2>4
    <3> QED  BY <1>1, <1>6, <3>1
  <2>6. ASSUME NEW n \in Name, dir[n] = Len(disk) + 1
        PROVE  FALSE
    <3>1. dir[n] \in 0..Len(disk)
      BY <1>2
    <3> QED  BY <1>2, <2>6, <3>1
  <2>7. \A m, n \in Name : Exists(m)' /\ dir'[m] = dir'[n] => m = n
    BY <1>2, <2>2, <2>6 DEF FilesTyped, Exists
  <2>8. \A n \in Name : Exists(n)' => n \in 1..note'.sids
    BY <1>1, <1>2, <2>1, <2>2 DEF FilesTyped, Exists
  <2>9. FilesTyped'
    BY <2>4, <2>5, <2>7, <2>8 DEF FilesTyped
  <2>10. ASSUME NEW q \in Proc, q # p
        PROVE  FileOfSession(q)'
    <3> DEFINE i == proc[q].inode
               sid == proc[q].sid
    <3> HIDE DEF i, sid
    <3>1. ASSUME proc[q] # Idle, proc[q].pc \in {"session", "controller", "save"}, ~proc[q].new
          PROVE  /\ i \in 1..Len(disk')
                 /\ \A n \in Name : dir'[n] = i => n = sid
                 /\ dir'[sid] = i \/ sid \in note'.cleared
      <4>1. /\ i \in 1..Len(disk)
            /\ \A n \in Name : dir[n] = i => n = sid
            /\ dir[sid] = i \/ sid \in note.cleared
        BY <1>3, <2>10, <3>1 DEF FileOfSession, i, sid
      <4>2. i # Len(disk) + 1 /\ i \in 1..Len(disk')
        BY <1>2, <2>4, <4>1
      <4>3. sid \in Name
        <5>1. sid \in 0..note.sids /\ sid # NoSid
          BY <3>1 DEF SessionInv, Known, sid
        <5> QED  BY <1>1, <5>1, SidsNamed DEF SessionInv, NoSid
      <4>4. sid # proc[p].sid
        BY <1>6, <2>10, <3>1 DEF SessionInv, Unshared, sid
      <4> QED  BY <2>2, <4>1, <4>2, <4>3, <4>4
    <3> QED  BY <1>3, <2>10, <3>1 DEF FileOfSession, i, sid
  <2> QED  BY <2>9, <2>10
<1>7. CASE /\ proc[p].pc = "save" /\ ~proc[p].new
           /\ dir' = dir /\ disk' = [disk EXCEPT ![proc[p].inode] = [auth |-> proc[p].auth]]
  <2>1. proc[p] # Idle /\ proc[p].auth \in BOOLEAN /\ proc[p].inode \in 1..Len(disk)
    BY <1>7 DEF Idle, CookieInv, FileOfSession
  <2>2. disk' \in Seq(Session) /\ Len(disk') = Len(disk)
    <3>1. [auth |-> proc[p].auth] \in Session
      BY <2>1
    <3> HIDE DEF Session
    <3> QED  BY <1>2, <1>7, <2>1, <3>1
  <2>3. FilesTyped'
    BY <1>1, <1>2, <1>7, <2>2 DEF FilesTyped, Exists
  <2>4. ASSUME NEW q \in Proc, q # p
        PROVE  FileOfSession(q)'
    BY <1>3, <1>7, <2>2, <2>4 DEF FileOfSession
  <2> QED  BY <2>3, <2>4
<1> QED  BY <1>4, <1>5, <1>6, <1>7 DEF FileMoves

\* Who is logged in after such a step.
LEMMA GrantsMove ==
    ASSUME SessionInv, CookieInv, NEW p \in Proc, FileMoves(p), NEW sid \in Name \cup {NoSid}
    PROVE  \/ Grants(sid)' <=> Grants(sid)
           \/ proc[p].pc = "unlink" /\ sid = proc[p].sid /\ ~Grants(sid)'
           \/ /\ proc[p].pc = "save" /\ sid = proc[p].sid
              /\ Grants(sid)' <=> proc[p].auth
              /\ proc[p].new \/ sid \notin note.cleared
<1> DEFINE Session == [auth : BOOLEAN]
<1>1. disk \in Seq(Session) /\ dir \in [Name -> 0..Len(disk)] /\ Len(disk) \in Nat
  BY DEF CookieInv, FilesTyped
<1>2. CASE sid = NoSid
  BY <1>2 DEF Grants, Found
<1>3. CASE sid # NoSid /\ sid \in Name
  <2>1. CASE UNCHANGED <<dir, disk>>
    BY <2>1 DEF Grants, Found, Exists
  <2>2. CASE proc[p].pc = "unlink" /\ dir' = [dir EXCEPT ![proc[p].sid] = 0] /\ disk' = disk
    <3>1. dir'[sid] = IF sid = proc[p].sid THEN 0 ELSE dir[sid]
      BY <1>1, <1>3, <2>2
    <3> QED  BY <2>2, <3>1 DEF Grants, Found, Exists
  <2>3. CASE /\ proc[p].pc = "save" /\ proc[p].new
             /\ dir' = [dir EXCEPT ![proc[p].sid] = Len(disk) + 1]
             /\ disk' = Append(disk, [auth |-> proc[p].auth])
    <3>1. dir'[sid] = IF sid = proc[p].sid THEN Len(disk) + 1 ELSE dir[sid]
      BY <1>1, <1>3, <2>3
    <3>2. CASE sid = proc[p].sid
      <4>1. disk'[Len(disk) + 1] = [auth |-> proc[p].auth] /\ Len(disk) + 1 # 0
        <5>1. \A rec : Append(disk, rec)[Len(disk) + 1] = rec
          <6> HIDE DEF Session
          <6> QED  BY <1>1
        <5> QED  BY <1>1, <2>3, <5>1
      <4> QED  BY <1>3, <2>3, <3>1, <3>2, <4>1 DEF Grants, Found, Exists
    <3>3. CASE sid # proc[p].sid
      <4>1. dir[sid] \in 0..Len(disk) /\ dir'[sid] = dir[sid]
        BY <1>1, <1>3, <3>1, <3>3
      <4>2. dir[sid] # 0 => disk'[dir[sid]] = disk[dir[sid]]
        <5>1. \A rec : \A i \in 1..Len(disk) : Append(disk, rec)[i] = disk[i]
          <6> HIDE DEF Session
          <6> QED  BY <1>1
        <5>2. dir[sid] # 0 => dir[sid] \in 1..Len(disk)
          BY <1>1, <4>1
        <5> QED  BY <2>3, <5>1, <5>2
      <4> QED  BY <4>1, <4>2 DEF Grants, Found, Exists
    <3> QED  BY <3>2, <3>3
  <2>4. CASE /\ proc[p].pc = "save" /\ ~proc[p].new
             /\ dir' = dir /\ disk' = [disk EXCEPT ![proc[p].inode] = [auth |-> proc[p].auth]]
    <3>1. /\ proc[p] # Idle /\ proc[p].inode \in 1..Len(disk)
          /\ \A n \in Name : dir[n] = proc[p].inode => n = proc[p].sid
          /\ dir[proc[p].sid] = proc[p].inode \/ proc[p].sid \in note.cleared
      BY <2>4 DEF Idle, CookieInv, FileOfSession
    <3>2. DOMAIN disk = 1..Len(disk)
      BY <1>1
    <3>3. CASE dir[sid] = proc[p].inode
      <4>1. sid = proc[p].sid /\ dir[sid] # 0
        BY <1>1, <1>3, <3>1, <3>3
      <4>2. sid \notin note.cleared
        BY <4>1 DEF SessionInv, ClearedForGood, Exists
      <4>3. disk'[dir'[sid]] = [auth |-> proc[p].auth]
        BY <2>4, <3>1, <3>2, <3>3
      <4> QED  BY <1>3, <2>4, <4>1, <4>2, <4>3 DEF Grants, Found, Exists
    <3>4. CASE dir[sid] # proc[p].inode
      <4>1. dir[sid] \in 0..Len(disk)
        BY <1>1, <1>3
      <4>2. dir[sid] # 0 => disk'[dir'[sid]] = disk[dir[sid]]
        BY <1>1, <2>4, <3>2, <3>4, <4>1
      <4> QED  BY <2>4, <4>2 DEF Grants, Found, Exists
    <3> QED  BY <3>3, <3>4
  <2> QED  BY <2>1, <2>2, <2>3, <2>4 DEF FileMoves
<1> QED  BY <1>2, <1>3

-----------------------------------------------------------------------------

\* While p's login is under way nothing else is, so that the cookie's session is left alone
\* until the answer comes.
LEMMA LoginLogged ==
    ASSUME SessionInv, CookieInv, Clean, NEW p \in Proc, Moved(p), FileMoves(p),
           proc[p] # Idle, proc[p].op = "login", proc'[p] # Idle => proc'[p].op = "login",
           note'.cookie = note.cookie, note'.wanted = note.wanted
    PROVE  LoggedAs'
<1>1. LoginOK(p) /\ LoggedAs /\ Unshared(p)
  BY DEF CookieInv, SessionInv
<1>2. note.cookie \in Name \cup {NoSid}
  BY SidsNamed DEF SessionInv, NoSid, Enough
<1>3. Grants(note.cookie)' <=> Grants(note.cookie)
  <2>1. proc[p].pc # "unlink" /\ (proc[p].pc = "save" => proc[p].sid # note.cookie)
    BY <1>1 DEF LoginOK, Unshared
  <2>2. \A sid \in Name \cup {NoSid} :
           \/ Grants(sid)' <=> Grants(sid)
           \/ proc[p].pc = "unlink" /\ sid = proc[p].sid /\ ~Grants(sid)'
           \/ proc[p].pc = "save" /\ sid = proc[p].sid
    BY GrantsMove
  <2>3. \A sid : sid = note.cookie => (Grants(sid)' <=> Grants(sid))
    BY <1>2, <2>1, <2>2
  <2> QED  BY <2>3
<1>4. \A q \in Proc : proc'[q] = Idle \/ proc'[q].op = "login"
  BY <1>1 DEF LoginOK, Moved
<1> QED  BY <1>1, <1>3, <1>4 DEF LoggedAs, InSession, OutOfSession

\* No request but a login logs a session in.
LEMMA NoneGrants ==
    ASSUME SessionInv, CookieInv, NEW p \in Proc, FileMoves(p), OutOfSession(p), proc[p].op # "login",
           NEW sid \in Name \cup {NoSid}, Grants(sid)'
    PROVE  Grants(sid)
<1>1. proc[p].pc = "save" => proc[p] # Idle
  BY DEF Idle
<1>2. ASSUME proc[p].pc = "save", sid = proc[p].sid, proc[p].auth, proc[p].new \/ sid \notin note.cleared
      PROVE  FALSE
  BY <1>1, <1>2 DEF OutOfSession
<1> QED  BY <1>2, GrantsMove

LEMMA VisitLogged ==
    ASSUME SessionInv, SessionInv', CookieInv, Clean, NEW p \in Proc, Moved(p), FileMoves(p),
           proc[p] # Idle, proc[p].op # "login", note.cleared \subseteq note'.cleared,
           \/ note'.cookie = note.cookie
           \/ note'.cookie = proc[p].sid,
           IF proc[p].pc = "unlink"
           THEN ~note'.wanted /\ proc[p].sid \in note'.cleared /\ note'.cookie = note.cookie
           ELSE note'.wanted = note.wanted,
           note'.wanted => InSession(p)', ~note'.wanted => OutOfSession(p)'
    PROVE  LoggedAs'
<1>1. LoggedAs /\ Unshared(p) /\ note.wanted \in BOOLEAN
  BY DEF CookieInv, SessionInv, FilesTyped
<1>2. /\ note.cookie \in Name \cup {NoSid}
      /\ \A q \in Proc : proc[q] # Idle => proc[q].sid \in Name \cup {NoSid}
  <2>1. 1..note.sids \subseteq Name /\ note.sids \in Nat
    BY SidsNamed DEF SessionInv, Enough
  <2>2. 0..note.sids \subseteq Name \cup {NoSid}
    BY <2>1 DEF NoSid
  <2>3. note.cookie \in 0..note.sids /\ \A q \in Proc : proc[q] # Idle => proc[q].sid \in 0..note.sids
    BY DEF SessionInv, Known
  <2> QED  BY <2>2, <2>3
<1>3. \A q \in Proc : q # p => proc'[q] = proc[q]
  BY DEF Moved
<1>4. CASE note.wanted /\ proc[p].pc # "unlink"
  <2>1. proc[p].sid = note.cookie /\ Grants(note.cookie) /\ (proc[p].pc = "save" => proc[p].auth)
    BY <1>1, <1>4 DEF LoggedAs, InSession
  <2>2. \A sid \in Name \cup {NoSid} :
           \/ Grants(sid)' <=> Grants(sid)
           \/ proc[p].pc = "unlink" /\ sid = proc[p].sid /\ ~Grants(sid)'
           \/ proc[p].pc = "save" /\ sid = proc[p].sid /\ (Grants(sid)' <=> proc[p].auth)
    BY GrantsMove
  <2>3. note'.cookie = note.cookie
    BY <2>1
  <2>4. \A sid : sid = note.cookie => Grants(sid)'
    BY <1>2, <1>4, <2>1, <2>2
  <2>5. Grants(note.cookie)'
    BY <2>3, <2>4
  <2>6. ASSUME NEW q \in Proc PROVE InSession(q)'
    <3>1. CASE q = p
      BY <1>4, <3>1
    <3>2. CASE q # p
      BY <1>1, <1>3, <1>4, <2>3, <3>2 DEF LoggedAs, InSession
    <3> QED  BY <3>1, <3>2
  <2> QED  BY <1>4, <2>5, <2>6 DEF LoggedAs
<1>5. CASE note.wanted /\ proc[p].pc = "unlink"
  <2>1. proc[p].sid = note.cookie
    BY <1>1, <1>5 DEF LoggedAs, InSession
  <2>2. \A sid : sid = note.cookie => ~Grants(sid)'
    BY <1>5, <2>1 DEF SessionInv, ClearedForGood, Grants, Found
  <2>3. ASSUME NEW q \in Proc PROVE OutOfSession(q)'
    <3>1. CASE q = p
      BY <1>5, <3>1
    <3>2. CASE q # p
      <4>1. proc[q] # Idle /\ proc[q].op # "login" => proc[q].sid = note.cookie /\ ~proc[q].new
        BY <1>1, <1>5 DEF LoggedAs, InSession
      <4> QED  BY <1>3, <1>5, <2>1, <2>2, <3>2, <4>1 DEF OutOfSession
    <3> QED  BY <3>1, <3>2
  <2> QED  BY <1>5, <2>2, <2>3 DEF LoggedAs
<1>6. CASE ~note.wanted
  <2>1. ~Grants(note.cookie) /\ \A q \in Proc : OutOfSession(q)
    BY <1>1, <1>6 DEF LoggedAs
  <2>2. \A sid \in Name \cup {NoSid} : Grants(sid)' => Grants(sid)
    BY <2>1, NoneGrants
  <2>3. \A sid : sid = note.cookie => ~Grants(sid)'
    BY <1>2, <2>1, <2>2
  <2>4. \A sid : sid = proc[p].sid => ~Grants(sid)'
    BY <1>2, <2>1, <2>2 DEF OutOfSession
  <2>5. ~note'.wanted /\ ~Grants(note.cookie)'
    BY <1>6, <2>3, <2>4
  <2>6. ASSUME NEW q \in Proc PROVE OutOfSession(q)'
    <3>1. CASE q = p
      BY <2>5, <3>1
    <3>2. CASE q # p
      <4>1. proc'[q] = proc[q] /\ OutOfSession(q)
        BY <1>3, <2>1, <3>2
      <4>2. proc[q] # Idle /\ proc[q].op # "login" => \A sid : sid = proc[q].sid => ~Grants(sid)'
        BY <1>2, <2>2, <4>1 DEF OutOfSession
      <4> QED  BY <4>1, <4>2 DEF OutOfSession
    <3> QED  BY <3>1, <3>2
  <2> QED  BY <2>5, <2>6 DEF LoggedAs
<1> QED  BY <1>1, <1>4, <1>5, <1>6

\* Steps of a request that is under way: what the action has to show of its own request.
LEMMA RequestMoved ==
    ASSUME SessionInv, SessionInv', CookieInv, NEW p \in Proc, Moved(p), proc[p] # Idle, FileMoves(p),
           note'.sids \in {note.sids, note.sids + 1}, note.cleared \subseteq note'.cleared,
           note'.wanted \in BOOLEAN, Clean' => Clean,
           proc'[p] # Idle => proc'[p].op = proc[p].op,
           \/ note'.cookie = note.cookie
           \/ note'.cookie = proc[p].sid /\ proc[p].op # "login",
           IF proc[p].pc = "unlink"
           THEN ~note'.wanted /\ proc[p].sid \in note'.cleared /\ note'.cookie = note.cookie
           ELSE note'.wanted = note.wanted,
           FileOfSession(p)',
           LoginOK(p) /\ proc[p].op = "login" /\ proc'[p] # Idle =>
               /\ proc'[p].pc # "unlink"
               /\ proc'[p].pc = "save" => proc'[p].auth /\ proc'[p].new /\ proc'[p].changed
               /\ proc'[p].pc = "answer" => Grants(proc[p].sid)' /\ proc'[p].sid = proc[p].sid,
           InSession(p) /\ Grants(note.cookie) /\ proc[p].op # "login" /\ proc[p].pc # "unlink"
               => InSession(p)',
           (proc[p].pc = "unlink" \/ OutOfSession(p)) /\ proc[p].op # "login" => OutOfSession(p)'
    PROVE  CookieInv'
<1>1. FilesTyped' /\ \A q \in Proc : FileOfSession(q)'
  BY FilesMove
<1>2. ASSUME Clean'
      PROVE  LoggedAs' /\ \A q \in Proc : LoginOK(q)'
  <2>1. Clean /\ LoggedAs /\ (\A q \in Proc : LoginOK(q)) /\ note.wanted \in BOOLEAN
    BY <1>2 DEF CookieInv, FilesTyped
  <2>2. ASSUME NEW q \in Proc
        PROVE  LoginOK(q)'
    <3>1. CASE q # p
      <4>1. proc'[q] = proc[q] /\ ~(proc[q] # Idle /\ proc[q].op = "login")
        BY <2>1, <3>1 DEF Moved, LoginOK
      <4> QED  BY <4>1 DEF LoginOK
    <3>2. CASE q = p
      <4>1. proc[p].op = "login" => \A r \in Proc : r # p => proc'[r] = Idle
        BY <2>1 DEF Moved, LoginOK
      <4> QED  BY <2>1, <3>2, <4>1 DEF LoginOK
    <3> QED  BY <3>1, <3>2
  <2>3. CASE proc[p].op = "login"
    <3>1. proc[p].pc # "unlink"
      BY <2>1, <2>3 DEF LoginOK
    <3> QED  BY <2>1, <2>2, <2>3, <3>1, LoginLogged
  <2>4. CASE proc[p].op # "login"
    <3>1. note'.wanted => InSession(p)'
      BY <2>1, <2>4 DEF LoggedAs
    <3>2. ~note'.wanted => OutOfSession(p)'
      BY <2>1, <2>4 DEF LoggedAs
    <3> QED  BY <2>1, <2>2, <2>4, <3>1, <3>2, VisitLogged
  <2> QED  BY <2>3, <2>4
<1> QED  BY <1>1, <1>2 DEF CookieInv

LEMMA GrantsSame ==
    ASSUME UNCHANGED <<dir, disk>>, NEW sid
    PROVE  Grants(sid)' <=> Grants(sid)
  BY DEF Grants, Found, Exists

\* There is a name for a new id.
LEMMA NextSid ==
    ASSUME SessionInv', note.sids \in Nat, note'.sids = note.sids + 1
    PROVE  note.sids + 1 \in Name
<1>1. Cardinality(TwoLeft') \in Nat /\ Cardinality(OneLeft') \in Nat
  BY FS_CardinalityType DEF SessionInv, Enough
<1>2. note'.sids <= Sids
  BY <1>1, SidAssumption, BoundAssumption DEF SessionInv, Enough
<1> QED  BY <1>2, SidAssumption

LEMMA CookieSteps ==
    ASSUME Alone, note.users = "browser", SessionInv, SessionInv', CookieInv, NEW p \in Proc, Moved(p),
           SessionStep(p) \/ RaiseInRequest(p) \/ LoseAnswer(p)
    PROVE  CookieInv'
<1>1. DOMAIN note = NoteFields /\ DOMAIN proc = Proc /\ InCall(p)
  BY DEF Alone
<1>2. proc[p].pc # "idle" => DOMAIN proc[p] = CallFields("browser") /\ proc[p] # Idle
  BY <1>1 DEF InCall, Idle
<1>3. /\ FileOfSession(p) /\ Known(p) /\ note.sids \in Nat /\ note.wanted \in BOOLEAN /\ DOMAIN dir = Name
      /\ disk \in Seq([auth : BOOLEAN]) /\ dir \in [Name -> 0..Len(disk)] /\ Len(disk) \in Nat
      /\ ClearedForGood
  BY DEF CookieInv, FilesTyped, SessionInv, Enough
\* A request ends without an answer.
<1>4. CASE RaiseInRequest(p) \/ LoseAnswer(p)
  <2>1. /\ proc[p].pc \in {"controller", "save", "answer"} /\ Return(p) /\ UNCHANGED <<dir, disk, ops, note>>
    BY <1>4 DEF RaiseInRequest, LoseAnswer, Is, CloseSession, diskVars
  <2>2. proc'[p] = Idle
    BY <1>1, <2>1, ReturnMoves
  <2>3. FileOfSession(p)' /\ InSession(p)' /\ OutOfSession(p)' /\ (Clean' => Clean) /\ FileMoves(p)
    BY <2>1, <2>2 DEF FileOfSession, InSession, OutOfSession, Clean, FileMoves
  <2> QED  BY <1>2, <1>3, <2>1, <2>2, <2>3, RequestMoved
<1>5. CASE OpenSession(p) /\ Found(proc[p].sid)
  <2>1. /\ proc[p].pc = "connect" /\ UNCHANGED <<diskVars, ops, note>>
        /\ Step(p, [pc |-> "session", inode |-> dir[proc[p].sid]])
    BY <1>5 DEF OpenSession, Is
  <2>2. /\ proc'[p].pc = "session" /\ proc'[p].inode = dir[proc[p].sid] /\ proc'[p].sid = proc[p].sid
        /\ proc'[p].op = proc[p].op /\ proc'[p].auth = proc[p].auth /\ proc'[p].new = proc[p].new
    BY <1>1, <1>2, <2>1, StepMoves DEF CallFields
  <2>3. proc[p] # Idle /\ ~proc[p].auth /\ ~proc[p].new
    BY <1>2, <1>3, <2>1 DEF FileOfSession, Known
  <2>4. proc[p].sid \in Name /\ dir[proc[p].sid] \in 1..Len(disk)
    <3>1. proc[p].sid \in 1..note.sids
      BY <1>3, <1>5, <2>3 DEF Known, Found, NoSid
    <3>2. proc[p].sid \in Name
      BY <3>1, SidsNamed DEF SessionInv
    <3> QED  BY <1>3, <1>5, <3>2 DEF Found, Exists
  <2>5. \A n \in Name : dir[n] = dir[proc[p].sid] => n = proc[p].sid
    BY <1>5, <2>4 DEF CookieInv, FilesTyped, Found, Exists
  <2>6. FileOfSession(p)'
    BY <1>3, <2>1, <2>2, <2>3, <2>4, <2>5 DEF FileOfSession, diskVars
  <2>7. (InSession(p) => InSession(p)') /\ (Clean' => Clean) /\ FileMoves(p)
    BY <2>1, <2>2, <2>3 DEF InSession, Clean, FileMoves, diskVars
  <2>8. OutOfSession(p) => OutOfSession(p)'
    BY <2>1, <2>2, <2>3, GrantsSame DEF OutOfSession, diskVars
  <2> QED  BY <1>3, <2>1, <2>2, <2>3, <2>6, <2>7, <2>8, RequestMoved
<1>6. CASE OpenSession(p) /\ ~Found(proc[p].sid)
  <2>1. /\ proc[p].pc = "connect" /\ UNCHANGED <<diskVars, ops>>
        /\ Step(p, [pc |-> "controller", sid |-> note.sids + 1, new |-> TRUE])
    BY <1>6 DEF OpenSession, Is
  <2>2. /\ note'.sids = note.sids + 1 /\ note'.cookie = note.cookie /\ note'.cleared = note.cleared
        /\ note'.wanted = note.wanted /\ note'.overlap = note.overlap /\ note'.crossed = note.crossed
    BY <1>1, <1>6 DEF OpenSession, NoteFields
  <2>3. /\ proc'[p].pc = "controller" /\ proc'[p].sid = note.sids + 1 /\ proc'[p].new = TRUE
        /\ proc'[p].op = proc[p].op /\ proc'[p].auth = proc[p].auth
    BY <1>1, <1>2, <2>1, StepMoves DEF CallFields
  <2>4. proc[p] # Idle /\ ~proc[p].auth
    BY <1>2, <1>3, <2>1 DEF FileOfSession
  <2>5. FileOfSession(p)'
    BY <1>3, <2>3, <2>4 DEF FileOfSession
  <2>6. (Clean' => Clean) /\ FileMoves(p)
    BY <2>1, <2>2 DEF Clean, FileMoves, diskVars
  <2>7. ~(InSession(p) /\ Grants(note.cookie) /\ proc[p].op # "login")
    BY <1>6, <2>4 DEF InSession, Grants
  <2>8. \A sid : sid = note.sids + 1 => ~Grants(sid)
    <3>1. \A sid \in Name : Exists(sid) => sid \in 1..note.sids
      BY DEF CookieInv, FilesTyped
    <3>2. note.sids + 1 \in Name
      BY <1>3, <2>2, NextSid
    <3> QED  BY <1>3, <3>1, <3>2 DEF Grants, Found
  <2>9. OutOfSession(p)'
    BY <2>1, <2>3, <2>4, <2>8, GrantsSame DEF OutOfSession, diskVars
  <2> QED  BY <1>3, <2>1, <2>2, <2>3, <2>4, <2>5, <2>6, <2>7, <2>9, RequestMoved
<1>7. CASE LoadSession(p)
  <2>1. /\ proc[p].pc = "session" /\ UNCHANGED <<dir, disk, ops, note>>
        /\ Step(p, [pc |-> "controller", auth |-> disk[proc[p].inode].auth])
    BY <1>7 DEF LoadSession, Is
  <2>2. /\ proc'[p].pc = "controller" /\ proc'[p].auth = disk[proc[p].inode].auth /\ proc'[p].sid = proc[p].sid
        /\ proc'[p].op = proc[p].op /\ proc'[p].new = proc[p].new /\ proc'[p].inode = proc[p].inode
    BY <1>1, <1>2, <2>1, StepMoves DEF CallFields
  <2>3. /\ proc[p] # Idle /\ ~proc[p].new /\ proc[p].inode \in 1..Len(disk)
        /\ dir[proc[p].sid] = proc[p].inode \/ proc[p].sid \in note.cleared
    BY <1>2, <1>3, <2>1 DEF FileOfSession, Known
  <2>4. disk[proc[p].inode].auth \in BOOLEAN
    <3> DEFINE Session == [auth : BOOLEAN]
    <3>1. disk[proc[p].inode] \in Session
      <4>1. disk \in Seq(Session)
        BY <1>3
      <4> HIDE DEF Session
      <4> QED  BY <2>3, <4>1
    <3> QED  BY <3>1
  <2>5. FileOfSession(p)'
    BY <1>3, <2>1, <2>2, <2>3, <2>4 DEF FileOfSession
  <2>6. (Clean' => Clean) /\ FileMoves(p)
    BY <2>1 DEF Clean, FileMoves
  <2>7. dir[proc[p].sid] = proc[p].inode => (Grants(proc[p].sid) <=> proc'[p].auth)
    <3>1. proc[p].sid # NoSid
      BY <1>3, <2>1, <2>3 DEF Known
    <3>2. proc[p].inode # 0
      BY <1>3, <2>3
    <3> QED  BY <2>2, <3>1, <3>2 DEF Grants, Found, Exists
  <2>8. InSession(p) /\ Grants(note.cookie) /\ proc[p].op # "login" => InSession(p)'
    <3>1. Grants(note.cookie) => note.cookie \notin note.cleared
      BY <1>3 DEF ClearedForGood, Grants, Found
    <3> QED  BY <2>1, <2>2, <2>3, <2>7, <3>1 DEF InSession
  <2>9. OutOfSession(p) => OutOfSession(p)'
    <3>1. Grants(proc[p].sid)' <=> Grants(proc[p].sid)
      BY <2>1, <2>2, GrantsSame
    <3> QED  BY <2>1, <2>2, <2>3, <2>7, <3>1 DEF OutOfSession
  <2> QED  BY <1>3, <2>1, <2>2, <2>3, <2>5, <2>6, <2>8, <2>9, RequestMoved
<1>8. CASE Visit(p)
  <2>1. proc[p].pc = "controller" /\ UNCHANGED <<diskVars, ops, note>> /\ proc[p].op = "visit"
    BY <1>8 DEF Visit, Is
  <2>2. PICK b \in BOOLEAN : Step(p, [pc |-> "save", changed |-> b])
    BY <1>8 DEF Visit
  <2>3. /\ proc'[p].pc = "save" /\ proc'[p].sid = proc[p].sid /\ proc'[p].new = proc[p].new
        /\ proc'[p].op = proc[p].op /\ proc'[p].auth = proc[p].auth /\ proc'[p].inode = proc[p].inode
    BY <1>1, <1>2, <2>1, <2>2, StepMoves DEF CallFields
  <2>4. proc[p] # Idle
    BY <1>2, <2>1
  <2>5. FileOfSession(p)'
    BY <1>3, <2>1, <2>3, <2>4 DEF FileOfSession, diskVars
  <2>6. (Clean' => Clean) /\ FileMoves(p) /\ (InSession(p) => InSession(p)')
    BY <2>1, <2>3, <2>4 DEF Clean, FileMoves, diskVars, InSession
  <2>7. OutOfSession(p) => OutOfSession(p)'
    BY <2>1, <2>3, <2>4, GrantsSame DEF OutOfSession, diskVars
  <2> QED  BY <1>3, <2>1, <2>3, <2>4, <2>5, <2>6, <2>7, RequestMoved
<1>9. CASE LogIn(p)
  <2>1. /\ proc[p].pc = "controller" /\ UNCHANGED <<dir, disk, ops>> /\ proc[p].op = "login"
        /\ Step(p, [pc |-> "save", auth |-> TRUE, new |-> TRUE, changed |-> TRUE, sid |-> note.sids + 1])
    BY <1>9 DEF LogIn, Is, CloseSession
  <2>2. /\ note'.sids = note.sids + 1 /\ note'.cookie = note.cookie /\ note'.cleared = note.cleared
        /\ note'.wanted = note.wanted /\ note'.overlap = note.overlap /\ note'.crossed = note.crossed
    BY <1>1, <1>9 DEF LogIn, NoteFields
  <2>3. /\ proc'[p].pc = "save" /\ proc'[p].sid = note.sids + 1 /\ proc'[p].new = TRUE
        /\ proc'[p].op = proc[p].op /\ proc'[p].auth = TRUE /\ proc'[p].changed = TRUE
    BY <1>1, <1>2, <2>1, StepMoves DEF CallFields
  <2>4. proc[p] # Idle /\ FileOfSession(p)' /\ (Clean' => Clean) /\ FileMoves(p)
    BY <1>2, <1>3, <2>1, <2>2, <2>3 DEF FileOfSession, Clean, FileMoves
  <2> QED  BY <1>3, <2>1, <2>2, <2>3, <2>4, RequestMoved
<1>10. CASE ClearSession(p)
  <2>1. /\ proc[p].pc = "controller" /\ UNCHANGED <<dir, disk, ops>> /\ proc[p].op # "login"
        /\ Step(p, [pc |-> "unlink"])
    BY <1>10 DEF ClearSession, Is, CloseSession
  <2>2. /\ note'.sids = note.sids /\ note'.cookie = note.cookie /\ note'.cleared = note.cleared
        /\ note'.wanted = note.wanted /\ (note.overlap => note'.overlap) /\ (note.crossed => note'.crossed)
    BY <1>1, <1>10 DEF ClearSession, NoteFields
  <2>3. /\ proc'[p].pc = "unlink" /\ proc'[p].sid = proc[p].sid /\ proc'[p].new = proc[p].new
        /\ proc'[p].op = proc[p].op /\ proc'[p].auth = proc[p].auth
    BY <1>1, <1>2, <2>1, StepMoves DEF CallFields
  <2>4. proc[p] # Idle /\ FileOfSession(p)' /\ (Clean' => Clean) /\ FileMoves(p) /\ (InSession(p) => InSession(p)')
    BY <1>2, <1>3, <2>1, <2>2, <2>3 DEF FileOfSession, Clean, FileMoves, InSession
  <2>5. OutOfSession(p) => OutOfSession(p)'
    BY <2>1, <2>3, <2>4, GrantsSame DEF OutOfSession
  <2> QED  BY <1>3, <2>1, <2>2, <2>3, <2>4, <2>5, RequestMoved
<1>11. CASE UnlinkSession(p)
  <2>1. /\ proc[p].pc = "unlink" /\ UNCHANGED <<disk, ops>> /\ dir' = [dir EXCEPT ![proc[p].sid] = 0]
    BY <1>11 DEF UnlinkSession, Is, Unlink
  <2>2. PICK b \in BOOLEAN :
           Step(p, [pc |-> "save", auth |-> FALSE, new |-> TRUE, changed |-> b, sid |-> note.sids + 1])
    BY <1>11 DEF UnlinkSession
  <2>3. /\ note'.sids = note.sids + 1 /\ note'.cookie = note.cookie
        /\ note'.cleared = note.cleared \cup {proc[p].sid}
        /\ note'.wanted = FALSE /\ note'.overlap = note.overlap /\ note'.crossed = note.crossed
    BY <1>1, <1>11 DEF UnlinkSession, NoteFields
  <2>4. /\ proc'[p].pc = "save" /\ proc'[p].sid = note.sids + 1 /\ proc'[p].new = TRUE
        /\ proc'[p].op = proc[p].op /\ proc'[p].auth = FALSE
    BY <1>1, <1>2, <2>1, <2>2, StepMoves DEF CallFields
  <2>5. proc[p] # Idle /\ FileOfSession(p)' /\ (Clean' => Clean) /\ FileMoves(p)
    BY <1>2, <1>3, <2>1, <2>3, <2>4 DEF FileOfSession, Clean, FileMoves
  <2>6. OutOfSession(p)'
    <3>1. FilesTyped' /\ note.sids + 1 \in Name
      <4>1. note.sids + 1 \in Name
        BY <1>3, <2>3, NextSid
      <4> QED  BY <2>3, <2>5, <4>1, FilesMove
    <3>2. dir[note.sids + 1] = 0
      BY <1>3, <3>1 DEF CookieInv, FilesTyped, Exists
    <3>3. dir'[note.sids + 1] = 0
      BY <1>3, <2>1, <3>1, <3>2
    <3> QED  BY <2>4, <3>3 DEF OutOfSession, Grants, Found, Exists
  <2>7. LoginOK(p) /\ proc[p].op = "login" => FALSE
    BY <2>1, <2>5 DEF LoginOK
  <2> QED  BY <1>3, <2>1, <2>3, <2>4, <2>5, <2>6, <2>7, RequestMoved
<1>12. CASE StoreSession(p)
  <2>1. proc[p].pc = "save" /\ UNCHANGED <<ops, note>> /\ Step(p, [pc |-> "answer"])
    BY <1>12 DEF StoreSession, Is
  <2>2. /\ proc'[p].pc = "answer" /\ proc'[p].sid = proc[p].sid /\ proc'[p].new = proc[p].new
        /\ proc'[p].op = proc[p].op /\ proc'[p].auth = proc[p].auth
    BY <1>1, <1>2, <2>1, StepMoves DEF CallFields
  <2>3. FileMoves(p)
    BY <1>12, <2>1 DEF StoreSession, CloseSession, FileMoves
  <2>4. proc[p] # Idle /\ FileOfSession(p)' /\ (Clean' => Clean) /\ (InSession(p) => InSession(p)')
    BY <1>2, <1>3, <2>1, <2>2 DEF FileOfSession, Clean, InSession
  <2>5. proc[p].sid \in Name /\ proc[p].sid # NoSid
    BY <2>1, SidNamed
  <2>6. OutOfSession(p) /\ proc[p].op # "login" => OutOfSession(p)'
    <3>1. ASSUME OutOfSession(p), proc[p].op # "login"
          PROVE  ~Grants(proc[p].sid)'
      <4>1. \A sid \in Name \cup {NoSid} : Grants(sid)' => Grants(sid)
        BY <2>3, <3>1, NoneGrants
      <4>2. \A sid : sid = proc[p].sid => ~Grants(sid)'
        BY <2>4, <2>5, <3>1, <4>1 DEF OutOfSession
      <4> QED  BY <2>2, <4>2
    <3> QED  BY <2>2, <3>1 DEF OutOfSession
  <2>7. LoginOK(p) /\ proc[p].op = "login" => Grants(proc[p].sid)'
    <3>1. ASSUME LoginOK(p), proc[p].op = "login"
          PROVE  Grants(proc[p].sid)'
      <4>1. proc[p].auth /\ proc[p].new /\ proc[p].changed
        BY <2>1, <2>4, <3>1 DEF LoginOK
      <4>2. dir' = [dir EXCEPT ![proc[p].sid] = Len(disk) + 1] /\ disk' = Append(disk, [auth |-> proc[p].auth])
        BY <1>12, <4>1 DEF StoreSession
      <4>3. dir'[proc[p].sid] = Len(disk) + 1 /\ Len(disk) + 1 # 0
        BY <1>3, <2>5, <4>2
      <4>4. disk'[Len(disk) + 1] = [auth |-> proc[p].auth]
        <5>1. \A rec : Append(disk, rec)[Len(disk) + 1] = rec
          <6> DEFINE Session == [auth : BOOLEAN]
          <6>1. disk \in Seq(Session)
            BY <1>3
          <6> HIDE DEF Session
          <6> QED  BY <6>1
        <5> QED  BY <4>2, <5>1
      <4> QED  BY <2>2, <2>5, <4>1, <4>3, <4>4 DEF Grants, Found, Exists
    <3> QED  BY <3>1
  <2> QED  BY <1>3, <2>1, <2>2, <2>3, <2>4, <2>6, <2>7, RequestMoved
<1>13. CASE Answer(p)
  <2>1. proc[p].pc = "answer" /\ Return(p) /\ UNCHANGED <<diskVars, ops>>
    BY <1>13 DEF Answer, Is
  <2>2. /\ note'.sids = note.sids /\ note'.cookie = proc[p].sid /\ note'.cleared = note.cleared
        /\ note'.wanted = (note.wanted \/ proc[p].op = "login")
        /\ note'.overlap = note.overlap /\ note'.crossed = note.crossed
    BY <1>1, <1>13 DEF Answer, NoteFields
  <2>3. proc'[p] = Idle /\ proc[p] # Idle
    BY <1>1, <1>2, <2>1, ReturnMoves
  <2>4. FileOfSession(p)' /\ InSession(p)' /\ OutOfSession(p)' /\ (Clean' => Clean) /\ FileMoves(p)
    BY <2>1, <2>2, <2>3 DEF FileOfSession, InSession, OutOfSession, Clean, FileMoves, diskVars
  <2>5. CASE proc[p].op # "login"
    BY <1>3, <2>1, <2>2, <2>3, <2>4, <2>5, RequestMoved
  <2>6. CASE proc[p].op = "login"
    <3>1. FilesTyped' /\ \A q \in Proc : FileOfSession(q)'
      BY <1>3, <2>2, <2>4, FilesMove
    <3>2. ASSUME Clean
          PROVE  LoggedAs' /\ \A q \in Proc : LoginOK(q)'
      <4>1. LoginOK(p)
        BY <3>2 DEF CookieInv
      <4>2. Grants(proc[p].sid) /\ \A q \in Proc : proc'[q] = Idle
        BY <2>1, <2>3, <2>6, <4>1 DEF LoginOK, Moved
      <4>3. \A sid : Grants(sid)' <=> Grants(sid)
        BY <2>1, GrantsSame DEF diskVars
      <4>4. note'.wanted /\ Grants(note.cookie)'
        BY <2>2, <2>6, <4>2, <4>3
      <4> QED  BY <4>2, <4>4 DEF LoggedAs, LoginOK, InSession
    <3> QED  BY <2>4, <3>1, <3>2 DEF CookieInv
  <2> QED  BY <2>5, <2>6
<1> QED  BY <1>4, <1>5, <1>6, <1>7, <1>8, <1>9, <1>10, <1>11, <1>12, <1>13 DEF SessionStep

\* A request is sent: a login, where the properties promise something, when no other is under way.
LEMMA CookieSend ==
    ASSUME Alone, SessionInv, CookieInv, NEW p \in Proc, Moved(p), Send(p)
    PROVE  CookieInv'
<1>1. PICK op \in {"visit"} \cup Changes :
        /\ Call(p, Requesting(op))
        /\ note' = [note EXCEPT
              !.overlap = @ \/ Busy(p, IF op = "visit" THEN Changes ELSE {"visit"} \cup Changes),
              !.crossed = @ \/ Busy(p, {"login"}) \/ (op = "login" /\ (note.wanted \/ Others(p) # {}))]
  BY DEF Send
<1>2. DOMAIN note = NoteFields /\ DOMAIN proc = Proc
  BY DEF Alone
<1>3. /\ note'.sids = note.sids /\ note'.cleared = note.cleared /\ note'.cookie = note.cookie
      /\ note'.wanted = note.wanted
      /\ note'.overlap = (note.overlap \/ Busy(p, IF op = "visit" THEN Changes ELSE {"visit"} \cup Changes))
      /\ note'.crossed = (note.crossed \/ Busy(p, {"login"}) \/ (op = "login" /\ (note.wanted \/ Others(p) # {})))
  BY <1>1, <1>2 DEF NoteFields
<1>4. proc'[p] = Requesting(op) /\ UNCHANGED <<dir, disk>> /\ proc[p] = Idle
  <2>1. proc[p].pc = "idle"
    BY <1>1 DEF Call, Is
  <2> QED  BY <1>1, <1>2, <2>1, CallMoves DEF Call, diskVars, Alone, InCall, Places, Kinds
<1>5. /\ proc'[p].pc = "connect" /\ proc'[p].op = op /\ proc'[p].sid = note.cookie
      /\ proc'[p].auth = FALSE /\ proc'[p].new = FALSE
  BY <1>4 DEF Requesting
<1>6. FilesTyped' /\ \A q \in Proc : FileOfSession(q)'
  <2>1. note.wanted \in BOOLEAN /\ FileMoves(p)
    BY <1>4 DEF CookieInv, FilesTyped, FileMoves
  <2>2. FileOfSession(p)'
    BY <1>5 DEF FileOfSession
  <2> QED  BY <1>3, <2>1, <2>2, FilesMove
<1>7. ASSUME Clean'
      PROVE  LoggedAs' /\ \A q \in Proc : LoginOK(q)'
  <2>1. Clean /\ LoggedAs /\ \A q \in Proc : LoginOK(q)
    BY <1>3, <1>7 DEF Clean, CookieInv
  <2>2. ASSUME NEW q \in Proc, q # p, proc[q] # Idle
        PROVE  proc[q].op # "login" /\ op # "login"
    <3>1. q \in Others(p) /\ proc[q].op \in {"visit", "login", "logout"}
      <4>1. proc[q].pc # "idle" /\ FileOfSession(q)
        BY <2>2 DEF Alone, InCall, Places, Kinds, CookieInv
      <4> QED  BY <2>2, <4>1 DEF Others, Is, FileOfSession, Changes
    <3>2. CASE proc[q].op = "login"
      <4>1. Busy(p, {"login"}) /\ Busy(p, Changes) /\ Busy(p, {"visit"} \cup Changes)
        BY <3>1, <3>2 DEF Busy, Changes
      <4> QED  BY <1>3, <1>7, <4>1 DEF Clean
    <3>3. CASE op = "login"
      <4>1. Busy(p, {"visit"} \cup Changes)
        BY <3>1 DEF Busy, Changes
      <4> QED  BY <1>3, <1>7, <3>1, <3>3, <4>1 DEF Clean
    <3> QED  BY <3>2, <3>3
  <2>3. \A q \in Proc : q # p => proc'[q] = proc[q]
    BY DEF Moved
  <2>4. \A q \in Proc : LoginOK(q)'
    <3>1. LoginOK(p)'
      BY <1>5, <2>2, <2>3 DEF LoginOK
    <3>2. ASSUME NEW q \in Proc, q # p PROVE LoginOK(q)'
      BY <2>2, <2>3, <3>2 DEF LoginOK
    <3> QED  BY <3>1, <3>2
  <2>5. \A sid : Grants(sid)' <=> Grants(sid)
    BY <1>4, GrantsSame
  <2>6. (Grants(note.cookie)' <=> Grants(note.cookie)) /\ (Grants(proc[p].sid)' <=> Grants(note.cookie))
    BY <1>3, <1>5, <2>5
  <2>7. ASSUME note.wanted, NEW q \in Proc PROVE InSession(q)'
    <3>1. CASE q = p
      BY <1>3, <1>5, <3>1 DEF InSession
    <3>2. CASE q # p
      BY <1>3, <2>1, <2>3, <2>7, <3>2 DEF InSession, LoggedAs
    <3> QED  BY <3>1, <3>2
  <2>8. ASSUME ~note.wanted, NEW q \in Proc PROVE OutOfSession(q)'
    <3>1. CASE q = p
      BY <1>5, <2>1, <2>6, <2>8, <3>1 DEF OutOfSession, LoggedAs
    <3>2. CASE q # p
      BY <1>3, <2>1, <2>3, <2>5, <2>8, <3>2 DEF OutOfSession, LoggedAs
    <3> QED  BY <3>1, <3>2
  <2> QED  BY <1>3, <2>1, <2>4, <2>6, <2>7, <2>8 DEF LoggedAs
<1> QED  BY <1>6, <1>7 DEF CookieInv

-----------------------------------------------------------------------------

CookieKept ==
    \/ note.users = "browser" /\ CookieInv
    \/ note.users # "browser" /\ note.cookie = NoSid /\ ~note.wanted

LEMMA CookieStays ==
    ASSUME Alone, SessionKept, SessionKept', CookieKept, [FilesNext]_fileVars
    PROVE  CookieKept'
<1>1. CASE UNCHANGED fileVars
  <2>1. CookieInv => CookieInv'
    BY <1>1 DEF fileVars, diskVars, CookieInv, FilesTyped, FileOfSession, LoginOK, InSession, OutOfSession, Clean,
                LoggedAs, Grants, Found, Exists
  <2> QED  BY <1>1, <2>1 DEF CookieKept, fileVars
<1>2. CASE FilesNext
  <2>1. note'.users = note.users
    BY <1>2, UsersStay
  <2>2. CASE note.users = "browser"
    <3>1. PICK p \in Proc : Send(p) \/ SessionStep(p) \/ RaiseInRequest(p) \/ LoseAnswer(p)
      BY <1>2, <2>2, KindsApart DEF BrowserNext
    <3>2. SessionInv /\ SessionInv' /\ CookieInv /\ Moved(p)
      BY <2>1, <2>2, <3>1, BrowserMoves DEF SessionKept, CookieKept
    <3>3. CookieInv'
      BY <2>2, <3>1, <3>2, CookieSend, CookieSteps
    <3> QED  BY <2>1, <2>2, <3>3 DEF CookieKept
  <2>3. CASE note.users # "browser"
    <3>1. note'.cookie = note.cookie /\ note'.wanted = note.wanted
      BY <1>2, <2>3, KindsApart, BrowserStays
    <3> QED  BY <2>1, <2>3, <3>1 DEF CookieKept
  <2> QED  BY <2>2, <2>3
<1> QED  BY <1>1, <1>2

LEMMA AlwaysCookie == FilesSpec => [](CookieKept /\ SessionKept)
<1>1. FilesInit => CookieKept
  <2> SUFFICES ASSUME FilesInit PROVE CookieKept
    OBVIOUS
  <2>1. PICK users \in Kinds : note = FreshNote(users)
    BY DEF FilesInit, Kinds
  <2>2. /\ note.cookie = NoSid /\ note.wanted = FALSE
        /\ dir = [n \in Name |-> 0] /\ disk = <<>> /\ \A p \in Proc : proc[p] = Idle
    BY <2>1 DEF FilesInit, FreshNote
  <2>3. FilesTyped
    <3>1. disk \in Seq([auth : BOOLEAN]) /\ Len(disk) = 0 /\ dir \in [Name -> 0..Len(disk)]
      BY <2>2
    <3> QED  BY <2>2, <3>1 DEF FilesTyped, Exists
  <2>4. CookieInv
    BY <2>2, <2>3 DEF CookieInv, FileOfSession, LoginOK, LoggedAs, OutOfSession, Grants, Found
  <2> QED  BY <2>2, <2>4 DEF CookieKept
<1>2. Alone /\ SessionKept /\ SessionKept' /\ CookieKept /\ [FilesNext]_fileVars => CookieKept'
  BY CookieStays
<1> QED  BY <1>1, <1>2, AlwaysSession, AlwaysAlone, PTL DEF FilesSpec

\* A browser is logged in exactly when its last login came through and nothing ended it since,
\* if no request was under way with another that changed the session's id (Session.renew and
\* clear, Auth.login_user and logout, the cookie that wsgibase sets).
THEOREM LoginsLast == FilesSpec => []LoginLasts
<1>1. SessionKept /\ CookieKept => LoginLasts
  BY DEF CookieKept, CookieInv, Clean, LoggedAs, Grants, LoginLasts, IsLoggedIn, Found, Holds
<1> QED  BY <1>1, AlwaysCookie, PTL

\* Late answers undo no logout: once a session was cleared, the browser stays logged out until
\* it logs in again, although requests that were under way with the logout still run as the user
\* and store their session (Session.renew and clear, _try_store_in_file).
THEOREM LogoutsLast == FilesSpec => []LogoutLasts
<1>1. SessionKept /\ CookieKept => LogoutLasts
  BY DEF CookieKept, CookieInv, Clean, LoggedAs, Grants, LogoutLasts, IsLoggedIn, Found, Holds
<1> QED  BY <1>1, AlwaysCookie, PTL

=============================================================================
