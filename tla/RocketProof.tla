----------------------------- MODULE RocketProof ----------------------------
(***************************************************************************)
(* That the threads of Rocket neither share nor forget a connection, for   *)
(* any number of connections and threads, while the pool grows and shrinks *)
(* and Rocket.stop comes at any point.                                     *)
(***************************************************************************)
EXTENDS Rocket, FiniteSetTheorems, FunctionTheorems, TLAPS

Item == Conn \cup {Die}

\* The types that the argument needs.
RocketTypes ==
    /\ sock \in [Conn -> {"new", "open", "closed", "left"}]
    /\ active \in Seq(Item)
    /\ waiting \in Seq(Item)
    /\ watched \subseteq Conn
    /\ worker \in [Thread -> {"none", "idle", "serving", "dying", "dead"}]
    /\ work \in [Thread -> Conn \cup {NoConn}]
    /\ \A t \in Thread : worker[t] = "serving" <=> work[t] # NoConn
    /\ readable \subseteq Conn
    /\ restoring \in Conn \cup {NoConn}
    /\ monitor = "remove" <=> restoring # NoConn

Once(c, queue) == \A i, j \in Queued(c, queue) : i = j
In(c, queue) == Queued(c, queue) # {}
Serving(c) == \E t \in Thread : work[t] = c
OneServer(c) == \A t, u \in Thread : work[t] = c /\ work[u] = c => t = u

\* In the hands of a worker, or on the way to one or to the monitor.
Afoot(c) == In(c, active) \/ In(c, waiting) \/ Serving(c)

\* The invariant for one connection.
Placed(c) ==
    /\ Once(c, active)
    /\ Once(c, waiting)
    /\ OneServer(c)
    /\ ~(In(c, active) /\ In(c, waiting))
    /\ Serving(c) => ~In(c, active) /\ ~In(c, waiting)
    /\ c \in watched /\ c # restoring => ~Afoot(c)
    /\ sock[c] = "new" => ~Afoot(c) /\ c \notin watched /\ c \notin readable /\ c # restoring
    /\ c \in readable => ~Afoot(c)
    /\ sock[c] = "open" /\ c = restoring => Afoot(c)
    /\ sock[c] = "open" => Afoot(c) \/ c \in watched

RocketInv == RocketTypes /\ \A c \in Conn : Placed(c)

-----------------------------------------------------------------------------
(* Queues. *)

\* put appends one occurrence (Queue.put).
LEMMA PutQueued ==
    ASSUME NEW q \in Seq(Item), NEW x \in Item, NEW c
    PROVE  /\ In(c, Append(q, x)) <=> In(c, q) \/ x = c
           /\ Once(c, q) /\ ~(In(c, q) /\ x = c) => Once(c, Append(q, x))
<1> DEFINE r == Append(q, x)
<1>1. /\ Len(r) = Len(q) + 1
      /\ \A i \in 1..Len(q) : r[i] = q[i]
      /\ r[Len(q) + 1] = x
      /\ DOMAIN r = 1..(Len(q) + 1) /\ DOMAIN q = 1..Len(q) /\ Len(q) \in Nat
  OBVIOUS
<1> HIDE DEF r
<1>2. \A i : i \in Queued(c, r) <=> i \in Queued(c, q) \/ (i = Len(q) + 1 /\ x = c)
  <2> SUFFICES ASSUME NEW i
               PROVE  i \in Queued(c, r) <=> i \in Queued(c, q) \/ (i = Len(q) + 1 /\ x = c)
    OBVIOUS
  <2>1. i \in DOMAIN r <=> i \in DOMAIN q \/ i = Len(q) + 1
    BY <1>1
  <2>2. Len(q) + 1 \notin DOMAIN q
    BY <1>1
  <2> QED  BY <1>1, <2>1, <2>2 DEF Queued
<1>3. In(c, r) <=> In(c, q) \/ x = c
  BY <1>2 DEF In
<1>4. Once(c, q) /\ ~(In(c, q) /\ x = c) => Once(c, r)
  BY <1>2 DEF In, Once
<1> QED  BY <1>3, <1>4 DEF r

\* get takes the first one away (Queue.get).
LEMMA GotQueued ==
    ASSUME NEW q \in Seq(Item), q # <<>>, NEW c
    PROVE  /\ Head(q) \in Item /\ Tail(q) \in Seq(Item)
           /\ In(c, q) <=> In(c, Tail(q)) \/ Head(q) = c
           /\ Once(c, q) => Once(c, Tail(q)) /\ ~(In(c, Tail(q)) /\ Head(q) = c)
<1> DEFINE r == Tail(q)
<1>1. /\ Head(q) = q[1] /\ q[1] \in Item /\ r \in Seq(Item)
      /\ Len(q) \in Nat /\ Len(q) > 0 /\ Len(r) = Len(q) - 1
      /\ DOMAIN r = 1..(Len(q) - 1) /\ DOMAIN q = 1..Len(q)
      /\ \A i \in 1..(Len(q) - 1) : r[i] = q[i + 1]
  OBVIOUS
<1> HIDE DEF r
<1>2. \A i \in Queued(c, r) : i \in Nat /\ i >= 1 /\ i + 1 \in Queued(c, q)
  BY <1>1 DEF Queued
<1>3. \A i \in Queued(c, q) : i \in Nat /\ (i = 1 \/ i - 1 \in Queued(c, r))
  <2> SUFFICES ASSUME NEW i \in Queued(c, q), i # 1
               PROVE  i \in Nat /\ i - 1 \in Queued(c, r)
    BY <1>1 DEF Queued
  <2>1. i \in 1..Len(q) /\ q[i] = c
    BY <1>1 DEF Queued
  <2>2. i - 1 \in 1..(Len(q) - 1) /\ (i - 1) + 1 = i
    BY <1>1, <2>1
  <2>3. r[i - 1] = c
    BY <1>1, <2>1, <2>2
  <2> QED  BY <1>1, <2>1, <2>2, <2>3 DEF Queued
<1>4. 1 \in Queued(c, q) <=> Head(q) = c
  BY <1>1 DEF Queued
<1>5. In(c, q) <=> In(c, r) \/ Head(q) = c
  BY <1>2, <1>3, <1>4 DEF In
<1>6. ASSUME Once(c, q)
      PROVE  Once(c, r) /\ ~(In(c, r) /\ Head(q) = c)
  <2>1. Once(c, r)
    <3> SUFFICES ASSUME NEW i \in Queued(c, r), NEW j \in Queued(c, r)
                 PROVE  i = j
      BY DEF Once
    <3>1. i + 1 = j + 1
      BY <1>2, <1>6 DEF Once
    <3> QED  BY <1>2, <3>1
  <2>2. ASSUME In(c, r), Head(q) = c
        PROVE  FALSE
    <3>1. PICK i \in Queued(c, r) : TRUE
      BY <2>2 DEF In
    <3>2. i + 1 = 1
      BY <1>2, <1>4, <1>6, <2>2 DEF Once
    <3> QED  BY <1>2, <3>1, <3>2
  <2> QED  BY <2>1, <2>2
<1> QED  BY <1>1, <1>5, <1>6 DEF r

\* Death threats are no connections (ThreadPool.stop).
LEMMA ThreatsQueued ==
    ASSUME NEW q \in Seq(Item), NEW n \in Nat, NEW c \in Conn
    PROVE  LET r == q \o [i \in 1..n |-> Die]
           IN  /\ r \in Seq(Item)
               /\ In(c, r) <=> In(c, q)
               /\ Once(c, q) => Once(c, r)
<1> DEFINE d == [i \in 1..n |-> Die]
           r == q \o d
<1>1. d \in Seq(Item) /\ Len(d) = n /\ \A i \in 1..n : d[i] = Die
  <2>1. \A i \in 1..n : Die \in Item
    BY DEF Item
  <2>2. d \in [1..n -> Item]
    BY <2>1
  <2>3. d \in Seq(Item)
    BY <2>2
  <2>4. DOMAIN d = 1..n
    OBVIOUS
  <2> QED  BY <2>3, <2>4
<1> HIDE DEF d
<1>2. /\ r \in Seq(Item) /\ Len(q) \in Nat
      /\ DOMAIN r = 1..(Len(q) + n) /\ DOMAIN q = 1..Len(q)
      /\ \A i \in 1..(Len(q) + n) : r[i] = IF i <= Len(q) THEN q[i] ELSE d[i - Len(q)]
  BY <1>1
<1> HIDE DEF r
<1>3. \A i : i \in Queued(c, r) <=> i \in Queued(c, q)
  <2> SUFFICES ASSUME NEW i
               PROVE  i \in Queued(c, r) <=> i \in Queued(c, q)
    OBVIOUS
  <2>1. Die # c
    BY ConnAssumption
  <2>2. ASSUME i \in 1..(Len(q) + n), ~(i <= Len(q))
        PROVE  r[i] = Die
    <3>1. i - Len(q) \in 1..n
      BY <1>2, <2>2
    <3> QED  BY <1>1, <1>2, <2>2, <3>1
  <2>3. \A k \in 1..Len(q) : k \in 1..(Len(q) + n) /\ r[k] = q[k]
    BY <1>2
  <2>4. \A k \in 1..(Len(q) + n) : k <= Len(q) => k \in 1..Len(q)
    BY <1>2
  <2> QED  BY <1>2, <2>1, <2>2, <2>3, <2>4 DEF Queued
<1> QED  BY <1>2, <1>3 DEF In, Once, r, d


-----------------------------------------------------------------------------
(* The steps of the listener and the workers. *)

\* At the start nothing is anywhere.
LEMMA InitPlaced == RocketInit => RocketInv
<1> SUFFICES ASSUME RocketInit PROVE RocketInv
  OBVIOUS
<1>1. RocketTypes
  BY ConnAssumption DEF RocketInit, RocketTypes, Item
<1>2. ASSUME NEW c \in Conn PROVE Placed(c)
  <2>1. Queued(c, <<>>) = {}
    BY DEF Queued
  <2>2. ~In(c, active) /\ ~In(c, waiting) /\ Once(c, active) /\ Once(c, waiting)
    BY <2>1 DEF RocketInit, In, Once
  <2>3. ~Serving(c) /\ OneServer(c)
    BY ConnAssumption DEF RocketInit, Serving, OneServer
  <2>4. sock[c] = "new" /\ watched = {} /\ readable = {} /\ c # restoring
    BY ConnAssumption DEF RocketInit
  <2> QED  BY <2>2, <2>3, <2>4 DEF Placed, Afoot
<1> QED  BY <1>1, <1>2 DEF RocketInv

\* Steps that move no connection.
LEMMA Unmoved ==
    ASSUME RocketInv, RocketTypes', UNCHANGED <<connVars, work, readable, restoring>>
    PROVE  RocketInv'
BY DEF RocketInv, connVars, Placed, Once, In, Queued, Afoot, Serving, OneServer

\* A new connection is nowhere before it is queued.
LEMMA AcceptPlaces ==
    ASSUME RocketInv, NEW a \in Conn, Accept(a)
    PROVE  RocketInv'
<1>1. a \in Item
  BY DEF Item
<1>2. RocketTypes'
  BY <1>1 DEF RocketInv, RocketTypes, Accept, poolVars, monitorVars, stopVars
<1>3. ASSUME NEW c \in Conn PROVE Placed(c)'
  <2>1. /\ In(c, active') <=> In(c, active) \/ a = c
        /\ Once(c, active) /\ ~(In(c, active) /\ a = c) => Once(c, active')
    BY <1>1, PutQueued DEF RocketInv, RocketTypes, Accept
  <2>2. Placed(c) /\ Placed(a)
    BY DEF RocketInv
  <2>3. Serving(c)' = Serving(c) /\ OneServer(c)' = OneServer(c)
    BY DEF Accept, poolVars, Serving, OneServer
  <2>4. /\ sock[a] = "new" /\ sock'[c] = IF c = a THEN "open" ELSE sock[c]
        /\ UNCHANGED <<waiting, watched, readable, restoring>>
    BY DEF RocketInv, RocketTypes, Accept, monitorVars
  <2> QED  BY <2>1, <2>2, <2>3, <2>4 DEF Placed, Afoot
<1> QED  BY <1>2, <1>3 DEF RocketInv

\* What a worker takes is its own from then on.
LEMMA TakePlaces ==
    ASSUME RocketInv, NEW t \in Thread, TakeConnection(t)
    PROVE  RocketInv'
<1> DEFINE a == Head(active)
<1>1. /\ a \in Conn /\ a # Die /\ a # NoConn /\ work[t] = NoConn
      /\ active \in Seq(Item) /\ active # <<>> /\ active' = Tail(active) /\ active' \in Seq(Item)
  BY GotQueued, ConnAssumption DEF RocketInv, RocketTypes, TakeConnection, Item
<1>2. work' = [work EXCEPT ![t] = a] /\ worker' = [worker EXCEPT ![t] = "serving"]
  BY DEF TakeConnection
<1>3. UNCHANGED <<sock, waiting, watched, readable, restoring, monitor>>
  BY DEF TakeConnection, monitorVars
<1> HIDE DEF a
<1>4. RocketTypes'
  BY <1>1, <1>2, <1>3 DEF RocketInv, RocketTypes
<1>5. ASSUME NEW c \in Conn PROVE Placed(c)'
  <2>1. /\ In(c, active) <=> In(c, active') \/ a = c
        /\ Once(c, active) => Once(c, active') /\ ~(In(c, active') /\ a = c)
    BY <1>1, GotQueued DEF a
  <2>2. Placed(c)
    BY DEF RocketInv
  <2>3. work \in [Thread -> Conn \cup {NoConn}]
    BY DEF RocketInv, RocketTypes
  <2>4. Serving(c)' <=> Serving(c) \/ c = a
    BY <1>1, <1>2, <2>3, ConnAssumption DEF Serving
  <2>5. c = a => ~Serving(c)
    BY <2>1, <2>2 DEF Placed
  <2>6. OneServer(c)'
    BY <1>1, <1>2, <2>2, <2>3, <2>5, ConnAssumption DEF Placed, Serving, OneServer
  <2> QED  BY <1>3, <2>1, <2>2, <2>4, <2>6 DEF Placed, Afoot
<1> QED  BY <1>4, <1>5 DEF RocketInv

LEMMA ThreatPlaces ==
    ASSUME RocketInv, NEW t \in Thread, TakeThreat(t)
    PROVE  RocketInv'
<1>1. /\ active \in Seq(Item) /\ active # <<>> /\ Head(active) = Die
      /\ active' = Tail(active) /\ active' \in Seq(Item)
  BY GotQueued DEF RocketInv, RocketTypes, TakeThreat
<1>2. UNCHANGED <<sock, waiting, watched, work, readable, restoring, monitor>>
  BY DEF TakeThreat, monitorVars
<1>3. RocketTypes'
  BY <1>1, <1>2 DEF RocketInv, RocketTypes, TakeThreat
<1>4. ASSUME NEW c \in Conn PROVE Placed(c)'
  <2>1. c # Die
    BY ConnAssumption
  <2>2. (In(c, active) <=> In(c, active')) /\ (Once(c, active) => Once(c, active'))
    BY <1>1, <2>1, GotQueued
  <2>3. Placed(c) /\ (Serving(c)' <=> Serving(c)) /\ (OneServer(c)' <=> OneServer(c))
    BY <1>2 DEF RocketInv, Serving, OneServer
  <2> QED  BY <1>2, <2>2, <2>3 DEF Placed, Afoot
<1> QED  BY <1>3, <1>4 DEF RocketInv

\* A worker that is done with its connection has closed it, left it or handed it over; if the
\* connection is closed or left, it need not be anywhere.
LEMMA ServePlaces ==
    ASSUME RocketInv, NEW t \in Thread, ServeLast(t) \/ ServeTimeout(t) \/ ServeBadRequest(t)
    PROVE  RocketInv'
<1>1. PICK a \in Conn : work[t] = a /\ a \in Item /\ a # NoConn
  BY ConnAssumption DEF RocketInv, RocketTypes, ServeLast, ServeTimeout, ServeBadRequest, Item
<1>2. /\ work' = [work EXCEPT ![t] = NoConn] /\ worker' = [worker EXCEPT ![t] = "idle"]
      /\ UNCHANGED <<active, watched, readable, restoring, monitor>>
  BY DEF ServeLast, ServeTimeout, ServeBadRequest, Rests, monitorVars
<1>3. \/ \E how \in {"closed", "left"} : sock' = [sock EXCEPT ![a] = how] /\ waiting' = waiting
      \/ sock[a] = "open" /\ sock' = sock /\ waiting' = Append(waiting, a)
  BY <1>1 DEF ServeLast, ServeTimeout, ServeBadRequest, Rests, Close
<1>4. /\ work \in [Thread -> Conn \cup {NoConn}] /\ waiting \in Seq(Item)
      /\ sock \in [Conn -> {"new", "open", "closed", "left"}]
  BY DEF RocketInv, RocketTypes
<1>5. RocketTypes'
  <2>1. waiting' \in Seq(Item) /\ sock' \in [Conn -> {"new", "open", "closed", "left"}]
    BY <1>1, <1>3, <1>4
  <2> QED  BY <1>1, <1>2, <2>1 DEF RocketInv, RocketTypes
<1>6. ASSUME NEW c \in Conn PROVE Placed(c)'
  <2>1. Placed(c) /\ Placed(a) /\ Serving(a)
    BY <1>1 DEF RocketInv, Serving
  <2>2. ~Serving(a)' /\ OneServer(c)' /\ (c # a => (Serving(c)' <=> Serving(c)))
    BY <1>1, <1>2, <1>4, <2>1, ConnAssumption DEF Placed, Serving, OneServer
  <2>3. CASE \E how \in {"closed", "left"} : sock' = [sock EXCEPT ![a] = how] /\ waiting' = waiting
    <3>1. PICK how \in {"closed", "left"} : sock' = [sock EXCEPT ![a] = how]
      BY <2>3
    <3>2. sock'[c] = IF c = a THEN how ELSE sock[c]
      BY <1>4, <3>1
    <3> QED  BY <1>2, <2>1, <2>2, <2>3, <3>2 DEF Placed, Afoot
  <2>4. CASE sock[a] = "open" /\ sock' = sock /\ waiting' = Append(waiting, a)
    <3>1. /\ In(c, waiting') <=> In(c, waiting) \/ a = c
          /\ Once(c, waiting) /\ ~(In(c, waiting) /\ a = c) => Once(c, waiting')
      BY <1>1, <1>4, <2>4, PutQueued
    <3> QED  BY <1>2, <2>1, <2>2, <2>4, <3>1 DEF Placed, Afoot
  <2> QED  BY <1>3, <2>3, <2>4
<1> QED  BY <1>5, <1>6 DEF RocketInv


-----------------------------------------------------------------------------
(* The steps of the monitor and of Rocket.stop. *)

\* What the monitor takes from its queue is nowhere else, and is watched from then on.
LEMMA GetPlaces ==
    ASSUME RocketInv, MonitorGet
    PROVE  RocketInv'
<1>1. /\ waiting \in Seq(Item) /\ waiting # <<>> /\ waiting' = Tail(waiting)
      /\ waiting' \in Seq(Item)
  BY GotQueued DEF RocketInv, RocketTypes, MonitorGet
<1>2. PICK a \in Conn : a = Head(waiting)
  BY <1>1, GotQueued DEF MonitorGet, Item
<1>3. /\ watched' = watched \cup {a} /\ monitor = "get" /\ monitor' = "receive"
      /\ UNCHANGED <<sock, active, work, worker, readable, restoring>>
  BY <1>2 DEF MonitorGet, poolVars
<1>4. RocketTypes' /\ restoring = NoConn
  BY <1>1, <1>2, <1>3 DEF RocketInv, RocketTypes
<1>5. ASSUME NEW c \in Conn PROVE Placed(c)'
  <2>1. /\ In(c, waiting) <=> In(c, waiting') \/ a = c
        /\ Once(c, waiting) => Once(c, waiting') /\ ~(In(c, waiting') /\ a = c)
    BY <1>1, <1>2, GotQueued
  <2>2. Placed(c) /\ (Serving(c)' <=> Serving(c)) /\ (OneServer(c)' <=> OneServer(c))
    BY <1>3 DEF RocketInv, Serving, OneServer
  <2>3. c # restoring
    BY <1>4, ConnAssumption
  <2> QED  BY <1>3, <2>1, <2>2, <2>3 DEF Placed, Afoot
<1> QED  BY <1>4, <1>5 DEF RocketInv

\* Steps that close some connections, empty or shorten monitor_queue and watch less, but keep
\* all that they do not close.
LEMMA ClosePlaces ==
    ASSUME RocketInv, RocketTypes', restoring' = NoConn \/ restoring' = restoring,
           UNCHANGED <<active, work, readable>>,
           watched' \subseteq watched, restoring \notin watched' \/ restoring' = restoring,
           \A c \in Conn :
               /\ sock'[c] \in {sock[c], "closed"}
               /\ In(c, waiting') => In(c, waiting)
               /\ Once(c, waiting) => Once(c, waiting')
               /\ sock'[c] # "closed" => /\ In(c, waiting) => In(c, waiting')
                                         /\ c \in watched => c \in watched' \/ c = restoring
    PROVE  RocketInv'
<1> SUFFICES ASSUME NEW c \in Conn PROVE Placed(c)'
  BY DEF RocketInv
<1>1. Placed(c) /\ (Serving(c)' <=> Serving(c)) /\ (OneServer(c)' <=> OneServer(c))
  BY DEF RocketInv, Serving, OneServer
<1>2. c # NoConn
  BY ConnAssumption
<1> QED  BY <1>1, <1>2 DEF Placed, Afoot

LEMMA ThreatenedPlaces ==
    ASSUME RocketInv, MonitorThreatened
    PROVE  RocketInv'
<1>1. /\ sock' = [c \in Conn |->
                    IF c \in watched \/ \E i \in DOMAIN waiting : waiting[i] = c
                    THEN "closed" ELSE sock[c]]
      /\ waiting' = <<Die>> /\ watched' = {} /\ monitor = "get" /\ monitor' = "dead"
      /\ UNCHANGED <<active, work, worker, readable, restoring>>
  BY DEF MonitorThreatened, poolVars
<1>2. waiting' \in Seq(Item)
  BY <1>1 DEF Item
<1>3. RocketTypes'
  BY <1>1, <1>2 DEF RocketInv, RocketTypes
<1>4. ASSUME NEW c \in Conn
      PROVE  ~In(c, waiting') /\ Once(c, waiting')
  <2>1. c # Die
    BY ConnAssumption
  <2>2. Queued(c, <<Die>>) = {}
    BY <2>1 DEF Queued
  <2> QED  BY <1>1, <2>2 DEF In, Once
<1>5. \A c \in Conn : sock'[c] \in {sock[c], "closed"}
  BY <1>1
<1>6. \A c \in Conn : sock'[c] # "closed" => c \notin watched /\ ~In(c, waiting)
  BY <1>1 DEF In, Queued
<1>7. watched' \subseteq watched /\ restoring' = restoring
  BY <1>1
<1> QED  BY <1>1, <1>3, <1>4, <1>5, <1>6, <1>7, ClosePlaces

LEMMA SelectPlaces ==
    ASSUME RocketInv, MonitorSelect
    PROVE  RocketInv'
<1>1. /\ readable' \subseteq watched \/ readable' = readable
      /\ monitor = "select" /\ monitor' # "remove"
      /\ UNCHANGED <<connVars, worker, work, restoring>>
  BY DEF MonitorSelect, poolVars
<1>2. RocketTypes' /\ restoring = NoConn
  BY <1>1 DEF RocketInv, RocketTypes, connVars
<1>3. ASSUME NEW c \in Conn PROVE Placed(c)'
  <2>1. Placed(c) /\ (Serving(c)' <=> Serving(c)) /\ (OneServer(c)' <=> OneServer(c))
    BY <1>1 DEF RocketInv, Serving, OneServer
  <2>2. c # restoring
    BY <1>2, ConnAssumption
  <2> QED  BY <1>1, <2>1, <2>2 DEF Placed, Afoot, connVars
<1> QED  BY <1>2, <1>3 DEF RocketInv

\* What was readable is nowhere but watched when it is put back.
LEMMA RestorePlaces ==
    ASSUME RocketInv, MonitorRestore
    PROVE  RocketInv'
<1>1. PICK r \in readable : /\ active' = Append(active, r)
                            /\ readable' = readable \ {r}
                            /\ restoring' = r
  BY DEF MonitorRestore
<1>2. /\ monitor = "restore" /\ monitor' = "remove"
      /\ UNCHANGED <<sock, waiting, watched, worker, work>>
  BY DEF MonitorRestore, poolVars
<1>3. r \in Conn /\ r \in Item /\ r # NoConn /\ active \in Seq(Item) /\ restoring = NoConn
  BY <1>2, ConnAssumption DEF RocketInv, RocketTypes, Item
<1>4. RocketTypes'
  BY <1>1, <1>2, <1>3 DEF RocketInv, RocketTypes
<1>5. ASSUME NEW c \in Conn PROVE Placed(c)'
  <2>1. /\ In(c, active') <=> In(c, active) \/ r = c
        /\ Once(c, active) /\ ~(In(c, active) /\ r = c) => Once(c, active')
    BY <1>1, <1>3, PutQueued
  <2>2. Placed(c) /\ (Serving(c)' <=> Serving(c)) /\ (OneServer(c)' <=> OneServer(c))
    BY <1>2 DEF RocketInv, Serving, OneServer
  <2>3. c # restoring
    BY <1>3, ConnAssumption
  <2> QED  BY <1>1, <1>2, <2>1, <2>2, <2>3 DEF Placed, Afoot
<1> QED  BY <1>4, <1>5 DEF RocketInv

LEMMA RemovePlaces ==
    ASSUME RocketInv, MonitorRemove
    PROVE  RocketInv'
<1>1. /\ restoring' = NoConn /\ watched' = watched \ {restoring} /\ monitor' # "remove"
      /\ readable' = readable \/ readable' = {}
      /\ UNCHANGED <<sock, active, waiting, worker, work>>
  BY DEF MonitorRemove, poolVars
<1>2. RocketTypes'
  BY <1>1 DEF RocketInv, RocketTypes
<1>3. ASSUME NEW c \in Conn PROVE Placed(c)'
  <2>1. Placed(c) /\ (Serving(c)' <=> Serving(c)) /\ (OneServer(c)' <=> OneServer(c))
    BY <1>1 DEF RocketInv, Serving, OneServer
  <2>2. c # NoConn
    BY ConnAssumption
  <2> QED  BY <1>1, <2>1, <2>2 DEF Placed, Afoot
<1> QED  BY <1>2, <1>3 DEF RocketInv

LEMMA StalePlaces ==
    ASSUME RocketInv, MonitorStale
    PROVE  RocketInv'
<1>1. /\ monitor = "stale" /\ monitor' # "remove"
      /\ UNCHANGED <<active, waiting, work, worker, readable, restoring>>
  BY DEF MonitorStale, poolVars
<1>2. PICK old \in SUBSET watched :
         sock' = [c \in Conn |-> IF c \in old THEN "closed" ELSE sock[c]] /\ watched' = watched \ old
  <2>1. CASE UNCHANGED <<sock, watched>>
    <3>1. sock = [c \in Conn |-> IF c \in {} THEN "closed" ELSE sock[c]] /\ watched = watched \ {}
      BY DEF RocketInv, RocketTypes
    <3> QED  BY <2>1, <3>1
  <2> QED  BY <2>1 DEF MonitorStale
<1>3. RocketTypes'
  BY <1>1, <1>2 DEF RocketInv, RocketTypes
<1>4. \A c \in Conn : /\ sock'[c] \in {sock[c], "closed"}
                      /\ sock'[c] # "closed" /\ c \in watched => c \in watched'
  BY <1>2
<1> QED  BY <1>1, <1>2, <1>3, <1>4, ClosePlaces

LEMMA ResizePlaces ==
    ASSUME RocketInv, MonitorResize
    PROVE  RocketInv'
<1>1. /\ monitor = "change" /\ monitor' = "loop"
      /\ UNCHANGED <<sock, waiting, watched, work, readable, restoring>>
  BY DEF MonitorResize
<1>2. CASE active' = Append(active, Die) /\ UNCHANGED worker
  <2>1. Die \in Item /\ active \in Seq(Item)
    BY DEF RocketInv, RocketTypes, Item
  <2>2. RocketTypes'
    BY <1>1, <1>2, <2>1 DEF RocketInv, RocketTypes
  <2>3. ASSUME NEW c \in Conn PROVE Placed(c)'
    <3>1. c # Die
      BY ConnAssumption
    <3>2. (In(c, active') <=> In(c, active)) /\ (Once(c, active) => Once(c, active'))
      BY <1>2, <2>1, <3>1, PutQueued
    <3>3. Placed(c) /\ (Serving(c)' <=> Serving(c)) /\ (OneServer(c)' <=> OneServer(c))
      BY <1>1 DEF RocketInv, Serving, OneServer
    <3> QED  BY <1>1, <3>2, <3>3 DEF Placed, Afoot
  <2> QED  BY <2>2, <2>3 DEF RocketInv
<1>3. CASE \E new \in SUBSET (Thread \ Threads) :
              worker' = [t \in Thread |-> IF t \in new THEN "idle" ELSE worker[t]]
           /\ UNCHANGED active
  <2>1. PICK new \in SUBSET (Thread \ Threads) :
               worker' = [t \in Thread |-> IF t \in new THEN "idle" ELSE worker[t]]
    BY <1>3
  <2>2. \A t \in new : t \in Thread /\ worker[t] = "none"
    BY DEF Threads
  <2>3. RocketTypes'
    BY <1>1, <1>3, <2>1, <2>2 DEF RocketInv, RocketTypes
  <2> QED  BY <1>1, <1>3, <2>3, Unmoved DEF connVars
<1> QED  BY <1>2, <1>3 DEF MonitorResize

\* bring_out_your_dead removes threads that serve nobody.
LEMMA BroughtOut ==
    ASSUME RocketTypes, BringOutYourDead
    PROVE  /\ worker' \in [Thread -> {"none", "idle", "serving", "dying", "dead"}]
           /\ \A t \in Thread : worker'[t] = "serving" <=> worker[t] = "serving"
BY DEF RocketTypes, BringOutYourDead, Dead

LEMMA CountPlaces ==
    ASSUME RocketInv, MonitorCount \/ StopReturns
    PROVE  RocketInv'
<1>1. /\ UNCHANGED <<connVars, work, readable, restoring>>
      /\ monitor' = monitor \/ (monitor = "resize" /\ monitor' = "change")
      /\ BringOutYourDead \/ worker' = worker
  BY DEF MonitorCount, StopReturns, monitorVars
<1>2. RocketTypes'
  BY <1>1, BroughtOut DEF RocketInv, RocketTypes, connVars
<1> QED  BY <1>1, <1>2, Unmoved

LEMMA DropPlaces ==
    ASSUME RocketInv, StopDrops
    PROVE  RocketInv'
<1>1. UNCHANGED <<active, waiting, work, worker, monitor, readable, restoring>>
  BY DEF StopDrops, poolVars, monitorVars
<1>2. \/ \E c \in watched : watched' = watched \ {c} /\ sock' = [sock EXCEPT ![c] = "closed"]
      \/ UNCHANGED <<watched, sock>>
  BY DEF StopDrops, Close
<1>3. RocketTypes'
  BY <1>1, <1>2 DEF RocketInv, RocketTypes
<1>4. /\ watched' \subseteq watched
      /\ \A c \in Conn : /\ sock'[c] \in {sock[c], "closed"}
                         /\ sock'[c] # "closed" /\ c \in watched => c \in watched'
  BY <1>2 DEF RocketInv, RocketTypes
<1> QED  BY <1>1, <1>3, <1>4, ClosePlaces

LEMMA FlushPlaces ==
    ASSUME RocketInv, StopTest \/ StopGet
    PROVE  RocketInv'
<1>1. UNCHANGED <<active, watched, work, worker, monitor, readable, restoring>>
  BY DEF StopTest, StopGet, poolVars, monitorVars
<1>2. CASE StopTest /\ waiting = <<>>
  <2>1. waiting' = Append(waiting, Die) /\ Die \in Item /\ waiting \in Seq(Item) /\ sock' = sock
    BY <1>2 DEF StopTest, RocketInv, RocketTypes, Item
  <2>2. RocketTypes'
    BY <1>1, <2>1 DEF RocketInv, RocketTypes
  <2>3. ASSUME NEW c \in Conn
        PROVE  (In(c, waiting') <=> In(c, waiting)) /\ (Once(c, waiting) => Once(c, waiting'))
    BY <2>1, ConnAssumption, PutQueued
  <2> QED  BY <1>1, <2>1, <2>2, <2>3, ClosePlaces
<1>3. CASE StopTest /\ waiting # <<>>
  <2>1. UNCHANGED <<sock, waiting>>
    BY <1>3 DEF StopTest
  <2>2. RocketTypes'
    BY <1>1, <2>1 DEF RocketInv, RocketTypes
  <2> QED  BY <1>1, <2>1, <2>2, Unmoved DEF connVars
<1>4. CASE StopGet
  <2>1. /\ waiting \in Seq(Item) /\ waiting # <<>> /\ waiting' = Tail(waiting)
        /\ waiting' \in Seq(Item)
        /\ \/ Head(waiting) = Die /\ sock' = sock
           \/ sock' = [sock EXCEPT ![Head(waiting)] = "closed"]
    BY <1>4, GotQueued DEF StopGet, RocketInv, RocketTypes, Close
  <2>2. sock' \in [Conn -> {"new", "open", "closed", "left"}]
    BY <2>1 DEF RocketInv, RocketTypes
  <2>3. RocketTypes'
    BY <1>1, <2>1, <2>2 DEF RocketInv, RocketTypes
  <2>4. ASSUME NEW c \in Conn
        PROVE  /\ sock'[c] \in {sock[c], "closed"}
               /\ In(c, waiting') => In(c, waiting)
               /\ Once(c, waiting) => Once(c, waiting')
               /\ sock'[c] # "closed" => (In(c, waiting) => In(c, waiting'))
    <3>1. /\ In(c, waiting) <=> In(c, waiting') \/ Head(waiting) = c
          /\ Once(c, waiting) => Once(c, waiting')
      BY <2>1, GotQueued
    <3>2. c # Die /\ sock \in [Conn -> {"new", "open", "closed", "left"}]
      BY ConnAssumption DEF RocketInv, RocketTypes
    <3> QED  BY <2>1, <3>1, <3>2
  <2> QED  BY <1>1, <2>3, <2>4, ClosePlaces
<1> QED  BY <1>2, <1>3, <1>4

LEMMA StopWorkersPlaces ==
    ASSUME RocketInv, StopWorkers
    PROVE  RocketInv'
<1> DEFINE n == Cardinality(Threads)
<1>1. n \in Nat
  BY ThreadAssumption, FS_Subset, FS_CardinalityType DEF Threads
<1>2. /\ active \in Seq(Item) /\ active' = active \o [i \in 1..n |-> Die]
      /\ UNCHANGED <<sock, waiting, watched, worker, work, monitor, readable, restoring>>
  BY DEF StopWorkers, RocketInv, RocketTypes, monitorVars
<1> HIDE DEF n
<1>3. ASSUME NEW c \in Conn
      PROVE  active' \in Seq(Item) /\ (In(c, active') <=> In(c, active))
             /\ (Once(c, active) => Once(c, active'))
  BY <1>1, <1>2, ThreatsQueued
<1>4. active' \in Seq(Item)
  BY <1>1, <1>2 DEF Item
<1>5. RocketTypes'
  BY <1>2, <1>4 DEF RocketInv, RocketTypes
<1>6. ASSUME NEW c \in Conn PROVE Placed(c)'
  <2>1. Placed(c) /\ (Serving(c)' <=> Serving(c)) /\ (OneServer(c)' <=> OneServer(c))
    BY <1>2 DEF RocketInv, Serving, OneServer
  <2> QED  BY <1>2, <1>3, <2>1 DEF Placed, Afoot
<1> QED  BY <1>5, <1>6 DEF RocketInv


\* The other steps move no connection.
LEMMA OthersPlace ==
    ASSUME RocketInv,
           \/ ListenerExits
           \/ \E t \in Thread : WorkerExits(t)
           \/ MonitorTest
           \/ StopListeners
           \/ StopMonitor
    PROVE  RocketInv'
<1>1. CASE \E t \in Thread : WorkerExits(t)
  <2>1. PICK t \in Thread : worker[t] = "dying" /\ worker' = [worker EXCEPT ![t] = "dead"]
    BY <1>1 DEF WorkerExits
  <2>2. UNCHANGED <<connVars, work, monitor, readable, restoring>>
    BY <1>1 DEF WorkerExits, monitorVars
  <2>3. RocketTypes'
    BY <2>1, <2>2 DEF RocketInv, RocketTypes, connVars
  <2> QED  BY <2>2, <2>3, Unmoved
<1>2. CASE ListenerExits \/ MonitorTest \/ StopListeners \/ StopMonitor
  <2>1. /\ UNCHANGED <<connVars, worker, work, readable, restoring>>
        /\ monitor' = monitor \/ (monitor # "remove" /\ monitor' # "remove")
    BY <1>2 DEF ListenerExits, MonitorTest, StopListeners, StopMonitor, poolVars, monitorVars
  <2>2. RocketTypes'
    BY <2>1 DEF RocketInv, RocketTypes, connVars
  <2> QED  BY <2>1, <2>2, Unmoved
<1> QED  BY <1>1, <1>2

-----------------------------------------------------------------------------
(* Theorems. *)

LEMMA RocketStep == RocketInv /\ [RocketNext]_rocketVars => RocketInv'
<1> SUFFICES ASSUME RocketInv, [RocketNext]_rocketVars PROVE RocketInv'
  OBVIOUS
<1>1. CASE \E c \in Conn : Accept(c)
  BY <1>1, AcceptPlaces
<1>2. CASE \E t \in Thread : WorkerNext(t)
  BY <1>2, TakePlaces, ThreatPlaces, ServePlaces, OthersPlace DEF WorkerNext
<1>3. CASE MonitorNext
  <2>1. CASE MonitorTest  BY <2>1, OthersPlace
  <2>2. CASE MonitorGet  BY <2>2, GetPlaces
  <2>3. CASE MonitorThreatened  BY <2>3, ThreatenedPlaces
  <2>4. CASE MonitorSelect  BY <2>4, SelectPlaces
  <2>5. CASE MonitorRestore  BY <2>5, RestorePlaces
  <2>6. CASE MonitorRemove  BY <2>6, RemovePlaces
  <2>7. CASE MonitorStale  BY <2>7, StalePlaces
  <2>8. CASE MonitorCount  BY <2>8, CountPlaces
  <2>9. CASE MonitorResize  BY <2>9, ResizePlaces
  <2> QED  BY <1>3, <2>1, <2>2, <2>3, <2>4, <2>5, <2>6, <2>7, <2>8, <2>9 DEF MonitorNext
<1>4. CASE StopNext
  <2>1. CASE StopMonitor  BY <2>1, OthersPlace
  <2>2. CASE StopDrops  BY <2>2, DropPlaces
  <2>3. CASE StopTest \/ StopGet  BY <2>3, FlushPlaces
  <2>4. CASE StopWorkers  BY <2>4, StopWorkersPlaces
  <2>5. CASE StopReturns  BY <2>5, CountPlaces
  <2> QED  BY <1>4, <2>1, <2>2, <2>3, <2>4, <2>5 DEF StopNext
<1>5. CASE ListenerExits \/ StopListeners
  BY <1>5, OthersPlace
<1>6. CASE UNCHANGED rocketVars
  <2>1. UNCHANGED <<connVars, worker, work, monitor, readable, restoring>>
    BY <1>6 DEF rocketVars, poolVars, monitorVars
  <2>2. RocketTypes'
    BY <2>1 DEF RocketInv, RocketTypes, connVars
  <2> QED  BY <2>1, <2>2, Unmoved
<1> QED  BY <1>1, <1>2, <1>3, <1>4, <1>5, <1>6 DEF RocketNext

LEMMA RocketInvHolds == RocketSpec => []RocketInv
BY InitPlaced, RocketStep, PTL DEF RocketSpec

\* No two threads of the server ever have the same connection: neither two workers, nor a
\* worker and a queue, nor the monitor and another, but for the one it is putting back
\* (Worker.run, Monitor.run, Monitor.stop).
THEOREM OneOwnerHolds == RocketSpec => []OneOwner
<1>1. RocketInv => OneOwner
  <2> SUFFICES ASSUME RocketInv, NEW c \in Conn
               PROVE  /\ Once(c, active) /\ Once(c, waiting)
                      /\ \A t, u \in Server(c) : t = u
                      /\ Queued(c, active) = {} \/ Queued(c, waiting) = {}
                      /\ Server(c) = {} \/ Queued(c, active) \cup Queued(c, waiting) = {}
                      /\ c \in watched \ {restoring} =>
                             Server(c) \cup Queued(c, active) \cup Queued(c, waiting) = {}
    BY DEF OneOwner, Once
  <2>1. Placed(c)
    BY DEF RocketInv
  <2>2. Serving(c) <=> Server(c) # {}
    BY DEF Serving, Server
  <2>3. \A t, u \in Server(c) : t = u
    BY <2>1 DEF Placed, OneServer, Server
  <2> QED  BY <2>1, <2>2, <2>3 DEF Placed, Afoot, In
<1> QED  BY <1>1, RocketInvHolds, PTL

\* No connection that was accepted and is open is forgotten, whatever times out, becomes
\* readable or stale, and whenever the server is stopped.
THEOREM NothingForgotten == RocketSpec => []NothingLost
<1>1. RocketInv => NothingLost
  <2> SUFFICES ASSUME RocketInv, NEW c \in Conn, sock[c] = "open"
               PROVE  Server(c) # {} \/ In(c, active) \/ In(c, waiting) \/ c \in watched
    BY DEF NothingLost, In
  <2>1. Placed(c)
    BY DEF RocketInv
  <2>2. Serving(c) <=> Server(c) # {}
    BY DEF Serving, Server
  <2> QED  BY <2>1, <2>2 DEF Placed, Afoot
<1> QED  BY <1>1, RocketInvHolds, PTL


-----------------------------------------------------------------------------
(* The end of Rocket.stop. *)

\* Once the first stop has returned, no thread is left that could hand a connection to the
\* monitor or watch one, so that the second one finds all that the first one missed.
StopInv ==
    /\ stops \in 0..2
    /\ stops = 2 <=> stopper = "ended"
    /\ stopper = "workers" \/ stops # 0 => monitor = "dead"
    /\ stops # 0 => \A t \in Thread : worker[t] = "none"
    /\ (stops = 1 /\ stopper \in {"flush", "get", "join", "workers"}) \/ stops = 2 => watched = {}
    /\ (stops = 1 /\ stopper \in {"join", "workers"}) \/ stops = 2 =>
           \A c \in Conn : ~In(c, waiting)

LEMMA InitStops == RocketInit => StopInv
BY DEF RocketInit, StopInv

\* The steps of Rocket.stop itself.
LEMMA StopperStops ==
    ASSUME RocketInv, StopInv, StopListeners \/ StopNext
    PROVE  StopInv'
<1>1. CASE StopListeners
  BY <1>1 DEF StopInv, StopListeners, connVars, poolVars, monitorVars
<1>2. CASE StopMonitor
  BY <1>2 DEF StopInv, StopMonitor, connVars, poolVars
<1>3. CASE StopDrops
  BY <1>3 DEF StopInv, StopDrops, poolVars, monitorVars
<1>4. CASE StopTest
  <2>1. stopper = "flush" /\ UNCHANGED <<watched, worker, monitor, stops>>
    BY <1>4 DEF StopTest, poolVars, monitorVars
  <2>2. CASE waiting = <<>>
    <3>1. waiting' = <<Die>> /\ stopper' = "join"
      BY <1>4, <2>2 DEF StopTest
    <3>2. ASSUME NEW c \in Conn PROVE ~In(c, waiting')
      <4>1. Queued(c, <<Die>>) = {}
        BY ConnAssumption DEF Queued
      <4> QED  BY <3>1, <4>1 DEF In
    <3> QED  BY <2>1, <3>1, <3>2 DEF StopInv
  <2>3. CASE waiting # <<>>
    <3>1. stopper' = "get" /\ waiting' = waiting
      BY <1>4, <2>3 DEF StopTest
    <3> QED  BY <2>1, <3>1 DEF StopInv
  <2> QED  BY <2>2, <2>3
<1>5. CASE StopGet
  <2>1. stopper = "get" /\ stopper' = "flush" /\ UNCHANGED <<watched, worker, monitor, stops>>
    BY <1>5 DEF StopGet, poolVars, monitorVars
  <2> QED  BY <2>1 DEF StopInv
<1>6. CASE StopWorkers
  <2>1. /\ stopper = "join" /\ monitor = "dead" /\ stopper' = "workers"
        /\ UNCHANGED <<waiting, watched, worker, monitor, stops>>
    BY <1>6 DEF StopWorkers, monitorVars
  <2> QED  BY <2>1 DEF StopInv, In, Queued
<1>7. CASE StopReturns
  <2>1. /\ stopper = "workers" /\ stops' = stops + 1
        /\ stopper' = IF stops = 0 THEN "running" ELSE "ended"
        /\ UNCHANGED <<waiting, watched, monitor>>
    BY <1>7 DEF StopReturns, connVars, monitorVars
  <2>2. stops \in {0, 1} /\ monitor = "dead"
    BY <2>1 DEF StopInv
  <2>3. \A t \in Thread : worker'[t] = "none"
    BY <1>7 DEF StopReturns, BringOutYourDead, Threads, Dead
  <2> QED  BY <2>1, <2>2, <2>3 DEF StopInv, In, Queued
<1> QED  BY <1>1, <1>2, <1>3, <1>4, <1>5, <1>6, <1>7 DEF StopNext

\* Meanwhile the monitor is dead or the first stop is still under way.
LEMMA MonitorStops ==
    ASSUME RocketInv, StopInv, MonitorNext
    PROVE  StopInv'
<1>1. monitor # "dead" /\ UNCHANGED <<stopper, stops>>
  BY DEF MonitorNext, MonitorTest, MonitorGet, MonitorThreatened, MonitorSelect, MonitorRestore,
         MonitorRemove, MonitorStale, MonitorCount, MonitorResize, stopVars
<1>2. stops = 0 /\ stopper # "workers"
  BY <1>1 DEF StopInv
<1> QED  BY <1>1, <1>2 DEF StopInv

\* Workers are there as long as the first stop has not returned.
LEMMA WorkersStop ==
    ASSUME RocketInv, StopInv, NEW t \in Thread, WorkerNext(t)
    PROVE  StopInv'
<1>1. worker[t] # "none" /\ UNCHANGED <<stopper, stops, monitor>>
  BY DEF WorkerNext, TakeConnection, TakeThreat, ServeLast, ServeTimeout, ServeBadRequest, Rests,
         WorkerExits, stopVars, monitorVars
<1>2. stops = 0
  BY <1>1 DEF StopInv
<1> QED  BY <1>1, <1>2 DEF StopInv

LEMMA StopStep == RocketInv /\ StopInv /\ [RocketNext]_rocketVars => StopInv'
<1> SUFFICES ASSUME RocketInv, StopInv, [RocketNext]_rocketVars PROVE StopInv'
  OBVIOUS
<1>1. CASE (\E c \in Conn : Accept(c)) \/ ListenerExits \/ UNCHANGED rocketVars
  <2>1. UNCHANGED <<stopper, stops, monitor, worker, watched, waiting>>
    BY <1>1 DEF Accept, ListenerExits, rocketVars, connVars, poolVars, monitorVars, stopVars
  <2> QED  BY <2>1 DEF StopInv, In, Queued
<1> QED  BY <1>1, StopperStops, MonitorStops, WorkersStop DEF RocketNext

\* When Rocket.stop has come to its end, every connection that was accepted has been closed,
\* but for those that a bad request left and those still queued for workers that are gone.
THEOREM AllClosedAtEnd == RocketSpec => []AllClosed
<1>1. RocketInv /\ StopInv => AllClosed
  <2> SUFFICES ASSUME RocketInv, StopInv, stopper = "ended", NEW c \in Conn, sock[c] = "open"
               PROVE  Queued(c, active) # {}
    BY DEF AllClosed
  <2>1. stops = 2 /\ watched = {} /\ ~In(c, waiting) /\ \A t \in Thread : worker[t] = "none"
    BY DEF StopInv
  <2>2. ~Serving(c)
    BY <2>1, ConnAssumption DEF Serving, RocketInv, RocketTypes
  <2>3. Placed(c)
    BY DEF RocketInv
  <2> QED  BY <2>1, <2>2, <2>3 DEF Placed, Afoot, In
<1> QED  BY <1>1, RocketInvHolds, InitStops, StopStep, PTL DEF RocketSpec

-----------------------------------------------------------------------------
(* The size of the pool. *)

LEMMA QueuedFinite ==
    ASSUME NEW q \in Seq(Item), NEW c
    PROVE  IsFiniteSet(Queued(c, q)) /\ Cardinality(Queued(c, q)) \in Nat
<1>1. Len(q) \in Nat /\ DOMAIN q = 1..Len(q)
  OBVIOUS
<1>2. IsFiniteSet(1..Len(q))
  BY <1>1, FS_Interval
<1>3. Queued(c, q) \in SUBSET (1..Len(q))
  BY <1>1 DEF Queued
<1> QED  BY <1>2, <1>3, FS_Subset, FS_CardinalityType

\* put adds one to the occurrences of what it appends.
LEMMA PutCount ==
    ASSUME NEW q \in Seq(Item), NEW x \in Item, NEW c
    PROVE  Cardinality(Queued(c, Append(q, x)))
             = Cardinality(Queued(c, q)) + (IF x = c THEN 1 ELSE 0)
<1> DEFINE r == Append(q, x)
           n == Len(q) + 1
<1>1. /\ \A i \in 1..Len(q) : r[i] = q[i]
      /\ r[n] = x
      /\ DOMAIN r = 1..n /\ DOMAIN q = 1..Len(q) /\ Len(q) \in Nat /\ n \notin 1..Len(q)
      /\ 1..n = (1..Len(q)) \cup {n}
  OBVIOUS
<1> HIDE DEF r, n
<1>2. n \notin Queued(c, q)
  BY <1>1 DEF Queued
<1>3. CASE x = c
  <2>1. Queued(c, r) = Queued(c, q) \cup {n}
    BY <1>1, <1>3 DEF Queued
  <2>2. Cardinality(Queued(c, r)) = Cardinality(Queued(c, q)) + 1
    BY <1>2, <2>1, QueuedFinite, FS_AddElement
  <2> QED  BY <1>3, <2>2 DEF r
<1>4. CASE x # c
  <2>1. Queued(c, r) = Queued(c, q)
    BY <1>1, <1>4 DEF Queued
  <2> QED  BY <1>4, <2>1, QueuedFinite DEF r
<1> QED  BY <1>3, <1>4

\* get takes one from the occurrences of what it returns.
LEMMA GetCount ==
    ASSUME NEW q \in Seq(Item), q # <<>>, NEW c
    PROVE  Cardinality(Queued(c, q))
             = Cardinality(Queued(c, Tail(q))) + (IF Head(q) = c THEN 1 ELSE 0)
<1> DEFINE r == Tail(q)
           S == Queued(c, q) \ {1}
           f == [i \in Queued(c, r) |-> i + 1]
<1>1. /\ Head(q) = q[1] /\ r \in Seq(Item)
      /\ Len(q) \in Nat /\ Len(q) > 0
      /\ DOMAIN r = 1..(Len(q) - 1) /\ DOMAIN q = 1..Len(q)
      /\ \A i \in 1..(Len(q) - 1) : r[i] = q[i + 1]
  OBVIOUS
<1> HIDE DEF r
<1>2. \A i \in Queued(c, r) : i \in Nat /\ i + 1 \in S
  BY <1>1 DEF Queued
<1>3. \A i \in S : i \in Nat /\ i - 1 \in Queued(c, r)
  <2> SUFFICES ASSUME NEW i \in S PROVE i \in Nat /\ i - 1 \in Queued(c, r)
    OBVIOUS
  <2>1. i \in 2..Len(q) /\ q[i] = c
    BY <1>1 DEF Queued
  <2>2. i - 1 \in 1..(Len(q) - 1) /\ (i - 1) + 1 = i
    BY <1>1, <2>1
  <2>3. r[i - 1] = c
    BY <1>1, <2>1, <2>2
  <2> QED  BY <1>1, <2>1, <2>2, <2>3 DEF Queued
<1>4. f \in Bijection(Queued(c, r), S)
  <2>1. f \in [Queued(c, r) -> S]
    BY <1>2
  <2>2. ASSUME NEW i \in Queued(c, r), NEW j \in Queued(c, r), f[i] = f[j] PROVE i = j
    BY <1>2, <2>2
  <2>3. ASSUME NEW i \in S PROVE \E j \in Queued(c, r) : f[j] = i
    <3>1. f[i - 1] = i
      BY <1>3
    <3> QED  BY <1>3, <3>1
  <2> QED  BY <2>1, <2>2, <2>3, Fun_IsBij
<1>5. Cardinality(S) = Cardinality(Queued(c, r))
  <2>1. ExistsBijection(Queued(c, r), S)
    BY <1>4 DEF ExistsBijection
  <2> QED  BY <1>1, <2>1, QueuedFinite, FS_Bijection
<1>6. 1 \in Queued(c, q) <=> Head(q) = c
  BY <1>1 DEF Queued
<1>7. /\ IsFiniteSet(Queued(c, q)) /\ Cardinality(Queued(c, q)) \in Nat
      /\ Cardinality(Queued(c, r)) \in Nat
  BY <1>1, QueuedFinite
<1>8. Cardinality(S) = IF 1 \in Queued(c, q) THEN Cardinality(Queued(c, q)) - 1
                       ELSE Cardinality(Queued(c, q))
  BY <1>7, FS_RemoveElement
<1> QED  BY <1>5, <1>6, <1>7, <1>8 DEF r

\* A row of threats counts as many as it is long.
LEMMA ThreatCount ==
    ASSUME NEW q \in Seq(Item), NEW n \in Nat
    PROVE  Cardinality(Queued(Die, q \o [i \in 1..n |-> Die])) = Cardinality(Queued(Die, q)) + n
<1> DEFINE d == [i \in 1..n |-> Die]
           r == q \o d
           I == (Len(q) + 1)..(Len(q) + n)
<1>1. d \in Seq(Item) /\ Len(d) = n /\ \A i \in 1..n : d[i] = Die
  <2>1. d \in [1..n -> Item]
    BY DEF Item
  <2>2. d \in Seq(Item)
    BY <2>1
  <2> QED  BY <2>1, <2>2
<1> HIDE DEF d
<1>2. /\ Len(q) \in Nat /\ DOMAIN q = 1..Len(q)
      /\ DOMAIN r = 1..(Len(q) + n)
      /\ \A i \in 1..Len(q) : r[i] = q[i]
      /\ \A i \in I : r[i] = d[i - Len(q)]
  BY <1>1
<1>3. \A i \in I : r[i] = Die
  <2> SUFFICES ASSUME NEW i \in I PROVE r[i] = Die
    OBVIOUS
  <2>1. i - Len(q) \in 1..n
    BY <1>2
  <2> QED  BY <1>1, <1>2, <2>1
<1> HIDE DEF r
<1>4. Queued(Die, r) = Queued(Die, q) \cup I
  <2> SUFFICES ASSUME NEW i PROVE i \in Queued(Die, r) <=> i \in Queued(Die, q) \/ i \in I
    OBVIOUS
  <2>1. i \in DOMAIN r <=> i \in DOMAIN q \/ i \in I
    BY <1>2
  <2>2. i \in DOMAIN q => i \notin I
    BY <1>2
  <2> QED  BY <1>2, <1>3, <2>1, <2>2 DEF Queued
<1>5. Queued(Die, q) \cap I = {}
  BY <1>2 DEF Queued
<1>6. IsFiniteSet(I) /\ Cardinality(I) = n
  BY <1>2, FS_Interval
<1> HIDE DEF I
<1>7. Cardinality(Queued(Die, r)) = Cardinality(Queued(Die, q)) + Cardinality(I) - Cardinality({})
  BY <1>4, <1>5, <1>6, QueuedFinite, FS_Union
<1>8. Cardinality({}) = 0
  BY FS_EmptySet
<1>9. Cardinality(Queued(Die, q)) \in Nat
  BY QueuedFinite
<1> QED  BY <1>6, <1>7, <1>8, <1>9 DEF r, d

-----------------------------------------------------------------------------

Doomed == Dying \cup Dead

\* Living and doomed threads make up the pool.
LEMMA Sizes ==
    ASSUME worker \in [Thread -> {"none", "idle", "serving", "dying", "dead"}]
    PROVE  /\ IsFiniteSet(Living) /\ Cardinality(Living) \in Nat
           /\ IsFiniteSet(Doomed) /\ Cardinality(Doomed) \in Nat
           /\ IsFiniteSet(Dead) /\ IsFiniteSet(Dying) /\ Cardinality(Dead) \in Nat /\ Cardinality(Dying) \in Nat
           /\ Cardinality(Threads) = Cardinality(Living) + Cardinality(Doomed)
           /\ Cardinality(Doomed) = Cardinality(Dying) + Cardinality(Dead)
<1>1. IsFiniteSet(Thread)
  BY ThreadAssumption
<1>2. IsFiniteSet(Living) /\ IsFiniteSet(Doomed) /\ IsFiniteSet(Dead) /\ IsFiniteSet(Dying)
  BY <1>1, FS_Subset DEF Living, Doomed, Dying, Dead
<1>3. Threads = Living \cup Doomed /\ Living \cap Doomed = {} /\ Dying \cap Dead = {}
  BY DEF Threads, Living, Doomed, Dying, Dead
<1>4. /\ Cardinality(Living) \in Nat /\ Cardinality(Doomed) \in Nat
      /\ Cardinality(Dead) \in Nat /\ Cardinality(Dying) \in Nat
  BY <1>2, FS_CardinalityType
<1>5. Cardinality({}) = 0
  BY FS_EmptySet
<1>6. Cardinality(Threads) = Cardinality(Living) + Cardinality(Doomed) - Cardinality({})
  BY <1>2, <1>3, FS_Union
<1>7. Cardinality(Doomed) = Cardinality(Dying) + Cardinality(Dead) - Cardinality({})
  BY <1>2, <1>3, FS_Union DEF Doomed
<1> QED  BY <1>2, <1>4, <1>5, <1>6, <1>7

\* The numbers of PoolSize, and what the monitor decided by them: it threatens a worker only
\* when nothing was queued and more threads than minthreads were there.
Up(stopping, over) == stopping # "workers" /\ over = 0

PoolNumbers(l, d, h) ==
    /\ l + d <= MinThreads \/ l + d <= MaxThreads
    /\ doomed = h + d
    /\ Up(stopper, stops) => l - h + overlap >= MinThreads
    /\ Up(stopper, stops) /\ change = -1 => h = 0 /\ l + d > MinThreads

PoolInv ==
    /\ change \in Int /\ change >= -1
    /\ overlap \in Nat
    /\ PoolNumbers(Cardinality(Living), Cardinality(Doomed), Cardinality(Threats))

LEMMA PoolEnough == RocketTypes /\ PoolInv => PoolSize
<1> SUFFICES ASSUME RocketTypes, PoolInv PROVE PoolSize
  OBVIOUS
<1>1. Cardinality(Threads) = Cardinality(Living) + Cardinality(Doomed)
  BY Sizes DEF RocketTypes
<1>2. PoolNumbers(Cardinality(Living), Cardinality(Doomed), Cardinality(Threats))
  BY DEF PoolInv
<1> QED  BY <1>1, <1>2 DEF PoolSize, PoolNumbers, Up, Doomed

LEMMA InitPool == RocketInit => PoolInv
<1> SUFFICES ASSUME RocketInit PROVE PoolInv
  OBVIOUS
<1>1. PICK T \in SUBSET Thread :
         Cardinality(T) = MinThreads /\ worker = [t \in Thread |-> IF t \in T THEN "idle" ELSE "none"]
  BY DEF RocketInit
<1>2. Living = T /\ Doomed = {}
  BY <1>1 DEF Living, Doomed, Dying, Dead
<1>3. Threats = {}
  BY DEF RocketInit, Threats
<1>4. Cardinality({}) = 0 /\ MinThreads \in Nat
  BY FS_EmptySet, ThreadAssumption
<1>5. change = 0 /\ overlap = 0 /\ doomed = 0
  BY DEF RocketInit
<1>6. PoolNumbers(MinThreads, 0, 0)
  BY <1>4, <1>5 DEF PoolNumbers
<1> QED  BY <1>1, <1>2, <1>3, <1>4, <1>5, <1>6 DEF PoolInv

LEMMA ThreatsAre == Threats = Queued(Die, active)
BY DEF Threats, Queued

\* A step that changes no number.
LEMMA PoolKept ==
    ASSUME PoolInv, UNCHANGED <<doomed, overlap>>,
           change' = change \/ change' >= 0, change' \in Int,
           Cardinality(Living)' = Cardinality(Living),
           Cardinality(Doomed)' = Cardinality(Doomed),
           Cardinality(Threats)' = Cardinality(Threats),
           Up(stopper, stops)' => Up(stopper, stops)
    PROVE  PoolInv'
<1> DEFINE l == Cardinality(Living)
           d == Cardinality(Doomed)
           h == Cardinality(Threats)
<1> HIDE DEF l, d, h
<1>1. PoolNumbers(l, d, h) /\ change >= -1 /\ change \in Int /\ overlap \in Nat
  BY DEF PoolInv, l, d, h
<1>2. l' = l /\ d' = d /\ h' = h
  BY DEF l, d, h
<1>3. PoolNumbers(l, d, h)'
  BY <1>1, <1>2 DEF PoolNumbers
<1> QED  BY <1>1, <1>3 DEF PoolInv, l, d, h

LEMMA AcceptPool ==
    ASSUME RocketTypes, PoolInv, NEW c \in Conn, active' = Append(active, c),
           UNCHANGED <<worker, doomed, overlap, change, stopper, stops>>
    PROVE  PoolInv'
<1>1. c # Die /\ c \in Item
  BY ConnAssumption DEF Item
<1>2. Cardinality(Queued(Die, Append(active, c))) = Cardinality(Queued(Die, active)) + 0
  BY <1>1, PutCount DEF RocketTypes
<1>3. Cardinality(Queued(Die, active)) \in Nat
  BY QueuedFinite DEF RocketTypes
<1>4. Threats' = Queued(Die, Append(active, c)) /\ Threats = Queued(Die, active)
  BY DEF Threats, Queued
<1>5. Cardinality(Threats)' = Cardinality(Threats)
  BY <1>2, <1>3, <1>4
<1>6. Living' = Living /\ Doomed' = Doomed
  BY DEF Living, Doomed, Dying, Dead
<1> QED  BY <1>5, <1>6, PoolKept DEF PoolInv

LEMMA WorkerPool ==
    ASSUME RocketTypes, PoolInv, NEW t \in Thread, WorkerNext(t)
    PROVE  PoolInv'
<1> USE DEF RocketTypes
<1>1. UNCHANGED <<doomed, overlap, change, stopper, stops>>
  BY DEF WorkerNext, TakeConnection, TakeThreat, ServeLast, ServeTimeout, ServeBadRequest, Rests,
         WorkerExits, monitorVars, stopVars
<1>2. CASE TakeConnection(t)
  <2>1. Living' = Living /\ Doomed' = Doomed
    BY <1>2 DEF TakeConnection, Living, Doomed, Dying, Dead
  <2>2. Cardinality(Queued(Die, active)) = Cardinality(Queued(Die, Tail(active))) + 0
    BY <1>2, GetCount DEF TakeConnection
  <2>3. active' = Tail(active) /\ Tail(active) \in Seq(Item)
    BY <1>2 DEF TakeConnection
  <2>4. Threats = Queued(Die, active) /\ Threats' = Queued(Die, Tail(active))
    BY <2>3 DEF Threats, Queued
  <2>5. Cardinality(Queued(Die, Tail(active))) \in Nat
    BY <2>3, QueuedFinite
  <2>6. Cardinality(Threats)' = Cardinality(Threats)
    BY <2>2, <2>4, <2>5
  <2> QED  BY <1>1, <2>1, <2>6, PoolKept DEF PoolInv
<1>3. CASE TakeThreat(t)
  <2>1. worker[t] = "idle" /\ worker' = [worker EXCEPT ![t] = "dying"] /\ active # <<>> /\ Head(active) = Die
        /\ active' = Tail(active) /\ Tail(active) \in Seq(Item)
    BY <1>3 DEF TakeThreat
  <2>2. Living' = Living \ {t} /\ t \in Living /\ Doomed' = Doomed \cup {t} /\ t \notin Doomed
    BY <2>1 DEF Living, Doomed, Dying, Dead
  <2>3. Cardinality(Living \ {t}) = Cardinality(Living) - 1
    BY <2>2, Sizes, FS_RemoveElement
  <2>4. Cardinality(Doomed \cup {t}) = Cardinality(Doomed) + 1
    BY <2>2, Sizes, FS_AddElement
  <2>5. Cardinality(Queued(Die, active)) = Cardinality(Queued(Die, Tail(active))) + 1
    BY <2>1, GetCount
  <2>6. Threats = Queued(Die, active) /\ Threats' = Queued(Die, Tail(active))
    BY <2>1 DEF Threats, Queued
  <2>7. Cardinality(Queued(Die, Tail(active))) \in Nat /\ Cardinality(Living) \in Nat /\ Cardinality(Doomed) \in Nat
    BY <2>1, QueuedFinite, Sizes
  <2> DEFINE l == Cardinality(Living)
             d == Cardinality(Doomed)
             h == Cardinality(Threats)
  <2>8. PoolNumbers(l, d, h)
    BY DEF PoolInv
  <2>9. l' = l - 1 /\ d' = d + 1 /\ h' = h - 1 /\ h - 1 \in Nat /\ h \in Nat
    BY <2>2, <2>3, <2>4, <2>5, <2>6, <2>7
  <2>10. l \in Nat /\ d \in Nat /\ change \in Int /\ change >= -1 /\ overlap \in Nat
         /\ MinThreads \in Nat /\ MaxThreads \in Nat
    BY <2>7, ThreadAssumption DEF PoolInv
  <2> HIDE DEF l, d, h
  <2>11. PoolNumbers(l, d, h)'
    BY <1>1, <2>8, <2>9, <2>10 DEF PoolNumbers, Up
  <2> QED  BY <1>1, <2>10, <2>11 DEF PoolInv, l, d, h
<1>4. CASE ServeLast(t) \/ ServeTimeout(t) \/ ServeBadRequest(t)
  <2>1. worker[t] = "serving" /\ worker' = [worker EXCEPT ![t] = "idle"] /\ active' = active
    BY <1>4 DEF ServeLast, ServeTimeout, ServeBadRequest, Rests
  <2>2. Living' = Living /\ Doomed' = Doomed /\ Threats' = Threats
    BY <2>1 DEF Living, Doomed, Dying, Dead, Threats
  <2> QED  BY <1>1, <2>2, PoolKept DEF PoolInv
<1>5. CASE WorkerExits(t)
  <2>1. worker[t] = "dying" /\ worker' = [worker EXCEPT ![t] = "dead"] /\ active' = active
    BY <1>5 DEF WorkerExits, connVars
  <2>2. Living' = Living /\ Doomed' = Doomed /\ Threats' = Threats
    BY <2>1 DEF Living, Doomed, Dying, Dead, Threats
  <2> QED  BY <1>1, <2>2, PoolKept DEF PoolInv
<1> QED  BY <1>2, <1>3, <1>4, <1>5 DEF WorkerNext

\* bring_out_your_dead counts off what it removes.
LEMMA OutPool ==
    ASSUME RocketTypes, PoolInv, BringOutYourDead
    PROVE  /\ Living' = Living
           /\ Cardinality(Doomed)' = Cardinality(Dying)
           /\ doomed' = Cardinality(Threats) + Cardinality(Dying)
           /\ Cardinality(Doomed)' <= Cardinality(Doomed)
<1>1. Living' = Living /\ Doomed' = Dying
  BY DEF BringOutYourDead, RocketTypes, Living, Doomed, Dying, Dead
<1>2. doomed' = doomed - Cardinality(Dead) /\ doomed = Cardinality(Threats) + Cardinality(Doomed)
  BY DEF BringOutYourDead, PoolInv, PoolNumbers
<1>3. Cardinality(Doomed) = Cardinality(Dying) + Cardinality(Dead)
      /\ Cardinality(Dying) \in Nat /\ Cardinality(Dead) \in Nat
  BY Sizes DEF RocketTypes
<1>4. Cardinality(Threats) \in Nat
  BY ThreatsAre, QueuedFinite DEF RocketTypes
<1> QED  BY <1>1, <1>2, <1>3, <1>4

LEMMA CountPool ==
    ASSUME RocketTypes, PoolInv, MonitorCount
    PROVE  PoolInv'
<1> DEFINE l == Cardinality(Living)
           d == Cardinality(Doomed)
           h == Cardinality(Threats)
<1>1. UNCHANGED <<active, overlap, stopper, stops>>
  BY DEF MonitorCount, connVars, stopVars
<1>2. Threats' = Threats
  BY <1>1 DEF Threats
<1>3. l \in Nat /\ d \in Nat /\ h \in Nat /\ overlap \in Nat /\ MinThreads \in Nat /\ MaxThreads \in Nat
      /\ PoolNumbers(l, d, h)
  BY Sizes, ThreatsAre, QueuedFinite, ThreadAssumption DEF RocketTypes, PoolInv
<1>4. active = <<>> => h = 0
  <2>1. active = <<>> => Threats = {}
    BY DEF Threats
  <2> QED  BY <2>1, FS_EmptySet
<1>5. Len(active) \in Nat
  BY DEF RocketTypes
<1>6. change' \in Int /\ change' >= -1
  BY <1>5 DEF MonitorCount
<1>7. CASE UNCHANGED <<worker, doomed>>
  <2>1. Living' = Living /\ Doomed' = Doomed /\ Threads' = Threads
    BY <1>7 DEF Living, Doomed, Dying, Dead, Threads
  <2>2. change' = -1 => active = <<>> /\ l + d > MinThreads
    <3> SUFFICES ASSUME change' = -1 PROVE active = <<>> /\ l + d > MinThreads
      OBVIOUS
    <3>1. active = <<>> /\ Cardinality(IF doomed > 0 THEN Threads \ Dead ELSE Threads) > MinThreads
      BY <1>5 DEF MonitorCount
    <3>2. Cardinality(Threads) = l + d
      BY Sizes DEF RocketTypes
    <3>3. CASE doomed > 0
      <4>1. BringOutYourDead
        BY <3>3, <1>5 DEF MonitorCount
      <4>2. Doomed' = Dying /\ Living' = Living
        BY <4>1 DEF BringOutYourDead, RocketTypes, Doomed, Dying, Dead, Living
      <4>3. Threads \ Dead = Living \cup Doomed
        BY <2>1, <4>2 DEF Threads, RocketTypes, Doomed, Dying, Dead, Living
      <4>4. Threads = Living \cup Doomed
        BY DEF Threads, RocketTypes, Doomed, Dying, Dead, Living
      <4> QED  BY <3>1, <3>2, <3>3, <4>3, <4>4
    <3>4. CASE ~(doomed > 0)
      BY <3>1, <3>2, <3>4
    <3> QED  BY <3>3, <3>4
  <2> HIDE DEF l, d, h
  <2>3. l' = l /\ d' = d /\ h' = h
    BY <1>2, <2>1 DEF l, d, h
  <2>4. PoolNumbers(l, d, h)'
    BY <1>1, <1>3, <1>4, <1>7, <2>2, <2>3 DEF PoolNumbers, Up
  <2> QED  BY <1>1, <1>3, <1>6, <2>4 DEF PoolInv, l, d, h
<1>8. CASE doomed > 0 /\ BringOutYourDead
  <2>1. /\ l' = l /\ d' = Cardinality(Dying) /\ h' = h /\ doomed' = h + d' /\ d' <= d
    BY <1>2, <1>8, OutPool
  <2>2. d' \in Nat
    BY <2>1, Sizes DEF RocketTypes
  <2>3. Threads \ Dead = Living \cup Dying /\ Living \cap Dying = {}
    BY DEF Threads, RocketTypes, Doomed, Dying, Dead, Living
  <2>4. Cardinality(Threads \ Dead) = l + d'
    <3>0. IsFiniteSet(Living) /\ IsFiniteSet(Dying) /\ Cardinality(Dying) \in Nat
      BY Sizes DEF RocketTypes
    <3>1. Cardinality(Living \cup Dying) = Cardinality(Living) + Cardinality(Dying) - Cardinality({})
      BY <2>3, <3>0, FS_Union
    <3>2. Cardinality({}) = 0
      BY FS_EmptySet
    <3>3. Cardinality(Threads \ Dead) = Cardinality(Living \cup Dying)
      BY <2>3
    <3>4. d' = Cardinality(Dying)
      BY <2>1
    <3>5. l = Cardinality(Living)
      OBVIOUS
    <3> HIDE DEF l, d
    <3> QED  BY <1>3, <3>0, <3>1, <3>2, <3>3, <3>4, <3>5
  <2>5. change' = -1 => active = <<>> /\ l + d' > MinThreads
    BY <1>5, <1>8, <2>4 DEF MonitorCount
  <2> HIDE DEF l, d, h
  <2>6. PoolNumbers(l, d, h)'
    BY <1>1, <1>3, <1>4, <2>1, <2>2, <2>5 DEF PoolNumbers, Up
  <2> QED  BY <1>1, <1>3, <1>6, <2>6 DEF PoolInv, l, d, h
<1> QED  BY <1>7, <1>8 DEF MonitorCount

LEMMA ResizePool ==
    ASSUME RocketTypes, StopInv, PoolInv, MonitorResize
    PROVE  PoolInv'
<1> DEFINE l == Cardinality(Living)
           d == Cardinality(Doomed)
           h == Cardinality(Threats)
<1>0. change' = 0 /\ UNCHANGED <<stopper, stops>>
  BY DEF MonitorResize, stopVars
<1>1. l \in Nat /\ d \in Nat /\ h \in Nat /\ overlap \in Nat /\ MinThreads \in Nat /\ MaxThreads \in Nat
      /\ PoolNumbers(l, d, h)
  BY Sizes, ThreatsAre, QueuedFinite, ThreadAssumption DEF RocketTypes, PoolInv
<1>2. Up(stopper, stops)
  BY DEF MonitorResize, StopInv, Up
<1>3. CASE change = -1
  <2>1. doomed' = doomed + 1 /\ active' = Append(active, Die) /\ overlap' = d /\ worker' = worker
    BY <1>3 DEF MonitorResize, Doomed
  <2>2. Living' = Living /\ Doomed' = Doomed
    BY <2>1 DEF Living, Doomed, Dying, Dead
  <2>3. Cardinality(Queued(Die, Append(active, Die))) = Cardinality(Queued(Die, active)) + 1
    BY PutCount DEF RocketTypes, Item
  <2>4. Threats' = Queued(Die, Append(active, Die)) /\ Threats = Queued(Die, active)
    BY <2>1 DEF Threats, Queued
  <2>5. l' = l /\ d' = d /\ h' = h + 1
    BY <2>2, <2>3, <2>4
  <2> HIDE DEF l, d, h
  <2>6. PoolNumbers(l, d, h)'
    BY <1>0, <1>1, <1>2, <1>3, <2>1, <2>5 DEF PoolNumbers, Up
  <2> QED  BY <1>0, <1>1, <2>1, <2>6 DEF PoolInv, l, d, h
<1>4. CASE change >= 0
  <2>1. PICK new \in SUBSET (Thread \ Threads) :
           /\ Cardinality(new) = Growth(change)
           /\ worker' = [t \in Thread |-> IF t \in new THEN "idle" ELSE worker[t]]
    BY <1>4 DEF MonitorResize, PoolInv
  <2>2. UNCHANGED <<active, doomed, overlap>>
    BY <1>4 DEF MonitorResize, PoolInv
  <2>3. Threats' = Threats
    BY <2>2 DEF Threats
  <2>4. Living' = Living \cup new /\ Living \cap new = {} /\ Doomed' = Doomed
    BY <2>1 DEF Living, Doomed, Dying, Dead, Threads, RocketTypes
  <2>5. IsFiniteSet(new)
    BY ThreadAssumption, FS_Subset
  <2>6. Cardinality(Living \cup new) = l + Growth(change)
    <3>0. IsFiniteSet(Living)
      BY Sizes DEF RocketTypes
    <3>1. Cardinality(Living \cup new) = Cardinality(Living) + Cardinality(new) - Cardinality({})
      BY <2>4, <2>5, <3>0, FS_Union
    <3>2. Cardinality({}) = 0 /\ Cardinality(new) \in Nat
      BY <2>5, FS_EmptySet, FS_CardinalityType
    <3> QED  BY <1>1, <2>1, <3>1, <3>2
  <2>7. Cardinality(Threads) = l + d
    BY Sizes DEF RocketTypes
  <2>8. /\ Growth(change) \in Nat
        /\ Growth(change) = 0 \/ l + d + Growth(change) <= MaxThreads
    <3>1. change \in Int
      BY DEF PoolInv
    <3> HIDE DEF l, d
    <3> QED  BY <1>1, <1>4, <2>7, <3>1 DEF Growth
  <2>9. l' = l + Growth(change) /\ d' = d /\ h' = h
    BY <2>3, <2>4, <2>6
  <2> DEFINE g == Growth(change)
  <2> HIDE DEF l, d, h, g
  <2>10. g \in Nat /\ (g = 0 \/ l + d + g <= MaxThreads) /\ l' = l + g /\ d' = d /\ h' = h
    BY <2>8, <2>9 DEF g
  <2>11. PoolNumbers(l, d, h)'
    BY <1>0, <1>1, <1>2, <2>2, <2>10 DEF PoolNumbers, Up
  <2> QED  BY <1>0, <1>1, <2>2, <2>11 DEF PoolInv, l, d, h
<1> QED  BY <1>3, <1>4 DEF MonitorResize

LEMMA StopPool ==
    ASSUME RocketTypes, PoolInv, StopWorkers \/ StopReturns, stops \in Nat
    PROVE  PoolInv'
<1> DEFINE l == Cardinality(Living)
           d == Cardinality(Doomed)
           h == Cardinality(Threats)
<1>1. l \in Nat /\ d \in Nat /\ h \in Nat /\ overlap \in Nat /\ MinThreads \in Nat /\ MaxThreads \in Nat
      /\ PoolNumbers(l, d, h) /\ change \in Int /\ change >= -1
  BY Sizes, ThreatsAre, QueuedFinite, ThreadAssumption DEF RocketTypes, PoolInv
<1>2. CASE StopWorkers
  <2> DEFINE n == Cardinality(Threads)
  <2>1. n \in Nat
    BY ThreadAssumption, FS_Subset, FS_CardinalityType DEF Threads
  <2>2. /\ doomed' = doomed + n /\ active' = active \o [i \in 1..n |-> Die] /\ stopper' = "workers"
        /\ UNCHANGED <<worker, change, overlap, stops>>
    BY <1>2 DEF StopWorkers, monitorVars
  <2> HIDE DEF n
  <2>3. Cardinality(Queued(Die, active \o [i \in 1..n |-> Die])) = Cardinality(Queued(Die, active)) + n
    BY <2>1, ThreatCount DEF RocketTypes
  <2>4. Threats' = Queued(Die, active \o [i \in 1..n |-> Die]) /\ Threats = Queued(Die, active)
    BY <2>2 DEF Threats, Queued
  <2>5. Living' = Living /\ Doomed' = Doomed
    BY <2>2 DEF Living, Doomed, Dying, Dead
  <2>6. l' = l /\ d' = d /\ h' = h + n
    BY <2>3, <2>4, <2>5
  <2> HIDE DEF l, d, h
  <2>7. PoolNumbers(l, d, h)'
    BY <1>1, <2>1, <2>2, <2>6 DEF PoolNumbers, Up
  <2> QED  BY <1>1, <2>2, <2>7 DEF PoolInv, l, d, h
<1>3. CASE StopReturns
  <2>1. BringOutYourDead /\ stops' = stops + 1 /\ UNCHANGED <<active, change, overlap>>
    BY <1>3 DEF StopReturns, connVars, monitorVars
  <2>2. Threats' = Threats
    BY <2>1 DEF Threats
  <2>3. l' = l /\ d' = Cardinality(Dying) /\ doomed' = h + d' /\ d' <= d /\ h' = h
    BY <2>1, <2>2, OutPool
  <2>4. d' \in Nat
    BY <2>3, Sizes DEF RocketTypes
  <2> HIDE DEF l, d, h
  <2>5. PoolNumbers(l, d, h)'
    BY <1>1, <2>1, <2>3, <2>4 DEF PoolNumbers, Up
  <2> QED  BY <1>1, <2>1, <2>5 DEF PoolInv, l, d, h
<1> QED  BY <1>2, <1>3

LEMMA PoolStep == RocketInv /\ StopInv /\ PoolInv /\ [RocketNext]_rocketVars => PoolInv'
<1> SUFFICES ASSUME RocketInv, StopInv, PoolInv, [RocketNext]_rocketVars PROVE PoolInv'
  OBVIOUS
<1>1. RocketTypes /\ stops \in Nat
  BY DEF RocketInv, StopInv
<1>2. CASE \E c \in Conn : Accept(c)
  BY <1>1, <1>2, AcceptPool DEF Accept, poolVars, monitorVars, stopVars
<1>3. CASE \E t \in Thread : WorkerNext(t)
  BY <1>1, <1>3, WorkerPool
<1>4. CASE MonitorRestore
  BY <1>1, <1>4, AcceptPool DEF MonitorRestore, RocketTypes, poolVars, stopVars
<1>5. CASE MonitorCount \/ MonitorResize
  BY <1>1, <1>5, CountPool, ResizePool
<1>6. CASE StopWorkers \/ StopReturns
  BY <1>1, <1>6, StopPool
<1>7. CASE \/ ListenerExits \/ StopListeners \/ UNCHANGED rocketVars
           \/ MonitorTest \/ MonitorGet \/ MonitorThreatened \/ MonitorSelect \/ MonitorRemove \/ MonitorStale
           \/ StopMonitor \/ StopDrops \/ StopTest \/ StopGet
  <2>1. UNCHANGED <<active, worker, doomed, overlap, change>>
    BY <1>7 DEF ListenerExits, StopListeners, rocketVars, MonitorTest, MonitorGet, MonitorThreatened,
       MonitorSelect, MonitorRemove, MonitorStale, StopMonitor, StopDrops, StopTest, StopGet,
       connVars, poolVars, monitorVars
  <2>2. Up(stopper, stops)' => Up(stopper, stops)
    BY <1>7 DEF ListenerExits, StopListeners, rocketVars, MonitorTest, MonitorGet, MonitorThreatened,
       MonitorSelect, MonitorRemove, MonitorStale, StopMonitor, StopDrops, StopTest, StopGet,
       connVars, poolVars, monitorVars, stopVars, Up
  <2>3. Living' = Living /\ Doomed' = Doomed /\ Threats' = Threats
    BY <2>1 DEF Living, Doomed, Dying, Dead, Threats
  <2> QED  BY <2>1, <2>2, <2>3, PoolKept DEF PoolInv
<1> QED  BY <1>2, <1>3, <1>4, <1>5, <1>6, <1>7 DEF RocketNext, MonitorNext, StopNext

\* The pool keeps its limits, whatever is queued, dies or is counted meanwhile: maxthreads
\* above, and minthreads below but for the threads that were dying when they were counted
\* (dynamic_resize, grow, shrink, bring_out_your_dead, ThreadPool.stop).
THEOREM PoolKeepsItsSize == RocketSpec => []PoolSize
<1>1. RocketInv /\ PoolInv => PoolSize
  BY PoolEnough DEF RocketInv
<1> QED  BY <1>1, RocketInvHolds, InitStops, StopStep, InitPool, PoolStep, PTL DEF RocketSpec

=============================================================================
