------------------------- MODULE PicVoteHistoryProof -------------------------
(***************************************************************************)
(* How far off the number of get_thumb_count_on_post can be, for any       *)
(* number of users, sessions and requests.                                 *)
(***************************************************************************)
EXTENDS PicVoteHistory, PicServerProof, FunctionTheorems

-----------------------------------------------------------------------------
(* Rows of the table thumb. *)

Likes(p) == RowsWith(p, "u")

LikesIn(rows, p) == {i \in DOMAIN rows : rows[i].post = p /\ rows[i].state = "u"}

\* A post has a like per user at most, if a user has a row per post.
LEMMA LikesInRows ==
    ASSUME NEW rows \in Seq(Thumb), NEW p
    PROVE  /\ IsFiniteSet(LikesIn(rows, p)) /\ Cardinality(LikesIn(rows, p)) \in Nat
           /\ (\A i, j \in DOMAIN rows : rows[i].post = rows[j].post /\ rows[i].user = rows[j].user => i = j)
                 => Cardinality(LikesIn(rows, p)) <= Cardinality(User)
<1> DEFINE L == LikesIn(rows, p)
<1>1. IsFiniteSet(L) /\ Cardinality(L) \in Nat
    <2>1. IsFiniteSet(1..Len(rows)) /\ L \subseteq 1..Len(rows)
        BY FS_Interval DEF LikesIn
    <2> QED
        BY <2>1, FS_Subset, FS_CardinalityType
<1>2. ASSUME \A i, j \in DOMAIN rows : rows[i].post = rows[j].post /\ rows[i].user = rows[j].user => i = j
      PROVE  Cardinality(L) <= Cardinality(User)
    <2> DEFINE f == [i \in L |-> rows[i].user]
    <2>1. \A i \in L : i \in DOMAIN rows /\ rows[i].post = p /\ rows[i].user \in User
        <3>1. \A i \in DOMAIN rows : rows[i] \in Thumb
            OBVIOUS
        <3> QED
            BY <3>1 DEF LikesIn, Thumb
    <2>2. \A i, j \in L : rows[i].user = rows[j].user => i = j
        BY <1>2, <2>1
    <2>3. f \in Injection(L, User)
        BY <2>1, <2>2 DEF Injection, IsInjective
    <2> HIDE DEF f
    <2> QED
        BY <2>3, VoterAssumption, FS_Injection
<1> QED
    BY <1>1, <1>2

LEMMA LikesNumbers ==
    ASSUME TypeOK, NEW p
    PROVE  /\ IsFiniteSet(Likes(p)) /\ Cardinality(Likes(p)) \in Nat
           /\ OneThumbPerUser /\ OneSessionEach => Cardinality(Likes(p)) <= Cardinality(User)
<1>1. thumbs \in Seq(Thumb) /\ Likes(p) = LikesIn(thumbs, p)
    BY DEF TypeOK, Likes, RowsWith, LikesIn
<1> QED
    BY <1>1, LikesInRows DEF OneThumbPerUser

LEMMA LikesNumbersNext ==
    ASSUME TypeOK', NEW p
    PROVE  /\ IsFiniteSet(Likes(p)') /\ Cardinality(Likes(p)') \in Nat
           /\ OneThumbPerUser' /\ OneSessionEach => Cardinality(Likes(p)') <= Cardinality(User)
<1>1. thumbs' \in Seq(Thumb) /\ Likes(p)' = LikesIn(thumbs', p)
    BY DEF TypeOK, Likes, RowsWith, LikesIn
<1> QED
    BY <1>1, LikesInRows DEF OneThumbPerUser, OneSessionEach

\* The second statement of set_thumb touches one row, which is of its post.
LEMMA OneRow ==
    ASSUME TypeOK, SeenInv, NEW q \in Req, StoreThumb(q), NEW p
    PROVE  /\ \E k : Likes(p)' \ {k} = Likes(p) \ {k}
           /\ p # req[q].query.id => Likes(p)' = Likes(p)
<1> DEFINE id == req[q].query.id
           row == [post |-> id, user |-> UserOf(q), state |-> req[q].query.val]
<1>0. /\ DOMAIN thumbs = 1..Len(thumbs) /\ Len(thumbs) \in Nat /\ thumbs \in Seq(Thumb)
    BY DEF TypeOK
<1>1. CASE req[q].seen # 0
    <2>1. req[q].seen \in DOMAIN thumbs /\ thumbs[req[q].seen].post = id
        BY <1>1 DEF StoreThumb, At, SeenInv, StillThere, ThumbRows
    <2>2. thumbs' = [thumbs EXCEPT ![req[q].seen] = row] /\ row.post = id
        BY <1>1 DEF StoreThumb
    <2> HIDE DEF row
    <2>3. /\ DOMAIN thumbs' = DOMAIN thumbs /\ thumbs'[req[q].seen].post = id
          /\ \A i \in DOMAIN thumbs \ {req[q].seen} : thumbs'[i] = thumbs[i]
        BY <2>1, <2>2
    <2>4. Likes(p)' \ {req[q].seen} = Likes(p) \ {req[q].seen}
        BY <2>3 DEF Likes, RowsWith
    <2>5. p # id => Likes(p)' = Likes(p)
        BY <2>1, <2>3 DEF Likes, RowsWith
    <2> QED
        BY <2>4, <2>5
<1>2. CASE req[q].seen = 0
    <2>1. thumbs' = Append(thumbs, row) /\ row.post = id
        BY <1>2 DEF StoreThumb
    <2> HIDE DEF row
    <2>2. /\ DOMAIN thumbs' = 1..(Len(thumbs) + 1) /\ thumbs'[Len(thumbs) + 1] = row
          /\ \A i \in 1..Len(thumbs) : thumbs'[i] = thumbs[i]
        BY <1>0, <2>1
    <2>3. \A i : i \in 1..(Len(thumbs) + 1) <=> i \in 1..Len(thumbs) \/ i = Len(thumbs) + 1
        BY <1>0
    <2>4. Len(thumbs) + 1 \notin 1..Len(thumbs)
        BY <1>0
    <2>5. Likes(p)' \ {Len(thumbs) + 1} = Likes(p) \ {Len(thumbs) + 1}
        BY <1>0, <2>2, <2>3, <2>4 DEF Likes, RowsWith
    <2>6. p # id => Likes(p)' = Likes(p)
        BY <1>0, <2>1, <2>2, <2>3, <2>4 DEF Likes, RowsWith
    <2> QED
        BY <2>5, <2>6
<1> QED
    BY <1>1, <1>2

\* So a step changes the number of likes of a post by one, if it stores a vote on it.
LEMMA LikesChange ==
    ASSUME ServerInv, ServerInv', Next, NEW p
    PROVE  /\ StoredFor(p) => Distance(Cardinality(Likes(p)), Cardinality(Likes(p)')) <= 1
           /\ ~StoredFor(p) => Likes(p)' = Likes(p)
<1>0. TypeOK /\ SeenInv /\ TypeOK'
    BY DEF ServerInv, UpsertInv
<1>1. /\ IsFiniteSet(Likes(p)) /\ Cardinality(Likes(p)) \in Nat
      /\ IsFiniteSet(Likes(p)') /\ Cardinality(Likes(p)') \in Nat
    BY <1>0, LikesNumbers, LikesNumbersNext
<1>2. ASSUME StoredFor(p) PROVE Distance(Cardinality(Likes(p)), Cardinality(Likes(p)')) <= 1
    <2>1. PICK k : Likes(p)' \ {k} = Likes(p) \ {k}
        BY <1>0, <1>2, OneRow DEF StoredFor
    <2> DEFINE n == Cardinality(Likes(p) \ {k})
    <2>2. n = IF k \in Likes(p) THEN Cardinality(Likes(p)) - 1 ELSE Cardinality(Likes(p))
        BY <1>1, FS_RemoveElement
    <2>3. Cardinality(Likes(p)' \ {k}) = IF k \in Likes(p)' THEN Cardinality(Likes(p)') - 1 ELSE Cardinality(Likes(p)')
        BY <1>1, FS_RemoveElement
    <2>4. Cardinality(Likes(p)' \ {k}) = n
        BY <2>1
    <2> HIDE DEF n
    <2>5. /\ n = Cardinality(Likes(p)) \/ n = Cardinality(Likes(p)) - 1
          /\ n = Cardinality(Likes(p)') \/ n = Cardinality(Likes(p)') - 1
        BY <2>2, <2>3, <2>4
    <2> QED
        BY <1>1, <2>5 DEF Distance
<1>3. ASSUME ~StoredFor(p) PROVE Likes(p)' = Likes(p)
    <2>1. CASE Clients
        BY <2>1 DEF Clients, tables, Likes, RowsWith
    <2>2. ASSUME NEW q \in Req, Step(q) PROVE Likes(p)' = Likes(p)
        <3>1. CASE StoreThumb(q)
            BY <1>0, <1>3, <3>1, OneRow DEF StoredFor
        <3>2. CASE ~StoreThumb(q)
            <4>1. thumbs' = thumbs
                BY <2>2, <3>2, TablesKept DEF Step, Serve, Write, AddPost, InsertComment, FindRecord,
                                        StoreContent, StoreComment, StoreImage, tables
            <4> QED
                BY <4>1 DEF Likes, RowsWith
        <3> QED
            BY <3>1, <3>2
    <2> QED
        BY <2>1, <2>2 DEF Next
<1> QED
    BY <1>2, <1>3

-----------------------------------------------------------------------------
(* The invariant: what a call has counted is off by the votes it missed. *)

Missed(r) ==
    /\ req[r].seen \in 0..Cardinality(User)
    /\ Distance(req[r].seen, Cardinality(Likes(req[r].query.id))) <= missed[r]

MissedInv ==
    /\ missed \in [Req -> 0..Cardinality(User)]
    /\ \A r \in Req : Counting(r) => Missed(r)

\* A call that has counted the likes did it in this step, or keeps their number.
LEMMA CountsOnce ==
    ASSUME TypeOK, Next, NEW r \in Req, Counting(r)'
    PROVE  \/ Counting(r) /\ req'[r] = req[r]
           \/ CountLikes(r) /\ ~Counting(r)
<1>0. req \in [Req -> {Free} \cup Request]
    BY DEF TypeOK
<1>1. CASE Clients
    <2>1. req'[r] = req[r]
        BY <1>1, ClientsTyped DEF Counting, At
    <2> QED
        BY <2>1 DEF Counting, At
<1>2. ASSUME NEW q \in Req, Step(q), q # r PROVE Counting(r) /\ req'[r] = req[r]
    <2>1. req'[r] = req[r]
        BY <1>0, <1>2, StepMoves DEF Moves
    <2> QED
        BY <2>1 DEF Counting, At
<1>3. CASE Step(r)
    <2>1. /\ Serve(r) /\ req'[r].pc = "half" /\ req'[r].query = req[r].query
          /\ req'[r].query.op = "get_thumb_count_on_post"
        BY <1>0, <1>3, HalfDone, StepMoves DEF Counting, At, Moves
    <2>2. ~\E status, number, cards, rows : Finish(r, status, number, cards, rows)
        BY <1>0, <2>1 DEF Finish
    <2>3. ~Refuse(r) /\ ~Invalid(r)
        BY <2>2 DEF Refuse, Invalid, AnswerError
    <2>4. Read(r) => SelectPosts(r) \/ CountLikes(r)
        BY <2>2 DEF Read, AskSession, SelectThumbs, CountDislikes, GetComments, GetImage, Answer, AnswerCards, AnswerRows
    <2>5. Write(r) => FindRecord(r)
        BY <2>2 DEF Write, AddPost, InsertComment, StoreThumb, StoreContent, StoreComment, StoreImage, Answer, AnswerDone
    <2>6. ~SelectPosts(r) /\ ~FindRecord(r)
        BY <2>1 DEF SelectPosts, FindRecord, At, Lists
    <2>7. CountLikes(r)
        BY <2>1, <2>3, <2>4, <2>5, <2>6 DEF Serve
    <2> QED
        BY <2>7 DEF CountLikes, Counting, At
<1> QED
    BY <1>1, <1>2, <1>3 DEF Next

LEMMA MissedStep ==
    ASSUME OneSessionEach, ServerInv, ServerInv', MissedInv, HistoryNext
    PROVE  MissedInv'
<1>0. /\ TypeOK /\ OneThumbPerUser /\ TypeOK' /\ OneThumbPerUser' /\ SeenInv
      /\ Cardinality(User) \in Nat /\ Next /\ Observe
    BY VoterAssumption, FS_CardinalityType DEF ServerInv, UpsertInv, HistoryNext
<1> DEFINE N == Cardinality(User)
<1>1. ASSUME NEW r \in Req
      PROVE  missed'[r] = IF ~Counting(r) THEN 0
                          ELSE IF StoredFor(req[r].query.id) /\ missed[r] < N THEN missed[r] + 1
                          ELSE missed[r]
    BY <1>0 DEF Observe
<1>2. missed' \in [Req -> 0..N]
    <2>1. \A r \in Req : missed'[r] \in 0..N
        <3> SUFFICES ASSUME NEW r \in Req PROVE missed'[r] \in 0..N
            OBVIOUS
        <3>1. missed[r] \in 0..N
            BY DEF MissedInv
        <3>2. missed'[r] = 0 \/ (missed[r] < N /\ missed'[r] = missed[r] + 1) \/ missed'[r] = missed[r]
            BY <1>1
        <3> HIDE DEF N
        <3>3. N \in Nat
            BY <1>0 DEF N
        <3> QED
            BY <3>1, <3>2, <3>3
    <2>2. missed' = [r \in Req |-> missed'[r]]
        BY <1>0 DEF Observe
    <2> QED
        BY <2>1, <2>2
<1>3. ASSUME NEW p PROVE /\ Cardinality(Likes(p)) \in 0..N
                         /\ Cardinality(Likes(p)') \in 0..N
    BY <1>0, LikesNumbers, LikesNumbersNext
<1>4. ASSUME NEW r \in Req, Counting(r)' PROVE Missed(r)'
    <2>0. PICK p : p = req[r].query.id
        OBVIOUS
    <2> DEFINE a == Cardinality(Likes(p))
               b == Cardinality(Likes(p)')
    <2>1. CASE CountLikes(r) /\ ~Counting(r)
        <3>1. Keep(r, a) /\ thumbs' = thumbs /\ req[r].pc = "begun" /\ a \in 0..N
            BY <1>3, <2>0, <2>1 DEF CountLikes, tables, Likes, At
        <3>2. req'[r].seen = a /\ req'[r].query = req[r].query
            BY <1>0, <3>1, KeepMoves
        <3>3. Likes(p)' = Likes(p)
            BY <3>1 DEF Likes, RowsWith
        <3>4. missed'[r] = 0
            BY <1>1, <2>1
        <3>5. Distance(a, a) <= 0
            BY <3>1 DEF Distance
        <3> QED
            BY <2>0, <3>1, <3>2, <3>3, <3>4, <3>5 DEF Missed
    <2>2. CASE Counting(r) /\ req'[r] = req[r]
        <3>1. /\ req[r].seen \in 0..N /\ Distance(req[r].seen, a) <= missed[r] /\ missed[r] \in 0..N
            BY <2>0, <2>2 DEF MissedInv, Missed
        <3>2. a \in 0..N /\ b \in 0..N
            BY <1>3
        <3>3. /\ StoredFor(p) => Distance(a, b) <= 1
              /\ ~StoredFor(p) => b = a
            <4>1. ~StoredFor(p) => Likes(p)' = Likes(p)
                BY <1>0, LikesChange
            <4> QED
                BY <1>0, <4>1, LikesChange
        <3>4. missed'[r] = IF StoredFor(p) /\ missed[r] < N THEN missed[r] + 1 ELSE missed[r]
            BY <1>1, <2>0, <2>2
        <3>5. Distance(req[r].seen, b) <= missed'[r]
            <4> HIDE DEF a, b, N
            <4>0. N \in Nat
                BY <1>0 DEF N
            <4>1. CASE ~StoredFor(p)
                BY <3>1, <3>3, <3>4, <4>1
            <4>2. CASE StoredFor(p) /\ missed[r] < N
                <5>1. Distance(a, b) <= 1 /\ missed'[r] = missed[r] + 1
                    BY <3>3, <3>4, <4>2
                <5> QED
                    BY <3>1, <3>2, <4>0, <5>1 DEF Distance
            <4>3. CASE StoredFor(p) /\ ~(missed[r] < N)
                <5>1. missed'[r] = N
                    BY <3>1, <3>4, <4>0, <4>3
                <5> QED
                    BY <3>1, <3>2, <4>0, <5>1 DEF Distance
            <4> QED
                BY <4>1, <4>2, <4>3
        <3> QED
            BY <2>0, <2>2, <3>1, <3>5 DEF Missed
    <2> QED
        BY <1>0, <1>4, <2>1, <2>2, CountsOnce
<1> QED
    BY <1>2, <1>4 DEF MissedInv

LEMMA MissedStarts == HistoryInit => MissedInv
<1>1. Cardinality(User) \in Nat
    BY VoterAssumption, FS_CardinalityType
<1> QED
    BY <1>1 DEF HistoryInit, Init, MissedInv, Counting, At, Free

LEMMA MissedStutters ==
    ASSUME MissedInv, UNCHANGED historyVars
    PROVE  MissedInv'
BY DEF historyVars, serverVars, tables, MissedInv, Counting, At, Missed, Likes, RowsWith

\* What the call answers is off as far as what it counted.
LEMMA AnswerDrifts ==
    ASSUME TypeOK, MissedInv, NEW r \in Req, CountDislikes(r)
    PROVE  Distance(req'[r].number, Count(req[r].query.id)) <= missed[r]
<1> DEFINE p == req[r].query.id
           a == Cardinality(Likes(p))
           d == Cardinality(RowsWith(p, "d"))
<1>1. req[r].seen \in Nat /\ Distance(req[r].seen, a) <= missed[r]
    <2>1. Missed(r)
        BY DEF MissedInv, CountDislikes, Counting
    <2>2. Cardinality(User) \in Nat
        BY VoterAssumption, FS_CardinalityType
    <2> QED
        BY <2>1, <2>2 DEF Missed
<1>2. req'[r].number = req[r].seen - d
    BY DEF CountDislikes, Answer, Finish, TypeOK
<1>3. Count(p) = a - d
    BY DEF Count, Likes
<1>4. a \in Nat /\ d \in Nat
    BY CountTyped DEF Likes
<1>5. missed[r] \in Nat
    <2>1. Cardinality(User) \in Nat
        BY VoterAssumption, FS_CardinalityType
    <2> QED
        BY <2>1 DEF MissedInv
<1> HIDE DEF a, d
<1> QED
    BY <1>1, <1>2, <1>3, <1>4, <1>5 DEF Distance

-----------------------------------------------------------------------------
(* The theorem. *)

\* When every user is logged in from one browser at most, the number that
\* get_thumb_count_on_post answers is off by at most one per vote that was stored between its
\* two statements, and by at most one per user however many votes those are.
THEOREM CountsDriftLittle == OneSessionEach => (HistorySpec => CountDrift)
<1> SUFFICES ASSUME OneSessionEach PROVE HistorySpec => CountDrift
    OBVIOUS
<1> DEFINE Inv == ServerInv /\ MissedInv
           Off == \A r \in Req : CountDislikes(r) =>
                     Distance(req'[r].number, Count(req[r].query.id)) <= missed[r]
<1>1. HistoryInit => Inv
    BY ServerStarts, MissedStarts DEF HistoryInit
<1>2. Inv /\ [HistoryNext]_historyVars => Inv'
    <2>1. [HistoryNext]_historyVars => [Next]_serverVars
        BY DEF HistoryNext, historyVars
    <2>2. ServerInv /\ [HistoryNext]_historyVars => ServerInv'
        BY <2>1, ServerStays
    <2> QED
        BY <2>2, MissedStep, MissedStutters
<1>3. Inv /\ [HistoryNext]_historyVars => [Off]_historyVars
    BY AnswerDrifts DEF ServerInv
<1> QED
    BY <1>1, <1>2, <1>3, PTL DEF HistorySpec, CountDrift

=============================================================================
