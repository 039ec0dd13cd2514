--------------------------- MODULE PicProfileProof ---------------------------
(***************************************************************************)
(* Theorems of PicProfile, for any number of users, sessions, pages and    *)
(* calls under way.                                                        *)
(***************************************************************************)
EXTENDS PicProfile, PicServerProof, FunctionTheorems

-----------------------------------------------------------------------------
(* The invariant. *)

Closure == [tab : Tab, post : Nat]

ProfileTyped ==
    /\ page \in [Tab -> Page]
    /\ call \in [Req -> {NoCall} \cup Closure]

Ready(r) == req[r].pc \in {"done", "answered"}

\* A list names posts that are there; the posts are selected before its cards are built.
Listed ==
    \A r \in Req :
        /\ At(r, "half", Lists) => req[r].seen \in 0..Len(posts)
        /\ Ready(r) => \A k \in DOMAIN req[r].cards : req[r].cards[k].id \in DOMAIN posts

\* The server tells the author by the session of the call.
AuthorTold ==
    \A r \in Req : Ready(r) /\ req[r].query.op = "is_author" /\ req[r].status = 200 =>
        req[r].number = IF UserOf(r) = req[r].query.author THEN 1 ELSE 0

\* A call that a page waits for: its list, or the author of a post that it does not count yet.
CallOK(r) ==
    LET t == call[r].tab
        i == call[r].post
        list == page[t].post_list
    IN  call[r] # NoCall =>
          /\ req[r].pc # "free" /\ req[r].query.sess = TabSession[t]
          /\ i = 0 => req[r].query.op = "get_post_list" /\ page[t].state = "loading"
          /\ i # 0 => /\ req[r].query.op = "is_author" /\ page[t].state = "loaded"
                      /\ i \in DOMAIN list
                      /\ req[r].query.author = list[i].author /\ ~list[i].isMine

\* Of each of these there is one call.
CallsApart == \A x, y \in Req : call[x] # NoCall /\ call[x] = call[y] => x = y

\* Before the list is there nothing is counted, and then each post of the viewer is, or is
\* asked about.
PageOK(t) ==
    /\ page[t].state # "loaded" => page[t].post_list = <<>>
    /\ Gallery(t) \subseteq Own(t)
    /\ \A i \in Own(t) \ Gallery(t) : \E r \in Req : call[r] = [tab |-> t, post |-> i]
    /\ page[t].num_posts = Cardinality(Gallery(t))

CountInv ==
    ProfileTyped /\ (\A r \in Req : CallOK(r)) /\ CallsApart /\ \A t \in Tab : PageOK(t)

ProfileInv == ServerInv /\ Listed /\ AuthorTold /\ CountInv

-----------------------------------------------------------------------------
(* What the server answers. *)

LEMMA CardsListed ==
    ASSUME NEW n \in Nat, NEW u, NEW k \in DOMAIN Cards(n, u)
    PROVE  Cards(n, u)[k].id = k /\ k \in 1..n
  BY DEF Cards

\* Posts are never removed.
LEMMA PostsGrow ==
    ASSUME TypeOK, SeenInv, NEW r \in Req, Step(r)
    PROVE  /\ DOMAIN posts \subseteq DOMAIN posts' /\ Len(posts) \in Nat /\ Len(posts') \in Nat
           /\ Len(posts) <= Len(posts')
<1>1. DOMAIN posts \subseteq DOMAIN posts'
  BY StepKeepsRows DEF RowsKept
<1>2. TypeOK'
  BY TypeStep DEF Next
<1>3. /\ Len(posts) \in Nat /\ DOMAIN posts = 1..Len(posts)
      /\ Len(posts') \in Nat /\ DOMAIN posts' = 1..Len(posts')
  BY <1>2 DEF TypeOK
<1>4. Len(posts) <= Len(posts')
  <2>1. CASE Len(posts) = 0
    BY <1>3, <2>1
  <2>2. CASE Len(posts) # 0
    <3>1. Len(posts) \in DOMAIN posts'
      BY <1>1, <1>3, <2>2
    <3> QED  BY <1>3, <3>1
  <2> QED  BY <2>1, <2>2
<1> QED  BY <1>1, <1>3, <1>4

LEMMA ListedStep ==
    ASSUME TypeOK, SeenInv, Listed, NEW r \in Req, Step(r)
    PROVE  Listed'
<1>0. req \in [Req -> {Free} \cup Request]
  BY DEF TypeOK
<1>1. /\ DOMAIN posts \subseteq DOMAIN posts' /\ Len(posts) \in Nat /\ Len(posts') \in Nat
      /\ Len(posts) <= Len(posts')
  BY PostsGrow
<1>2. ASSUME NEW x \in Req, x # r
      PROVE  /\ At(x, "half", Lists)' => req'[x].seen \in 0..Len(posts')
             /\ Ready(x)' => \A k \in DOMAIN req'[x].cards : req'[x].cards[k].id \in DOMAIN posts'
  <2>1. req'[x] = req[x]
    BY <1>0, <1>2, StepMoves DEF Moves
  <2> QED  BY <1>1, <2>1 DEF Listed, At, Ready
<1>3. At(r, "half", Lists)' => req'[r].seen \in 0..Len(posts')
  <2>1. SUFFICES ASSUME At(r, "half", Lists)' PROVE req'[r].seen \in 0..Len(posts)
    BY <1>1
  <2>2. Serve(r) /\ req'[r].pc = "half" /\ req'[r].query.op \in Lists /\ req'[r].query = req[r].query
    BY <1>0, <2>1, HalfDone, StepMoves DEF At, Moves
  <2>3. SelectPosts(r)
    <3>1. ~\E status, number, cards, rows : Finish(r, status, number, cards, rows)
      BY <1>0, <2>2 DEF Finish
    <3>2. ~Refuse(r) /\ ~Invalid(r)
      BY <3>1 DEF Refuse, Invalid, AnswerError
    <3>3. Read(r) => SelectPosts(r) \/ CountLikes(r)
      BY <3>1 DEF Read, AskSession, SelectThumbs, CountDislikes, GetComments, GetImage, Answer, AnswerCards, AnswerRows
    <3>4. Write(r) => FindRecord(r)
      BY <3>1 DEF Write, AddPost, InsertComment, StoreThumb, StoreContent, StoreComment, StoreImage, Answer, AnswerDone
    <3>5. ~CountLikes(r) /\ ~FindRecord(r)
      BY <2>2 DEF CountLikes, FindRecord, At, Lists
    <3> QED  BY <2>2, <3>2, <3>3, <3>4, <3>5 DEF Serve
  <2>4. Keep(r, Len(posts)) /\ req[r].pc = "begun"
    BY <1>0, <2>2, <2>3 DEF SelectPosts, AnswerCards, Finish, At
  <2>5. req'[r].seen = Len(posts)
    BY <1>1, <2>4, KeepMoves
  <2> QED  BY <1>1, <2>5
<1>4. Ready(r)' => \A k \in DOMAIN req'[r].cards : req'[r].cards[k].id \in DOMAIN posts'
  <2>1. CASE req'[r].pc # "done"
    BY <1>1, <2>1, KeepsAnswer DEF Listed, Ready
  <2>2. CASE req'[r].pc = "done" /\ ~SelectThumbs(r)
    BY <2>2, OnlyListsCards DEF NoCards
  <2>3. CASE SelectThumbs(r)
    <3>1. req'[r].cards = Cards(req[r].seen, UserOf(r)) /\ req[r].seen \in 0..Len(posts)
      BY <1>0, <2>3 DEF SelectThumbs, AnswerCards, Finish, Listed
    <3>2. req[r].seen \in Nat /\ 1..req[r].seen \subseteq DOMAIN posts
      BY <1>1, <3>1 DEF TypeOK
    <3> QED  BY <1>1, <3>1, <3>2, CardsListed
  <2> QED  BY <2>1, <2>2, <2>3
<1> QED  BY <1>2, <1>3, <1>4 DEF Listed

LEMMA AuthorStep ==
    ASSUME TypeOK, AuthorTold, NEW r \in Req, Step(r)
    PROVE  AuthorTold'
<1>0. req \in [Req -> {Free} \cup Request]
  BY DEF TypeOK
<1>1. ASSUME NEW x \in Req, Ready(x)', req'[x].query.op = "is_author", req'[x].status = 200
      PROVE  req'[x].number = IF UserOf(x)' = req'[x].query.author THEN 1 ELSE 0
  <2>1. CASE x # r
    <3>1. req'[x] = req[x]
      BY <1>0, <2>1, StepMoves DEF Moves
    <3> QED  BY <1>1, <3>1 DEF AuthorTold, Ready, UserOf
  <2>2. CASE x = r /\ req'[r].pc # "done"
    <3>1. /\ req'[r].query = req[r].query /\ req'[r].status = req[r].status /\ req'[r].number = req[r].number
          /\ req[r].pc = "done"
      BY <1>1, <2>2, KeepsAnswer DEF Ready
    <3> QED  BY <1>1, <2>2, <3>1 DEF AuthorTold, Ready, UserOf
  <2>3. CASE x = r /\ req'[r].pc = "done"
    <3>1. req'[r].query = req[r].query
      BY <1>0, StepMoves DEF Moves
    <3>2. req[r].query.op = "is_author"
      BY <1>1, <2>3, <3>1
    <3>3. ~Connect(r) /\ ~Release(r)
      BY <1>0, <2>3, ConnectMoves, ReleaseMoves DEF Moves
    <3>4. ~Raise(r) /\ ~LoseCommit(r) /\ ~Invalid(r) /\ ~Write(r)
      BY <3>2 DEF Raise, LoseCommit, Invalid, BadWrite, Writing, Write, AddPost, InsertComment, FindRecord,
                  StoreThumb, StoreContent, StoreComment, StoreImage, At, Inserts, Upserts
    <3>5. ~Refuse(r)
      BY <1>0, <1>1, <2>3 DEF Refuse, AnswerError, Finish
    <3>6. AskSession(r)
      BY <3>2, <3>3, <3>4, <3>5 DEF Step, Serve, Read, SelectPosts, SelectThumbs, CountLikes, CountDislikes,
                                    GetComments, GetImage, At, Lists
    <3>7. Answer(r, IF UserOf(r) = req[r].query.author THEN 1 ELSE 0)
      BY <3>2, <3>6 DEF AskSession, At
    <3>8. req'[r].number = IF UserOf(r) = req[r].query.author THEN 1 ELSE 0
      BY <1>0, <3>7 DEF Answer, Finish
    <3> QED  BY <2>3, <3>1, <3>8 DEF UserOf
  <2> QED  BY <2>1, <2>2, <2>3
<1> QED  BY <1>1 DEF AuthorTold

-----------------------------------------------------------------------------
(* What the pages do to the server. *)

\* Clients take answers and send well-formed queries.
Drives ==
    /\ UNCHANGED <<tables, lock, faults>>
    /\ req' = [x \in Req |-> req'[x]]
    /\ \A x \in Req :
          \/ req'[x] = req[x]
          \/ req[x].pc = "answered" /\ req'[x] = Free
          \/ req[x].pc \in {"free", "answered"} /\ \E query \in Query : req'[x] = Sent(query)

LEMMA DrivesKeeps ==
    ASSUME Listed, AuthorTold, Drives
    PROVE  Clients /\ Listed' /\ AuthorTold'
<1>1. Clients
  BY DEF Drives, Clients, Sent
<1>2. posts' = posts
  BY DEF Drives, tables
<1>3. ASSUME NEW x \in Req, req'[x] # req[x]
      PROVE  req'[x].pc \in {"free", "sent"}
  BY <1>3 DEF Drives, Free, Sent
<1>4. Listed'
  <2> SUFFICES ASSUME NEW x \in Req
               PROVE  /\ At(x, "half", Lists)' => req'[x].seen \in 0..Len(posts')
                      /\ Ready(x)' => \A k \in DOMAIN req'[x].cards : req'[x].cards[k].id \in DOMAIN posts'
    BY DEF Listed
  <2>1. CASE req'[x] = req[x]
    BY <1>2, <2>1 DEF Listed, At, Ready
  <2>2. CASE req'[x] # req[x]
    BY <1>3, <2>2 DEF At, Ready
  <2> QED  BY <2>1, <2>2
<1>5. AuthorTold'
  <2> SUFFICES ASSUME NEW x \in Req, Ready(x)', req'[x].query.op = "is_author", req'[x].status = 200
               PROVE  req'[x].number = IF UserOf(x)' = req'[x].query.author THEN 1 ELSE 0
    BY DEF AuthorTold
  <2>1. req'[x] = req[x]
    BY <1>3 DEF Ready
  <2> QED  BY <2>1 DEF AuthorTold, Ready, UserOf
<1> QED  BY <1>1, <1>4, <1>5

LEMMA IssueDrives ==
    ASSUME NEW r \in Req, NEW query \in Query, Issue([x \in {r} |-> query])
    PROVE  /\ Drives /\ req[r] = Free /\ req'[r] = Sent(query)
           /\ \A x \in Req \ {r} : req'[x] = req[x]
<1> DEFINE batch == [x \in {r} |-> query]
<1>1. DOMAIN batch = {r} /\ batch[r] = query
  OBVIOUS
<1> HIDE DEF batch
<1>2. /\ req[r] = Free /\ req' = [x \in Req |-> IF x \in DOMAIN batch THEN Sent(batch[x]) ELSE req[x]]
      /\ UNCHANGED <<tables, lock, faults>>
  BY <1>1 DEF Issue, batch
<1> QED  BY <1>1, <1>2 DEF Drives, Free

LEMMA ReceiveDrives ==
    ASSUME TypeOK, NEW r \in Req, Receive(r)
    PROVE  Drives /\ req'[r] = Free /\ \A x \in Req \ {r} : req'[x] = req[x]
  BY DEF Receive, Drives, TypeOK

-----------------------------------------------------------------------------
(* What the steps do to the count. *)

LEMMA IsFree == \A r \in Req : req[r] = Free => req[r].pc = "free"
  BY DEF Free

\* A page waits for nothing before it asks for its list, and then for the list alone.
LEMMA Awaited ==
    ASSUME CountInv, NEW t \in Tab, NEW r \in Req, call[r] # NoCall, call[r].tab = t
    PROVE  /\ call[r] \in Closure /\ call[r] = [tab |-> t, post |-> call[r].post]
           /\ page[t].state \in {"loading", "loaded"}
           /\ page[t].state = "loading" <=> call[r].post = 0
<1>1. call[r] \in Closure
  BY DEF CountInv, ProfileTyped
<1>2. CallOK(r)
  BY DEF CountInv
<1> QED  BY <1>1, <1>2 DEF CallOK, Closure

LEMMA CallKept ==
    ASSUME NEW x \in Req, CallOK(x), call'[x] = call[x],
           call[x] # NoCall => /\ req'[x].pc # "free" /\ req'[x].query = req[x].query
                               /\ page'[call[x].tab] = page[call[x].tab]
    PROVE  CallOK(x)'
  BY DEF CallOK

LEMMA PageKept ==
    ASSUME ProfileTyped, NEW t \in Tab, PageOK(t), page'[t] = page[t],
           \A x \in Req : call[x] # NoCall /\ call[x].tab = t => call'[x] = call[x]
    PROVE  PageOK(t)'
<1>1. Own(t)' = Own(t) /\ Gallery(t)' = Gallery(t)
  BY DEF Own, Gallery
<1>2. ASSUME NEW i \in Own(t) \ Gallery(t)
      PROVE  \E r \in Req : call'[r] = [tab |-> t, post |-> i]
  <2>1. PICK r \in Req : call[r] = [tab |-> t, post |-> i]
    BY DEF PageOK
  <2>2. i \in Nat
    BY DEF Own, ProfileTyped, Page
  <2>3. call[r] # NoCall /\ call[r].tab = t
    BY <2>1, <2>2, CallAssumption DEF Closure
  <2> QED  BY <2>1, <2>3
<1> QED  BY <1>1, <1>2 DEF PageOK

\* A step that does not touch the pages, nor a call that one waits for.
LEMMA QuietCounts ==
    ASSUME CountInv, UNCHANGED profileVars,
           \A x \in Req : call[x] # NoCall => req'[x].pc # "free" /\ req'[x].query = req[x].query
    PROVE  CountInv'
<1>1. page' = page /\ call' = call
  BY DEF profileVars
<1>2. \A x \in Req : CallOK(x)'
  BY <1>1, CallKept DEF CountInv
<1>3. \A t \in Tab : PageOK(t)'
  BY <1>1, PageKept DEF CountInv
<1>4. ProfileTyped' /\ CallsApart'
  BY <1>1 DEF CountInv, ProfileTyped, CallsApart
<1> QED  BY <1>2, <1>3, <1>4 DEF CountInv

LEMMA ServedCounts ==
    ASSUME TypeOK, CountInv, NEW r \in Req, Step(r), UNCHANGED profileVars
    PROVE  CountInv'
<1>1. ASSUME NEW x \in Req, call[x] # NoCall
      PROVE  req'[x].pc # "free" /\ req'[x].query = req[x].query
  <2>1. req[x].pc # "free"
    BY <1>1 DEF CountInv, CallOK
  <2> QED  BY <2>1, StepMoves DEF Moves, TypeOK
<1> QED  BY <1>1, QuietCounts

LEMMA IgnoreCounts ==
    ASSUME TypeOK, CountInv, NEW r \in Req, Ignore(r)
    PROVE  Drives /\ CountInv'
<1>1. Receive(r) /\ call[r] = NoCall /\ UNCHANGED profileVars
  BY DEF Ignore
<1>2. Drives /\ \A x \in Req \ {r} : req'[x] = req[x]
  BY <1>1, ReceiveDrives
<1>3. ASSUME NEW x \in Req, call[x] # NoCall
      PROVE  req'[x].pc # "free" /\ req'[x].query = req[x].query
  BY <1>1, <1>2, <1>3 DEF CountInv, CallOK
<1> QED  BY <1>1, <1>2, <1>3, QuietCounts

LEMMA OtherCounts ==
    ASSUME CountInv, NEW r \in Req, Other(r)
    PROVE  Drives /\ CountInv'
<1>1. PICK q \in Others : Issue([x \in {r} |-> q])
  BY DEF Other
<1>2. Drives /\ req[r] = Free /\ \A x \in Req \ {r} : req'[x] = req[x]
  BY <1>1, IssueDrives, OthersAssumption
<1>3. ASSUME NEW x \in Req, call[x] # NoCall
      PROVE  req'[x].pc # "free" /\ req'[x].query = req[x].query
  BY <1>2, <1>3, IsFree DEF CountInv, CallOK
<1>4. UNCHANGED profileVars
  BY DEF Other
<1> QED  BY <1>2, <1>3, <1>4, QuietCounts

LEMMA OpenCounts ==
    ASSUME CountInv, NEW t \in Tab, Open(t)
    PROVE  UNCHANGED serverVars /\ CountInv'
<1>1. /\ page[t].state = "new" /\ page' = [page EXCEPT ![t].state = "open"]
      /\ UNCHANGED <<serverVars, call>>
  BY DEF Open
<1>2. /\ page \in [Tab -> Page] /\ call \in [Req -> {NoCall} \cup Closure]
  BY DEF CountInv, ProfileTyped
<1>3. \A u \in Tab \ {t} : page'[u] = page[u]
  BY <1>1, <1>2
<1>4. page[t] \in Page /\ page'[t] = [page[t] EXCEPT !.state = "open"]
  BY <1>1, <1>2
<1>5. page'[t] \in Page /\ page'[t].post_list = page[t].post_list /\ page'[t].num_posts = page[t].num_posts
  BY <1>4 DEF Page
<1>6. ProfileTyped'
  BY <1>1, <1>2, <1>3, <1>5 DEF ProfileTyped
<1>7. \A x \in Req : call[x] # NoCall => call[x].tab # t
  BY <1>1, Awaited
<1>8. \A x \in Req : CallOK(x)'
  <2> SUFFICES ASSUME NEW x \in Req PROVE CallOK(x)'
    OBVIOUS
  <2>1. call[x] # NoCall => call[x].tab \in Tab /\ req[x].pc # "free"
    BY <1>2 DEF CountInv, CallOK, Closure
  <2>2. req' = req /\ call' = call
    BY <1>1 DEF serverVars
  <2> QED  BY <1>3, <1>7, <2>1, <2>2, CallKept DEF CountInv
<1>9. \A u \in Tab : PageOK(u)'
  <2>1. ASSUME NEW u \in Tab, u # t PROVE PageOK(u)'
    BY <1>1, <1>3, <2>1, PageKept DEF CountInv
  <2>2. PageOK(t)'
    <3>1. PageOK(t) /\ page[t].post_list = <<>>
      BY <1>1 DEF CountInv, PageOK
    <3>2. Own(t) = {} /\ Gallery(t) = {} /\ Own(t)' = {} /\ Gallery(t)' = {}
      BY <1>5, <3>1 DEF Own, Gallery
    <3> QED  BY <1>5, <3>1, <3>2 DEF PageOK
  <2> QED  BY <2>1, <2>2
<1>10. CallsApart'
  BY <1>1 DEF CountInv, CallsApart
<1>11. UNCHANGED serverVars
  BY <1>1
<1> QED  BY <1>6, <1>8, <1>9, <1>10, <1>11 DEF CountInv

LEMMA EmptyCounts ==
    ASSUME NEW t \in Tab, page'[t].post_list = <<>>, page'[t].num_posts = 0
    PROVE  PageOK(t)'
<1>1. Own(t)' = {} /\ Gallery(t)' = {}
  BY DEF Own, Gallery
<1>2. Cardinality({}) = 0
  BY FS_EmptySet
<1> QED  BY <1>1, <1>2 DEF PageOK

LEMMA LeaveCounts ==
    ASSUME CountInv, NEW t \in Tab, Leave(t)
    PROVE  UNCHANGED serverVars /\ CountInv'
<1>1. /\ page' = [page EXCEPT ![t] = NewPage] /\ UNCHANGED serverVars
      /\ call' = [r \in Req |-> IF call[r] # NoCall /\ call[r].tab = t THEN NoCall ELSE call[r]]
  BY DEF Leave
<1>2. /\ page \in [Tab -> Page] /\ call \in [Req -> {NoCall} \cup Closure]
  BY DEF CountInv, ProfileTyped
<1>3. /\ \A u \in Tab \ {t} : page'[u] = page[u]
      /\ page'[t].post_list = <<>> /\ page'[t].num_posts = 0
  BY <1>1, <1>2 DEF NewPage
<1>4. NewPage \in Page
  BY DEF NewPage, Page
<1>5. ProfileTyped'
  BY <1>1, <1>2, <1>4 DEF ProfileTyped
<1>6. \A x \in Req : CallOK(x)'
  <2> SUFFICES ASSUME NEW x \in Req, call'[x] # NoCall PROVE CallOK(x)'
    BY DEF CallOK
  <2>1. call'[x] = call[x] /\ call[x] # NoCall /\ call[x].tab \in Tab \ {t}
    BY <1>1, <1>2 DEF Closure
  <2>2. CallOK(x) /\ req' = req
    BY <1>1 DEF CountInv, serverVars
  <2>3. req[x].pc # "free"
    BY <2>1, <2>2 DEF CallOK
  <2> QED  BY <1>3, <2>1, <2>2, <2>3, CallKept
<1>7. \A u \in Tab : PageOK(u)'
  <2>1. ASSUME NEW u \in Tab, u # t PROVE PageOK(u)'
    <3>1. \A x \in Req : call[x] # NoCall /\ call[x].tab = u => call'[x] = call[x]
      BY <1>1, <2>1
    <3> QED  BY <1>3, <2>1, <3>1, PageKept DEF CountInv
  <2> QED  BY <1>3, <2>1, EmptyCounts
<1>8. CallsApart'
  BY <1>1 DEF CountInv, CallsApart
<1> QED  BY <1>1, <1>5, <1>6, <1>7, <1>8 DEF CountInv

LEMMA LocateCounts ==
    ASSUME CountInv, NEW t \in Tab, Locate(t)
    PROVE  Drives /\ CountInv'
<1>1. PICK r \in Req : /\ Issue([x \in {r} |-> Call("get_post_list", TabSession[t], <<>>)])
                       /\ call' = [call EXCEPT ![r] = [tab |-> t, post |-> 0]]
  BY DEF Locate
<1>2. page[t].state = "open" /\ page' = [page EXCEPT ![t].state = "loading"]
  BY DEF Locate
<1> DEFINE query == Call("get_post_list", TabSession[t], <<>>)
<1>3. query \in Query /\ query.op = "get_post_list" /\ query.sess = TabSession[t]
  <2>1. "get_post_list" \in Op /\ TabSession[t] \in Session
    BY TabAssumption DEF Op, Reads, Lists
  <2> QED  BY <2>1, CallTyped, NoFields
<1> HIDE DEF query
<1>4. Drives /\ req[r] = Free /\ req'[r] = Sent(query) /\ \A x \in Req \ {r} : req'[x] = req[x]
  BY <1>1, <1>3, IssueDrives DEF query
<1>5. /\ page \in [Tab -> Page] /\ call \in [Req -> {NoCall} \cup Closure]
  BY DEF CountInv, ProfileTyped
<1>6. page[t] \in Page /\ page'[t] = [page[t] EXCEPT !.state = "loading"]
  BY <1>2, <1>5
<1>7. /\ page'[t] \in Page /\ page'[t].post_list = page[t].post_list /\ page'[t].num_posts = page[t].num_posts
      /\ page'[t].state = "loading" /\ \A u \in Tab \ {t} : page'[u] = page[u]
  BY <1>2, <1>5, <1>6 DEF Page
<1>8. /\ call'[r] = [tab |-> t, post |-> 0] /\ call'[r].tab = t /\ call'[r].post = 0 /\ call'[r] # NoCall
      /\ \A x \in Req \ {r} : call'[x] = call[x]
  BY <1>1, <1>5, CallAssumption
<1>9. ProfileTyped'
  BY <1>1, <1>2, <1>5, <1>7 DEF ProfileTyped, Closure
<1>10. \A x \in Req : call[x] # NoCall => call[x].tab \in Tab \ {t} /\ x # r
  <2> SUFFICES ASSUME NEW x \in Req, call[x] # NoCall PROVE call[x].tab \in Tab \ {t} /\ x # r
    OBVIOUS
  <2>1. call[x].tab \in Tab /\ req[x].pc # "free"
    BY <1>5 DEF CountInv, CallOK, Closure
  <2> QED  BY <1>2, <1>4, <2>1, Awaited, IsFree
<1>11. \A x \in Req : CallOK(x)'
  <2>1. CallOK(r)'
    <3>1. req'[r].pc # "free" /\ req'[r].query = query
      BY <1>4 DEF Sent
    <3> QED  BY <1>3, <1>7, <1>8, <3>1 DEF CallOK
  <2>2. ASSUME NEW x \in Req, x # r PROVE CallOK(x)'
    <3>1. CallOK(x) /\ call'[x] = call[x] /\ req'[x] = req[x]
      BY <1>4, <1>8, <2>2 DEF CountInv
    <3>2. call[x] # NoCall => req[x].pc # "free"
      BY <3>1 DEF CallOK
    <3> QED  BY <1>7, <1>10, <3>1, <3>2, CallKept
  <2> QED  BY <2>1, <2>2
<1>12. \A u \in Tab : PageOK(u)'
  <2>1. ASSUME NEW u \in Tab, u # t PROVE PageOK(u)'
    <3>1. \A x \in Req : call[x] # NoCall /\ call[x].tab = u => call'[x] = call[x]
      BY <1>8, <1>10
    <3> QED  BY <1>7, <2>1, <3>1, PageKept DEF CountInv
  <2>2. page[t].post_list = <<>> /\ page[t].num_posts = Cardinality(Gallery(t))
    BY <1>2 DEF CountInv, PageOK
  <2>3. Gallery(t) = {}
    BY <2>2 DEF Gallery
  <2>4. page'[t].post_list = <<>> /\ page'[t].num_posts = 0
    BY <1>7, <2>2, <2>3, FS_EmptySet
  <2> QED  BY <2>1, <2>4, EmptyCounts
<1>13. CallsApart'
  <2> SUFFICES ASSUME NEW x \in Req, NEW y \in Req, call'[x] # NoCall, call'[x] = call'[y] PROVE x = y
    BY DEF CallsApart
  <2>1. CASE x = r \/ y = r
    BY <1>8, <1>10, <2>1
  <2>2. CASE x # r /\ y # r
    BY <1>8, <2>2 DEF CountInv, CallsApart
  <2> QED  BY <2>1, <2>2
<1> QED  BY <1>4, <1>9, <1>11, <1>12, <1>13 DEF CountInv

-----------------------------------------------------------------------------
(* The callbacks. *)

\* Each post of the list that r brought gets a place for the call that asks for its author;
\* the place of r is free again, unless it is one of them.
Shows(r, t, place, list) ==
    LET cards == req[r].cards
        asked == {place[i] : i \in DOMAIN cards}
    IN  /\ \A i, j \in DOMAIN cards : place[i] = place[j] => i = j
        /\ DOMAIN list = DOMAIN cards /\ \A i \in DOMAIN list : ~list[i].isMine
        /\ page' = [page EXCEPT ![t].state = "loaded", ![t].post_list = list]
        /\ \A i \in DOMAIN cards :
              /\ \E query \in Query : /\ query.op = "is_author" /\ query.sess = TabSession[t]
                                      /\ query.author = list[i].author
                                      /\ req'[place[i]] = Sent(query)
              /\ call'[place[i]] = [tab |-> t, post |-> i]
              /\ place[i] = r \/ req[place[i]] = Free
        /\ r \notin asked => req'[r] = Free /\ call'[r] = NoCall
        /\ \A x \in Req \ ({r} \cup asked) : req'[x] = req[x] /\ call'[x] = call[x]
        /\ call' = [x \in Req |-> call'[x]] /\ req' = [x \in Req |-> req'[x]]
        /\ UNCHANGED <<tables, lock, faults>>

\* The list comes: the page shows it, and asks for the author of each post.
LEMMA ListComes ==
    ASSUME TypeOK, Listed, CountInv, NEW r \in Req, NEW t \in Tab, OnPostList(r, t)
    PROVE  \E place \in [DOMAIN req[r].cards -> Req], list \in Seq([author : User, isMine : BOOLEAN]) :
              Shows(r, t, place, list)
<1> DEFINE cards == req[r].cards
           author(i) == posts[cards[i].id].author
           list == [i \in DOMAIN cards |-> [author |-> author(i), isMine |-> FALSE]]
           query(i) == Call("is_author", TabSession[t], [author |-> author(i)])
           post(place, x) == CHOOSE i \in DOMAIN cards : place[i] = x
<1>1. /\ page' = [page EXCEPT ![t].state = "loaded", ![t].post_list = list]
      /\ UNCHANGED <<tables, lock, faults>> /\ Answered(r, t, "get_post_list")
  BY DEF OnPostList
<1>2. PICK place \in [DOMAIN cards -> {x \in Req : x = r \/ req[x] = Free}] :
         /\ \A i, j \in DOMAIN cards : place[i] = place[j] => i = j
         /\ req' = [x \in Req |->
                      IF x \in {place[i] : i \in DOMAIN cards} THEN Sent(query(post(place, x)))
                      ELSE IF x = r THEN Free ELSE req[x]]
         /\ call' = [x \in Req |->
                       IF x \in {place[i] : i \in DOMAIN cards} THEN [tab |-> t, post |-> post(place, x)]
                       ELSE IF x = r THEN NoCall ELSE call[x]]
  BY DEF OnPostList
<1>3. ASSUME NEW i \in DOMAIN cards PROVE post(place, place[i]) = i
  <2>1. \E j \in DOMAIN cards : place[j] = place[i]
    OBVIOUS
  <2>2. /\ post(place, place[i]) \in DOMAIN cards
        /\ place[post(place, place[i])] = place[i]
    BY <2>1
  <2> HIDE DEF post
  <2> QED  BY <1>2, <2>2
<1>4. /\ Len(cards) \in Nat /\ DOMAIN cards = 1..Len(cards)
      /\ \A i \in DOMAIN cards : cards[i].id \in DOMAIN posts
  <2>1. req[r] \in Request
    BY <1>1, InRequest DEF Answered, At
  <2>2. Ready(r)
    BY <1>1 DEF Answered, At, Ready
  <2> QED  BY <2>1, <2>2 DEF Request, Listed
<1>5. \A i \in DOMAIN cards : author(i) \in User
  <2>1. \A k \in DOMAIN posts : posts[k] \in Post
    BY DEF TypeOK
  <2>2. \A k \in DOMAIN posts : posts[k].author \in User
    BY <2>1 DEF Post
  <2> QED  BY <1>4, <2>2
<1>6. /\ DOMAIN list = DOMAIN cards
      /\ \A i \in DOMAIN cards : ~list[i].isMine /\ list[i].author = author(i)
      /\ list \in Seq([author : User, isMine : BOOLEAN])
  <2>1. \A i \in DOMAIN cards : list[i] \in [author : User, isMine : BOOLEAN]
    BY <1>5
  <2>2. list \in [1..Len(cards) -> [author : User, isMine : BOOLEAN]]
    BY <1>4, <2>1
  <2> QED  BY <1>4, <2>2
<1>7. ASSUME NEW i \in DOMAIN cards
      PROVE  /\ query(i) \in Query /\ query(i).op = "is_author" /\ query(i).sess = TabSession[t]
             /\ query(i).author = author(i)
  <2>1. "is_author" \in Op /\ TabSession[t] \in Session
    BY TabAssumption DEF Op, Reads
  <2> HIDE DEF author
  <2>2. FieldsTyped([author |-> author(i)])
    BY <1>5 DEF FieldsTyped
  <2>3. query(i).author = author(i)
    BY DEF Call
  <2> QED  BY <2>1, <2>2, <2>3, CallTyped
<1> HIDE DEF list, query, post, author
<1>8. ASSUME NEW i \in DOMAIN cards
      PROVE  /\ req'[place[i]] = Sent(query(i)) /\ call'[place[i]] = [tab |-> t, post |-> i]
             /\ place[i] = r \/ req[place[i]] = Free
  <2>1. place[i] \in Req /\ place[i] \in {place[j] : j \in DOMAIN cards}
    BY <1>2
  <2>2. req'[place[i]] = Sent(query(post(place, place[i])))
    BY <1>2, <2>1
  <2>3. call'[place[i]] = [tab |-> t, post |-> post(place, place[i])]
    BY <1>2, <2>1
  <2> QED  BY <1>2, <1>3, <2>2, <2>3
<1>9. ASSUME NEW i \in DOMAIN cards
      PROVE  \E q \in Query : /\ q.op = "is_author" /\ q.sess = TabSession[t] /\ q.author = list[i].author
                              /\ req'[place[i]] = Sent(q)
  <2>1. query(i) \in Query /\ query(i).op = "is_author" /\ query(i).sess = TabSession[t]
    BY <1>7
  <2>2. query(i).author = list[i].author
    BY <1>6, <1>7
  <2> QED  BY <1>8, <2>1, <2>2
<1>10. /\ r \notin {place[i] : i \in DOMAIN cards} => req'[r] = Free /\ call'[r] = NoCall
       /\ \A x \in Req \ ({r} \cup {place[i] : i \in DOMAIN cards}) :
             req'[x] = req[x] /\ call'[x] = call[x]
       /\ call' = [x \in Req |-> call'[x]] /\ req' = [x \in Req |-> req'[x]]
  BY <1>2
<1>11. place \in [DOMAIN cards -> Req]
  BY <1>2
<1>12. Shows(r, t, place, list)
  BY <1>1, <1>2, <1>6, <1>8, <1>9, <1>10 DEF Shows
<1> QED  BY <1>6, <1>11, <1>12

LEMMA ListCounts ==
    ASSUME TypeOK, Listed, CountInv, NEW r \in Req, NEW t \in Tab, OnPostList(r, t)
    PROVE  Drives /\ CountInv'
<1> DEFINE cards == req[r].cards
<1>0. PICK place \in [DOMAIN cards -> Req], list \in Seq([author : User, isMine : BOOLEAN]) :
         Shows(r, t, place, list)
  BY ListComes
<1>1. /\ \A i, j \in DOMAIN cards : place[i] = place[j] => i = j
      /\ DOMAIN list = DOMAIN cards /\ \A i \in DOMAIN list : ~list[i].isMine
      /\ page' = [page EXCEPT ![t].state = "loaded", ![t].post_list = list]
      /\ \A i \in DOMAIN cards :
            /\ \E query \in Query : /\ query.op = "is_author" /\ query.sess = TabSession[t]
                                    /\ query.author = list[i].author
                                    /\ req'[place[i]] = Sent(query)
            /\ call'[place[i]] = [tab |-> t, post |-> i]
            /\ place[i] = r \/ req[place[i]] = Free
      /\ r \notin {place[i] : i \in DOMAIN cards} => req'[r] = Free /\ call'[r] = NoCall
      /\ \A x \in Req \ ({r} \cup {place[i] : i \in DOMAIN cards}) :
            req'[x] = req[x] /\ call'[x] = call[x]
      /\ call' = [x \in Req |-> call'[x]] /\ req' = [x \in Req |-> req'[x]]
      /\ UNCHANGED <<tables, lock, faults>>
  BY <1>0 DEF Shows
<1> HIDE DEF cards
<1> DEFINE asked == {place[i] : i \in DOMAIN cards}
<1>2. /\ req[r].pc = "answered" /\ req[r].query.op = "get_post_list"
      /\ call[r] # NoCall /\ call[r].tab = t
  BY DEF OnPostList, Answered, At
<1>3. /\ page \in [Tab -> Page] /\ call \in [Req -> {NoCall} \cup Closure]
  BY DEF CountInv, ProfileTyped
<1>4. page[t].state = "loading" /\ call[r].post = 0 /\ call[r] = [tab |-> t, post |-> 0]
  <2>1. CallOK(r)
    BY DEF CountInv
  <2>2. call[r].post = 0
    BY <1>2, <2>1 DEF CallOK
  <2> QED  BY <1>2, <2>2, Awaited
<1>5. Drives
  <2> SUFFICES ASSUME NEW x \in Req
               PROVE  \/ req'[x] = req[x]
                      \/ req[x].pc = "answered" /\ req'[x] = Free
                      \/ req[x].pc \in {"free", "answered"} /\ \E query \in Query : req'[x] = Sent(query)
    BY <1>1 DEF Drives
  <2>1. CASE x \in asked
    <3>1. PICK i \in DOMAIN cards : x = place[i]
      BY <2>1
    <3>2. x = r \/ req[x] = Free
      BY <1>1, <3>1
    <3>3. req[x].pc \in {"free", "answered"}
      BY <1>2, <3>2, IsFree
    <3> QED  BY <1>1, <3>1, <3>3
  <2>2. CASE x \notin asked /\ x = r
    BY <1>1, <1>2, <2>2
  <2>3. CASE x \notin asked /\ x # r
    BY <1>1, <2>3
  <2> QED  BY <2>1, <2>2, <2>3
<1>6. page[t] \in Page /\ page'[t] = [page[t] EXCEPT !.state = "loaded", !.post_list = list]
  BY <1>1, <1>3
<1>7. /\ page'[t] \in Page /\ page'[t].state = "loaded" /\ page'[t].post_list = list
      /\ page'[t].num_posts = page[t].num_posts /\ \A u \in Tab \ {t} : page'[u] = page[u]
  <2>1. \A u \in Tab \ {t} : page'[u] = page[u]
    BY <1>1, <1>3
  <2> QED  BY <1>6, <2>1 DEF Page
\* The page waits for nothing else.
<1>8. ASSUME NEW x \in Req, call[x] # NoCall, x # r
      PROVE  call[x].tab \in Tab \ {t} /\ x \notin asked /\ call'[x] = call[x] /\ req'[x] = req[x]
             /\ req[x].pc # "free"
  <2>1. CallOK(x) /\ call[x].tab \in Tab
    BY <1>3, <1>8 DEF CountInv, Closure
  <2>2. req[x].pc # "free"
    BY <1>8, <2>1 DEF CallOK
  <2>3. x \notin asked
    <3>1. ASSUME x \in asked PROVE FALSE
      <4>1. PICK i \in DOMAIN cards : x = place[i]
        BY <3>1
      <4>2. req[x] = Free
        BY <1>1, <1>8, <4>1
      <4> QED  BY <2>2, <4>2, IsFree
    <3> QED  BY <3>1
  <2>4. call[x].tab # t
    <3>1. ASSUME call[x].tab = t PROVE FALSE
      <4>1. call[x] = [tab |-> t, post |-> 0]
        BY <1>4, <1>8, <3>1, Awaited
      <4> QED  BY <1>2, <1>4, <1>8, <4>1 DEF CountInv, CallsApart
    <3> QED  BY <3>1
  <2> QED  BY <1>1, <1>8, <2>1, <2>2, <2>3, <2>4
<1>9. ASSUME NEW x \in asked
      PROVE  \E i \in DOMAIN list :
                /\ x = place[i]
                /\ call'[x] = [tab |-> t, post |-> i] /\ i \in Nat /\ i # 0
                /\ \E query \in Query : /\ query.op = "is_author" /\ query.sess = TabSession[t]
                                        /\ query.author = list[i].author
                                        /\ req'[x] = Sent(query)
  <2>1. PICK i \in DOMAIN cards : x = place[i]
    OBVIOUS
  <2>2. i \in Nat /\ i # 0
    BY <1>1
  <2> QED  BY <1>1, <2>1, <2>2
<1>10. ASSUME NEW x \in Req, call'[x] # NoCall
       PROVE  x \in asked \/ (x # r /\ x \notin asked /\ call[x] # NoCall /\ call'[x] = call[x])
  BY <1>1, <1>10
<1> HIDE DEF asked
<1>11. ProfileTyped'
  <2>1. \A x \in Req : call'[x] \in {NoCall} \cup Closure
    <3> SUFFICES ASSUME NEW x \in Req, call'[x] # NoCall PROVE call'[x] \in Closure
      OBVIOUS
    <3>1. CASE x \in asked
      <4>1. PICK i \in Nat : call'[x] = [tab |-> t, post |-> i]
        BY <1>9, <3>1
      <4> QED  BY <4>1 DEF Closure
    <3>2. CASE x \notin asked
      BY <1>3, <1>10, <3>2
    <3> QED  BY <3>1, <3>2
  <2>2. page' \in [Tab -> Page]
    BY <1>1, <1>3, <1>7
  <2> QED  BY <1>1, <2>1, <2>2 DEF ProfileTyped
<1>12. ASSUME NEW x \in Req PROVE CallOK(x)'
  <2>1. CASE x \in asked
    <3>1. PICK i \in DOMAIN list :
             /\ call'[x] = [tab |-> t, post |-> i] /\ i \in Nat /\ i # 0
             /\ \E query \in Query : /\ query.op = "is_author" /\ query.sess = TabSession[t]
                                     /\ query.author = list[i].author
                                     /\ req'[x] = Sent(query)
      BY <1>9, <2>1
    <3>2. /\ req'[x].pc # "free" /\ req'[x].query.op = "is_author" /\ req'[x].query.sess = TabSession[t]
          /\ req'[x].query.author = list[i].author
      BY <3>1 DEF Sent
    <3>3. call'[x].tab = t /\ call'[x].post = i
      BY <3>1
    <3>4. ~list[i].isMine
      BY <1>1
    <3> QED  BY <1>7, <3>1, <3>2, <3>3, <3>4 DEF CallOK
  <2>2. CASE call'[x] = NoCall
    BY <2>2 DEF CallOK
  <2>3. CASE x \notin asked /\ call'[x] # NoCall
    <3>1. x # r /\ call[x] # NoCall /\ call'[x] = call[x]
      BY <1>10, <2>3
    <3>2. /\ call[x].tab \in Tab \ {t} /\ req'[x] = req[x] /\ req[x].pc # "free" /\ CallOK(x)
      BY <1>8, <3>1 DEF CountInv
    <3> QED  BY <1>7, <3>1, <3>2, CallKept
  <2> QED  BY <2>1, <2>2, <2>3
<1>13. CallsApart'
  <2> SUFFICES ASSUME NEW x \in Req, NEW y \in Req, call'[x] # NoCall, call'[x] = call'[y] PROVE x = y
    BY DEF CallsApart
  <2>1. CASE x \in asked /\ y \in asked
    <3>1. PICK i \in DOMAIN list : x = place[i] /\ call'[x] = [tab |-> t, post |-> i]
      BY <1>9, <2>1
    <3>2. PICK j \in DOMAIN list : y = place[j] /\ call'[y] = [tab |-> t, post |-> j]
      BY <1>9, <2>1
    <3>3. i = j
      BY <3>1, <3>2
    <3> QED  BY <3>1, <3>2, <3>3
  <2>2. CASE x \notin asked /\ y \notin asked
    <3>1. call[x] # NoCall /\ call'[x] = call[x] /\ call'[y] = call[y]
      BY <1>10, <2>2
    <3> QED  BY <3>1 DEF CountInv, CallsApart
  <2>3. ASSUME NEW v \in Req, NEW w \in Req, v \in asked, w \notin asked, call'[w] # NoCall
        PROVE  call'[v] # call'[w]
    <3>1. call'[v].tab = t
      <4>1. PICK i \in Nat : call'[v] = [tab |-> t, post |-> i]
        BY <1>9, <2>3
      <4> QED  BY <4>1
    <3>2. call'[w].tab # t
      BY <1>8, <1>10, <2>3
    <3> QED  BY <3>1, <3>2
  <2> QED  BY <2>1, <2>2, <2>3
<1>14. ASSUME NEW u \in Tab PROVE PageOK(u)'
  <2>1. CASE u # t
    <3>1. ASSUME NEW x \in Req, call[x] # NoCall, call[x].tab = u PROVE call'[x] = call[x]
      <4>1. x # r
        BY <1>2, <2>1, <3>1
      <4> QED  BY <1>8, <3>1, <4>1
    <3> QED  BY <1>7, <2>1, <3>1, PageKept DEF CountInv
  <2>2. CASE u = t
    <3>1. page[t].post_list = <<>> /\ page[t].num_posts = Cardinality(Gallery(t))
      BY <1>4 DEF CountInv, PageOK
    <3>2. Gallery(t) = {}
      BY <3>1 DEF Gallery
    <3>3. Gallery(t)' = {}
      BY <1>1, <1>7 DEF Gallery
    <3>4. page'[t].num_posts = Cardinality({})
      BY <1>7, <3>1, <3>2
    <3>5. ASSUME NEW i \in Own(t)' PROVE \E x \in Req : call'[x] = [tab |-> t, post |-> i]
      <4>1. i \in DOMAIN cards
        BY <1>1, <1>7 DEF Own
      <4> QED  BY <1>1, <4>1
    <3> QED  BY <1>7, <2>2, <3>3, <3>4, <3>5 DEF PageOK
  <2> QED  BY <2>1, <2>2
<1> QED  BY <1>5, <1>11, <1>12, <1>13, <1>14 DEF CountInv

\* An answer about a post comes: the page counts it if it is the viewer's.
LEMMA AuthorCounts ==
    ASSUME TypeOK, AuthorTold, CountInv, NEW r \in Req, NEW t \in Tab, OnAuthor(r, t)
    PROVE  Drives /\ CountInv'
<1> DEFINE list == page[t].post_list
           i == call[r].post
           mine == req[r].number = 1
<1>1. /\ page' = [page EXCEPT ![t].post_list[i].isMine = mine, ![t].num_posts = @ + req[r].number]
      /\ Receive(r) /\ call' = [call EXCEPT ![r] = NoCall] /\ Answered(r, t, "is_author")
  BY DEF OnAuthor
<1>2. Drives /\ req'[r] = Free /\ \A x \in Req \ {r} : req'[x] = req[x]
  BY <1>1, ReceiveDrives
<1>3. /\ page \in [Tab -> Page] /\ call \in [Req -> {NoCall} \cup Closure]
  BY DEF CountInv, ProfileTyped
<1>4. /\ Ready(r) /\ req[r].query.op = "is_author" /\ req[r].status = 200
      /\ call[r] # NoCall /\ call[r].tab = t
  BY <1>1 DEF Answered, At, Ready
<1>5. CallOK(r) /\ PageOK(t)
  BY DEF CountInv
<1>6. /\ i # 0 /\ i \in DOMAIN list /\ page[t].state = "loaded" /\ ~list[i].isMine
      /\ req[r].query.sess = TabSession[t] /\ req[r].query.author = list[i].author
      /\ call[r] = [tab |-> t, post |-> i]
  BY <1>4, <1>5, Awaited DEF CallOK
<1>7. req[r].number = IF list[i].author = Viewer(t) THEN 1 ELSE 0
  BY <1>4, <1>6 DEF AuthorTold, UserOf, Viewer
<1>8. /\ page[t] \in Page /\ list \in Seq([author : User, isMine : BOOLEAN])
      /\ page'[t] = [page[t] EXCEPT !.post_list[i].isMine = mine, !.num_posts = @ + req[r].number]
      /\ \A u \in Tab \ {t} : page'[u] = page[u]
  BY <1>1, <1>3 DEF Page
<1> DEFINE new == [list EXCEPT ![i].isMine = mine]
<1>9. /\ page'[t].post_list = new /\ page'[t].state = "loaded"
      /\ page'[t].num_posts = page[t].num_posts + req[r].number
  BY <1>6, <1>8 DEF Page
<1>10. /\ DOMAIN new = DOMAIN list /\ new \in Seq([author : User, isMine : BOOLEAN])
       /\ \A k \in DOMAIN list : new[k].author = list[k].author
       /\ \A k \in DOMAIN list \ {i} : new[k] = list[k]
       /\ new[i].isMine = mine
  <2> DEFINE Item == [author : User, isMine : BOOLEAN]
  <2>0. list \in Seq(Item)
    BY <1>8
  <2>1. \A k \in DOMAIN list : list[k] \in Item
    <3> HIDE DEF Item
    <3> QED  BY <2>0
  <2>2. DOMAIN new = DOMAIN list /\ \A k \in DOMAIN list \ {i} : new[k] = list[k]
    OBVIOUS
  <2>3. new[i] = [list[i] EXCEPT !.isMine = mine]
    BY <1>6
  <2>4. new[i].author = list[i].author /\ new[i].isMine = mine /\ new[i] \in Item
    BY <1>6, <2>1, <2>3
  <2>5. \A k \in DOMAIN new : new[k] \in Item
    BY <2>1, <2>2, <2>4
  <2>6. Len(list) \in Nat /\ DOMAIN list = 1..Len(list)
    BY <2>0
  <2>7. new = [k \in 1..Len(list) |-> new[k]]
    BY <2>6
  <2> HIDE DEF new, Item
  <2>8. new \in Seq(Item)
    <3>1. new \in [1..Len(list) -> Item]
      BY <2>2, <2>5, <2>6, <2>7
    <3> QED  BY <2>6, <3>1
  <2>9. new \in Seq([author : User, isMine : BOOLEAN])
    BY <2>8 DEF Item
  <2> QED  BY <2>2, <2>4, <2>9
<1> HIDE DEF new
<1>11. page[t].num_posts \in Nat /\ page[t].num_posts + req[r].number \in Nat
  BY <1>7, <1>8 DEF Page
<1>12. ProfileTyped'
  <2>1. DOMAIN page'[t] = DOMAIN page[t]
    BY <1>8
  <2>2. page'[t] = [page[t] EXCEPT !.post_list = new, !.num_posts = page[t].num_posts + req[r].number]
    BY <1>8 DEF new
  <2>3. page'[t] \in Page
    BY <1>8, <1>10, <1>11, <2>2 DEF Page
  <2>4. page' \in [Tab -> Page]
    BY <1>1, <1>3, <1>8, <2>3
  <2>5. call' \in [Req -> {NoCall} \cup Closure]
    BY <1>1, <1>3
  <2> QED  BY <2>4, <2>5 DEF ProfileTyped
<1>13. /\ call'[r] = NoCall
       /\ \A x \in Req \ {r} : call'[x] = call[x]
  BY <1>1, <1>3
\* No other call is about this post.
<1>14. ASSUME NEW x \in Req \ {r}, call[x] # NoCall, call[x].tab = t
       PROVE  call[x].post # i
  <2>1. call[x] = [tab |-> t, post |-> call[x].post]
    BY <1>14, Awaited
  <2> QED  BY <1>4, <1>6, <1>14, <2>1 DEF CountInv, CallsApart
<1>15. ASSUME NEW x \in Req PROVE CallOK(x)'
  <2>1. CASE call'[x] = NoCall
    BY <2>1 DEF CallOK
  <2>2. CASE call'[x] # NoCall /\ call[x].tab # t
    <3>1. x # r /\ call'[x] = call[x] /\ call[x] # NoCall /\ req'[x] = req[x]
      BY <1>2, <1>13, <2>2
    <3>2. call[x].tab \in Tab \ {t} /\ CallOK(x) /\ req[x].pc # "free"
      BY <1>3, <2>2, <3>1 DEF CountInv, CallOK, Closure
    <3> QED  BY <1>8, <3>1, <3>2, CallKept
  <2>3. CASE call'[x] # NoCall /\ call[x].tab = t
    <3>1. x # r /\ call'[x] = call[x] /\ call[x] # NoCall /\ req'[x] = req[x]
      BY <1>2, <1>13, <2>3
    <3>2. CallOK(x) /\ call[x].post # i
      BY <1>14, <2>3, <3>1 DEF CountInv
    <3>3. /\ req[x].pc # "free" /\ req[x].query.sess = TabSession[t]
          /\ call[x].post # 0 /\ req[x].query.op = "is_author" /\ call[x].post \in DOMAIN list
          /\ req[x].query.author = list[call[x].post].author /\ ~list[call[x].post].isMine
      BY <1>6, <2>3, <3>1, <3>2 DEF CallOK
    <3>4. new[call[x].post] = list[call[x].post]
      BY <1>10, <3>2, <3>3
    <3> QED  BY <1>9, <1>10, <2>3, <3>1, <3>3, <3>4 DEF CallOK
  <2> QED  BY <2>1, <2>2, <2>3
<1>16. CallsApart'
  <2> SUFFICES ASSUME NEW x \in Req, NEW y \in Req, call'[x] # NoCall, call'[x] = call'[y] PROVE x = y
    BY DEF CallsApart
  <2>1. x # r /\ y # r /\ call'[x] = call[x] /\ call'[y] = call[y]
    BY <1>13
  <2> QED  BY <2>1 DEF CountInv, CallsApart
<1>17. PageOK(t)'
  <2>1. DOMAIN list = 1..Len(list) /\ Len(list) \in Nat
    BY <1>8
  <2>2. IsFiniteSet(DOMAIN list)
    BY <2>1, FS_Interval
  <2>3. /\ Gallery(t) \subseteq DOMAIN list /\ i \notin Gallery(t) /\ Own(t)' = Own(t)
        /\ Gallery(t) \subseteq Own(t)
    BY <1>5, <1>6, <1>9, <1>10 DEF Gallery, Own, PageOK, Viewer
  <2>4. i \in Own(t) <=> mine
    BY <1>6, <1>7 DEF Own
  <2>5. Gallery(t)' = IF mine THEN Gallery(t) \cup {i} ELSE Gallery(t)
    BY <1>6, <1>9, <1>10 DEF Gallery
  <2>6. ASSUME NEW k \in Own(t) \ Gallery(t), k # i
        PROVE  \E x \in Req : call'[x] = [tab |-> t, post |-> k]
    <3>1. PICK x \in Req : call[x] = [tab |-> t, post |-> k]
      BY <1>5 DEF PageOK
    <3>2. x # r
      BY <1>6, <2>6, <3>1
    <3> QED  BY <1>13, <3>1, <3>2
  <2>7. page'[t].num_posts = Cardinality(Gallery(t)')
    <3>1. IsFiniteSet(Gallery(t))
      BY <2>2, <2>3, FS_Subset
    <3>2. page[t].num_posts = Cardinality(Gallery(t)) /\ Cardinality(Gallery(t)) \in Nat
      BY <1>5, <3>1, FS_CardinalityType DEF PageOK
    <3>3. Cardinality(Gallery(t) \cup {i}) = Cardinality(Gallery(t)) + 1
      BY <2>3, <3>1, FS_AddElement
    <3>4. CASE mine
      BY <1>9, <2>5, <3>2, <3>3, <3>4
    <3>5. CASE ~mine
      BY <1>7, <1>9, <2>5, <3>2, <3>5
    <3> QED  BY <3>4, <3>5
  <2>8. Gallery(t)' \subseteq Own(t)'
    BY <2>3, <2>4, <2>5
  <2>9. \A k \in Own(t)' \ Gallery(t)' : k \in Own(t) \ Gallery(t) /\ k # i
    BY <2>3, <2>4, <2>5
  <2> QED  BY <1>9, <2>6, <2>7, <2>8, <2>9 DEF PageOK
<1>18. ASSUME NEW u \in Tab, u # t PROVE PageOK(u)'
  <2>1. \A x \in Req : call[x] # NoCall /\ call[x].tab = u => call'[x] = call[x]
    BY <1>4, <1>13, <1>18
  <2> QED  BY <1>8, <1>18, <2>1, PageKept DEF CountInv
<1> QED  BY <1>2, <1>12, <1>15, <1>16, <1>17, <1>18 DEF CountInv

-----------------------------------------------------------------------------
(* The theorems. *)

\* Each step is one of the server or of its clients, and keeps the count.
LEMMA ProfileDrives ==
    ASSUME ProfileInv, [ProfileNext]_vars
    PROVE  [Next]_serverVars /\ Listed' /\ AuthorTold' /\ CountInv'
<1>0. TypeOK /\ SeenInv /\ Listed /\ AuthorTold /\ CountInv
  BY DEF ProfileInv, ServerInv, UpsertInv
<1>1. ASSUME Drives PROVE [Next]_serverVars /\ Listed' /\ AuthorTold'
  BY <1>0, <1>1, DrivesKeeps DEF Next
<1>2. ASSUME UNCHANGED serverVars PROVE [Next]_serverVars /\ Listed' /\ AuthorTold'
  BY <1>0, <1>2 DEF serverVars, tables, Listed, AuthorTold, Ready, At, UserOf
<1>3. CASE UNCHANGED vars
  <2>1. UNCHANGED serverVars /\ UNCHANGED profileVars
    BY <1>3 DEF vars
  <2>2. \A x \in Req : call[x] # NoCall => req'[x].pc # "free" /\ req'[x].query = req[x].query
    BY <1>0, <2>1 DEF serverVars, CountInv, CallOK
  <2> QED  BY <1>0, <1>2, <2>1, <2>2, QuietCounts
<1>4. ASSUME NEW t \in Tab, Open(t) \/ Leave(t) PROVE [Next]_serverVars /\ Listed' /\ AuthorTold' /\ CountInv'
  BY <1>0, <1>2, <1>4, OpenCounts, LeaveCounts
<1>5. ASSUME NEW t \in Tab, Locate(t) PROVE [Next]_serverVars /\ Listed' /\ AuthorTold' /\ CountInv'
  BY <1>0, <1>1, <1>5, LocateCounts
<1>6. ASSUME NEW r \in Req, Ignore(r) \/ Other(r) PROVE [Next]_serverVars /\ Listed' /\ AuthorTold' /\ CountInv'
  BY <1>0, <1>1, <1>6, IgnoreCounts, OtherCounts
<1>7. ASSUME NEW r \in Req, ServerStep(r) PROVE [Next]_serverVars /\ Listed' /\ AuthorTold' /\ CountInv'
  <2>1. Step(r) /\ UNCHANGED profileVars
    BY <1>7 DEF ServerStep
  <2>2. Listed' /\ AuthorTold' /\ CountInv'
    BY <1>0, <2>1, ListedStep, AuthorStep, ServedCounts
  <2> QED  BY <2>1, <2>2 DEF Next
<1>8. ASSUME NEW r \in Req, NEW t \in Tab, Callback(r, t)
      PROVE  [Next]_serverVars /\ Listed' /\ AuthorTold' /\ CountInv'
  BY <1>0, <1>1, <1>8, ListCounts, AuthorCounts DEF Callback
<1> QED  BY <1>3, <1>4, <1>5, <1>6, <1>7, <1>8 DEF ProfileNext

LEMMA ProfileStarts == ProfileInit => ProfileInv
<1> SUFFICES ASSUME ProfileInit PROVE ProfileInv
  OBVIOUS
<1>1. /\ Init /\ page = [t \in Tab |-> NewPage] /\ call = [r \in Req |-> NoCall]
  BY DEF ProfileInit
<1>2. ServerInv
  BY <1>1, ServerStarts
<1>3. \A r \in Req : req[r].pc = "free"
  BY <1>1 DEF Init, Free
<1>4. Listed /\ AuthorTold
  BY <1>3 DEF Listed, AuthorTold, At, Ready
<1>5. NewPage \in Page /\ NewPage.post_list = <<>> /\ NewPage.num_posts = 0
  BY DEF NewPage, Page
<1>6. ProfileTyped /\ CallsApart /\ \A r \in Req : CallOK(r)
  BY <1>1, <1>5 DEF ProfileTyped, CallsApart, CallOK
<1>7. ASSUME NEW t \in Tab PROVE PageOK(t)
  <2>1. page[t].post_list = <<>> /\ page[t].num_posts = 0
    BY <1>1, <1>5
  <2>2. Own(t) = {} /\ Gallery(t) = {}
    BY <2>1 DEF Own, Gallery
  <2>3. Cardinality({}) = 0
    BY FS_EmptySet
  <2> QED  BY <2>1, <2>2, <2>3 DEF PageOK
<1> QED  BY <1>2, <1>4, <1>6, <1>7 DEF ProfileInv, CountInv

LEMMA ProfileStays == ProfileInv /\ [ProfileNext]_vars => ProfileInv'
  BY ProfileDrives, ServerStays DEF ProfileInv

\* As many calls as posts that are missing.
LEMMA CountsEnough == ProfileInv => CountsOwn
<1> SUFFICES ASSUME ProfileInv, NEW t \in Tab,
                    NEW asked, asked = {r \in Req : call[r] # NoCall /\ call[r].tab = t /\ call[r].post \in Own(t)}
             PROVE  /\ page[t].num_posts = Cardinality(Gallery(t))
                    /\ Gallery(t) \subseteq Own(t)
                    /\ Own(t) \ Gallery(t) = {call[r].post : r \in asked}
                    /\ Cardinality(asked) = Cardinality(Own(t) \ Gallery(t))
  BY DEF CountsOwn
<1>1. CountInv /\ PageOK(t) /\ ProfileTyped
  BY DEF ProfileInv, CountInv
<1> DEFINE missing == Own(t) \ Gallery(t)
<1>2. ASSUME NEW r \in asked PROVE call[r].post \in missing /\ call[r] = [tab |-> t, post |-> call[r].post]
  <2>1. r \in Req /\ call[r] # NoCall /\ call[r].tab = t /\ call[r].post \in Own(t)
    OBVIOUS
  <2>2. CallOK(r)
    BY <1>1, <2>1 DEF CountInv
  <2>3. call[r].post # 0
    <3>1. page[t].post_list \in Seq([author : User, isMine : BOOLEAN])
      BY <1>1 DEF ProfileTyped, Page
    <3> QED  BY <2>1, <3>1 DEF Own
  <2>4. call[r].post \notin Gallery(t)
    BY <2>1, <2>2, <2>3 DEF CallOK, Gallery
  <2> QED  BY <1>1, <2>1, <2>4, Awaited
<1>3. ASSUME NEW i \in missing PROVE \E r \in asked : call[r].post = i
  <2>1. PICK r \in Req : call[r] = [tab |-> t, post |-> i]
    BY <1>1 DEF PageOK
  <2>2. i \in Nat
    BY <1>1 DEF Own, ProfileTyped, Page
  <2>3. call[r] # NoCall
    BY <2>1, <2>2, CallAssumption
  <2> QED  BY <2>1, <2>3
<1> DEFINE f == [r \in asked |-> call[r].post]
<1>4. f \in Bijection(asked, missing)
  <2>1. \A r \in asked : f[r] \in missing
    BY <1>2
  <2>2. \A i \in missing : \E r \in asked : f[r] = i
    BY <1>3
  <2>3. ASSUME NEW x \in asked, NEW y \in asked, f[x] = f[y] PROVE x = y
    <3>1. call[x] = call[y] /\ call[x] # NoCall /\ x \in Req /\ y \in Req
      BY <1>2, <2>3
    <3> QED  BY <1>1, <3>1 DEF CountInv, CallsApart
  <2>4. f \in [asked -> missing]
    BY <2>1
  <2> HIDE DEF f, missing
  <2> QED  BY <2>2, <2>3, <2>4 DEF Bijection, Injection, Surjection, IsInjective
<1>5. IsFiniteSet(missing)
  <2>1. page[t].post_list \in Seq([author : User, isMine : BOOLEAN])
    BY <1>1 DEF ProfileTyped, Page
  <2>2. IsFiniteSet(1..Len(page[t].post_list))
    BY <2>1, FS_Interval
  <2>3. missing \subseteq 1..Len(page[t].post_list)
    BY <2>1 DEF Own
  <2> QED  BY <2>2, <2>3, FS_Subset
<1>6. Cardinality(asked) = Cardinality(missing)
  <2>1. ExistsBijection(missing, asked)
    BY <1>4, Fun_ExistsBijSymmetric DEF ExistsBijection
  <2> HIDE DEF missing
  <2> QED  BY <1>5, <2>1, FS_Bijection
<1>7. missing = {call[r].post : r \in asked}
  <2> HIDE DEF missing
  <2>1. missing \subseteq {call[r].post : r \in asked}
    BY <1>3
  <2>2. {call[r].post : r \in asked} \subseteq missing
    BY <1>2
  <2> QED  BY <2>1, <2>2
<1> QED  BY <1>1, <1>6, <1>7 DEF PageOK

\* The profile page's server is the server of PicServer: what is proved of that holds of it.
THEOREM ProfileUsesServer == ProfileSpec => Spec
<1>1. ProfileInit => Init
  BY DEF ProfileInit
<1>2. ProfileInv /\ [ProfileNext]_vars => [Next]_serverVars
  BY ProfileDrives
<1> QED  BY <1>1, <1>2, ProfileStarts, ProfileStays, PTL DEF ProfileSpec, Spec

\* However many pages are open and in whatever order the answers about the authors come, a
\* page shows as many posts as it says, all of them its viewer's, and the others are asked for.
THEOREM ProfilesCountOwn == ProfileSpec => []CountsOwn
  BY ProfileStarts, ProfileStays, CountsEnough, PTL DEF ProfileSpec

=============================================================================
