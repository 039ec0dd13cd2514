--------------------------- MODULE PicBrowserProof ---------------------------
(***************************************************************************)
(* Theorems of PicBrowser, for any number of users, sessions, pages and    *)
(* calls under way.                                                        *)
(***************************************************************************)
EXTENDS PicBrowser, PicServerProof

-----------------------------------------------------------------------------
(* Pages and calls that are well formed. *)

Shown == [id : Nat, post : Nat, author : User \cup {NoUser}, body : Text \cup {NoText}, mine : 0..2]

Entry == [id : Nat, thumb : Vote \cup {NoVote}, count : Int \cup {NoCount}, showComments : BOOLEAN,
          comments : Seq(Shown)]

PageFields ==
    {"state", "post_list", "loggedIn", "showForm", "button", "draft", "added", "early", "raced"}

PageTyped(p) ==
    /\ DOMAIN p = PageFields
    /\ p.post_list \in Seq(Entry)
    /\ p.draft \in Text \cup {NoText}
    /\ p.added \in Nat

Closure == [tab : Tab, idx : Nat, added : Nat]

PagesTyped ==
    /\ DOMAIN tab = Tab /\ \A t \in Tab : PageTyped(tab[t])
    /\ DOMAIN call = Req /\ \A r \in Req : call[r] # NoCall => call[r] \in Closure

\* The id of a new row is no negative number, as a count may be, and rows are finitely many.
AnswersTyped ==
    \A r \in Req :
        /\ req[r].pc # "free" => IsFiniteSet(req[r].rows)
        /\ req[r].pc \in {"done", "answered"} /\ req[r].query.op \in Inserts => req[r].number \in Nat

-----------------------------------------------------------------------------
(* What the steps do to the pages. *)

\* The page t alone changes, to a page with this state, list and number of added posts.
Turns(t, state, list, added) ==
    /\ DOMAIN tab' = Tab /\ \A x \in Tab \ {t} : tab'[x] = tab[x]
    /\ DOMAIN tab'[t] = PageFields /\ tab'[t].draft \in Text \cup {NoText}
    /\ tab'[t].state = state /\ tab'[t].post_list = list /\ tab'[t].added = added

\* Nothing changes that tells when the page came and whether it raced.
Steady(t) == tab'[t].early = tab[t].early /\ tab'[t].raced = tab[t].raced

\* The place r gets a call of t with this query and position.
AsksAt(t, r, query, idx) ==
    /\ req[r] = Free /\ req'[r] = Sent(query)
    /\ call'[r] = [tab |-> t, idx |-> idx, added |-> tab[t].added]

\* One call is new, and nothing else happens to the calls.
Asks(t, query, idx) ==
    \E r \in Req : AsksAt(t, r, query, idx) /\ \A x \in Req \ {r} : req'[x] = req[x] /\ call'[x] = call[x]

\* Clients did something, and no thread of the server.
Issued ==
    /\ UNCHANGED <<tables, lock, faults>>
    /\ DOMAIN call' = Req /\ req' = [r \in Req |-> req'[r]]

LEMMA AskMoves ==
    ASSUME NEW t \in Tab, NEW asks, DOMAIN asks \subseteq Req, Ask(t, asks)
    PROVE  /\ Issued
           /\ \A r \in DOMAIN asks : AsksAt(t, r, asks[r].query, asks[r].idx)
           /\ \A r \in Req \ DOMAIN asks : req'[r] = req[r] /\ call'[r] = call[r]
  BY DEF Ask, Issue, AsksAt, Issued

LEMMA Ask1Moves ==
    ASSUME NEW t \in Tab, NEW op, NEW fields, NEW idx, Ask1(t, op, fields, idx)
    PROVE  Issued /\ Asks(t, Call(op, TabSession[t], fields), idx)
<1> DEFINE ask == [query |-> Call(op, TabSession[t], fields), idx |-> idx]
<1>1. PICK r \in Req : Ask(t, [x \in {r} |-> ask])
  BY DEF Ask1
<1> DEFINE asks == [x \in {r} |-> ask]
<1>2. DOMAIN asks = {r} /\ asks[r].query = Call(op, TabSession[t], fields) /\ asks[r].idx = idx
  OBVIOUS
<1> HIDE DEF asks
<1>3. Ask(t, asks)
  BY <1>1 DEF asks
<1> QED  BY <1>2, <1>3, AskMoves DEF Asks

LEMMA OpenMoves ==
    ASSUME PagesTyped, NEW t \in Tab, Open(t)
    PROVE  /\ Turns(t, "open", tab[t].post_list, tab[t].added) /\ Steady(t) /\ tab[t].state = "new"
           /\ Issued /\ Asks(t, Call("logged_in", TabSession[t], <<>>), 0)
<1>1. Ask1(t, "logged_in", <<>>, 0) /\ tab' = [tab EXCEPT ![t].state = "open"] /\ tab[t].state = "new"
  BY DEF Open
<1> QED  BY <1>1, Ask1Moves DEF PagesTyped, PageTyped, PageFields, Turns, Steady

LEMMA LocateMoves ==
    ASSUME PagesTyped, NEW t \in Tab, Locate(t)
    PROVE  /\ Turns(t, "loading", tab[t].post_list, tab[t].added) /\ tab[t].state = "open"
           /\ tab'[t].early = tab[t].early /\ (~tab'[t].raced => ~Racing(t, DOMAIN posts))
           /\ Issued /\ Asks(t, Call("get_post_list", TabSession[t], <<>>), 0)
<1> DEFINE raced == Racing(t, DOMAIN posts)
<1>1. /\ Ask1(t, "get_post_list", <<>>, 0) /\ tab[t].state = "open"
      /\ tab' = [tab EXCEPT ![t].state = "loading", ![t].raced = raced]
  BY DEF Locate
<1> HIDE DEF raced
<1>2. Turns(t, "loading", tab[t].post_list, tab[t].added) /\ tab'[t].early = tab[t].early /\ tab'[t].raced = raced
  BY <1>1 DEF PagesTyped, PageTyped, PageFields, Turns
<1>3. ~tab'[t].raced => ~Racing(t, DOMAIN posts)
  BY <1>2 DEF raced
<1> QED  BY <1>1, <1>2, <1>3, Ask1Moves

LEMMA LeaveMoves ==
    ASSUME PagesTyped, NEW t \in Tab, Leave(t)
    PROVE  /\ Turns(t, "new", <<>>, 0) /\ tab'[t].early = FALSE /\ tab'[t].raced = FALSE
           /\ UNCHANGED serverVars /\ DOMAIN call' = Req
           /\ \A r \in Req : call'[r] = NoCall \/ (call'[r] = call[r] /\ call[r].tab # t)
  BY DEF Leave, NewPage, PagesTyped, PageTyped, PageFields, Turns

LEMMA LocalMoves ==
    ASSUME PagesTyped, NEW t \in Tab, ToggleForm(t) \/ \E x \in Text : Type(t, x)
    PROVE  /\ Turns(t, tab[t].state, tab[t].post_list, tab[t].added) /\ Steady(t)
           /\ UNCHANGED serverVars /\ call' = call
<1>1. CASE ToggleForm(t)
  BY <1>1 DEF ToggleForm, PagesTyped, PageTyped, PageFields, Turns, Steady
<1>2. CASE \E x \in Text : Type(t, x)
  BY <1>2 DEF Type, PagesTyped, PageTyped, PageFields, Turns, Steady
<1> QED  BY <1>1, <1>2

LEMMA SubmitMoves ==
    ASSUME PagesTyped, NEW t \in Tab, Submit(t)
    PROVE  /\ Turns(t, tab[t].state, tab[t].post_list, tab[t].added)
           /\ tab'[t].raced = tab[t].raced /\ (~tab'[t].early => ~tab[t].early /\ tab[t].state = "loaded")
           /\ Issued /\ Asks(t, Call("add_post", TabSession[t], [text |-> tab[t].draft]), 0)
<1> DEFINE early == tab[t].early \/ tab[t].state # "loaded"
<1>1. /\ Ask1(t, "add_post", [text |-> tab[t].draft], 0)
      /\ tab' = [tab EXCEPT ![t].button = FALSE, ![t].showForm = FALSE, ![t].early = early]
  BY DEF Submit
<1> HIDE DEF early
<1>2. /\ Turns(t, tab[t].state, tab[t].post_list, tab[t].added) /\ tab'[t].raced = tab[t].raced
      /\ tab'[t].early = early
  BY <1>1 DEF PagesTyped, PageTyped, PageFields, Turns
<1>3. ~tab'[t].early => ~tab[t].early /\ tab[t].state = "loaded"
  BY <1>2 DEF early
<1> QED  BY <1>1, <1>2, <1>3, Ask1Moves

LEMMA ClickMoves ==
    ASSUME PagesTyped, NEW t \in Tab, NEW i \in DOMAIN tab[t].post_list, NEW v \in Thumbs, ClickThumb(t, i, v),
           NEW p, p = tab[t].post_list[i]
    PROVE  \E thumb \in Vote \cup {NoVote}, val \in Vote :
              /\ Look(val) = Look(thumb)
              /\ Turns(t, tab[t].state, [tab[t].post_list EXCEPT ![i] = [p EXCEPT !.thumb = thumb]], tab[t].added)
              /\ tab'[t].early = tab[t].early
              /\ ~tab'[t].raced => ~tab[t].raced /\ ~Racing(t, {p.id})
              /\ Issued /\ Asks(t, Call("set_thumb", TabSession[t], [id |-> p.id, val |-> val]), i)
<1> DEFINE thumb == IF p.thumb = v THEN NoVote ELSE v
           val == IF p.thumb = v THEN "" ELSE v
           raced == tab[t].raced \/ Racing(t, {p.id})
<1>1. /\ Ask1(t, "set_thumb", [id |-> p.id, val |-> val], i)
      /\ tab' = [tab EXCEPT ![t].post_list[i].thumb = thumb, ![t].raced = raced]
  BY DEF ClickThumb
<1>2. thumb \in Vote \cup {NoVote} /\ val \in Vote /\ Look(val) = Look(thumb)
  BY DEF Thumbs, Vote, NoVote, Look
<1> HIDE DEF raced, thumb, val
<1>3. Issued /\ Asks(t, Call("set_thumb", TabSession[t], [id |-> p.id, val |-> val]), i)
  BY <1>1, Ask1Moves
<1>4. /\ Turns(t, tab[t].state, [tab[t].post_list EXCEPT ![i] = [p EXCEPT !.thumb = thumb]], tab[t].added)
      /\ tab'[t].early = tab[t].early /\ tab'[t].raced = raced
  BY <1>1 DEF PagesTyped, PageTyped, PageFields, Turns
<1>5. ~tab'[t].raced => ~tab[t].raced /\ ~Racing(t, {p.id})
  BY <1>4 DEF raced
<1> QED  BY <1>2, <1>3, <1>4, <1>5

\* showComments asks for the comments of the post, and for each one shown whose it is.
LEMMA ShowMoves ==
    ASSUME PagesTyped, NEW t \in Tab, NEW i \in DOMAIN tab[t].post_list, ShowComments(t, i),
           NEW p, p = tab[t].post_list[i]
    PROVE  /\ Turns(t, tab[t].state, [tab[t].post_list EXCEPT ![i] = [p EXCEPT !.showComments = TRUE]], tab[t].added)
           /\ Steady(t) /\ Issued
           /\ \A r \in Req :
                 \/ req'[r] = req[r] /\ call'[r] = call[r]
                 \/ AsksAt(t, r, Call("get_comments", TabSession[t], [id |-> p.id]), i)
                 \/ \E k \in DOMAIN p.comments :
                       AsksAt(t, r, Call("my_comment", TabSession[t], [id |-> p.comments[k].id,
                                                                       author |-> p.comments[k].author]), 0)
<1> DEFINE asked(k) == IF k = 0 THEN Call("get_comments", TabSession[t], [id |-> p.id])
                       ELSE Call("my_comment", TabSession[t], [id |-> p.comments[k].id,
                                                               author |-> p.comments[k].author])
<1>1. PICK place \in [0..Len(p.comments) -> Req] :
         Ask(t, [r \in {place[k] : k \in DOMAIN place} |->
                   LET k == CHOOSE j \in DOMAIN place : place[j] = r
                   IN  [query |-> asked(k), idx |-> IF k = 0 THEN i ELSE 0]])
  BY DEF ShowComments
<1> DEFINE asks == [r \in {place[k] : k \in DOMAIN place} |->
                      LET k == CHOOSE j \in DOMAIN place : place[j] = r
                      IN  [query |-> asked(k), idx |-> IF k = 0 THEN i ELSE 0]]
<1>2. DOMAIN asks \subseteq Req
  OBVIOUS
<1>3. ASSUME NEW r \in DOMAIN asks
      PROVE  \E k \in 0..Len(p.comments) : asks[r].query = asked(k) /\ asks[r].idx = IF k = 0 THEN i ELSE 0
  <2>1. \E j \in DOMAIN place : place[j] = r
    OBVIOUS
  <2> DEFINE k == CHOOSE j \in DOMAIN place : place[j] = r
  <2>2. k \in 0..Len(p.comments)
    BY <2>1
  <2>3. asks[r] = [query |-> asked(k), idx |-> IF k = 0 THEN i ELSE 0]
    OBVIOUS
  <2> HIDE DEF k, asks, asked
  <2> QED  BY <2>2, <2>3
<1> HIDE DEF asks
<1>4. /\ Issued
      /\ \A r \in DOMAIN asks : AsksAt(t, r, asks[r].query, asks[r].idx)
      /\ \A r \in Req \ DOMAIN asks : req'[r] = req[r] /\ call'[r] = call[r]
  BY <1>1, <1>2, AskMoves DEF asks
<1>5. p.comments \in Seq(Shown)
  <2>1. p \in Entry
    BY DEF PagesTyped, PageTyped
  <2> QED  BY <2>1 DEF Entry
<1>6. ASSUME NEW r \in Req, NEW k \in 0..Len(p.comments), AsksAt(t, r, asked(k), IF k = 0 THEN i ELSE 0)
      PROVE  \/ AsksAt(t, r, Call("get_comments", TabSession[t], [id |-> p.id]), i)
             \/ \E j \in DOMAIN p.comments :
                   AsksAt(t, r, Call("my_comment", TabSession[t], [id |-> p.comments[j].id,
                                                                   author |-> p.comments[j].author]), 0)
  <2>1. CASE k = 0
    BY <1>6, <2>1
  <2>2. CASE k # 0
    <3>1. k \in DOMAIN p.comments
      BY <1>5, <2>2
    <3> QED  BY <1>6, <2>2, <3>1
  <2> QED  BY <2>1, <2>2
<1>7. /\ Turns(t, tab[t].state, [tab[t].post_list EXCEPT ![i] = [p EXCEPT !.showComments = TRUE]], tab[t].added)
      /\ Steady(t)
  <2>1. tab' = [tab EXCEPT ![t].post_list[i].showComments = TRUE]
    BY DEF ShowComments
  <2> QED  BY <2>1 DEF PagesTyped, PageTyped, PageFields, Turns, Steady
<1> HIDE DEF asked
<1>8. ASSUME NEW r \in DOMAIN asks
      PROVE  \E k \in 0..Len(p.comments) : AsksAt(t, r, asked(k), IF k = 0 THEN i ELSE 0)
  <2>1. PICK k \in 0..Len(p.comments) : asks[r].query = asked(k) /\ asks[r].idx = IF k = 0 THEN i ELSE 0
    BY <1>3
  <2>2. AsksAt(t, r, asks[r].query, asks[r].idx)
    BY <1>4
  <2> QED  BY <2>1, <2>2
<1> QED  BY <1>2, <1>4, <1>6, <1>7, <1>8

LEMMA HideMoves ==
    ASSUME PagesTyped, NEW t \in Tab, NEW i \in DOMAIN tab[t].post_list, HideComments(t, i),
           NEW p, p = tab[t].post_list[i]
    PROVE  /\ Turns(t, tab[t].state, [tab[t].post_list EXCEPT ![i] = [p EXCEPT !.showComments = FALSE]], tab[t].added)
           /\ Steady(t) /\ UNCHANGED serverVars /\ call' = call
  BY DEF HideComments, PagesTyped, PageTyped, PageFields, Turns, Steady

LEMMA SaveMoves ==
    ASSUME PagesTyped, NEW t \in Tab, NEW i \in DOMAIN tab[t].post_list, NEW x \in Text, SaveComment(t, i, x),
           NEW p, p = tab[t].post_list[i]
    PROVE  /\ tab' = tab /\ Issued
           /\ Asks(t, Call("insert_comment", TabSession[t], [post |-> p.id, text |-> x]), i)
  BY Ask1Moves DEF SaveComment

LEMMA EditMoves ==
    ASSUME PagesTyped, NEW t \in Tab, NEW i \in DOMAIN tab[t].post_list,
           NEW p, p = tab[t].post_list[i], NEW k \in DOMAIN p.comments, NEW x \in Text, EditComment(t, i, k, x),
           NEW c, c = p.comments[k]
    PROVE  /\ Turns(t, tab[t].state,
                    [tab[t].post_list EXCEPT ![i] = [p EXCEPT !.comments = [@ EXCEPT ![k] = [c EXCEPT !.body = x]]]],
                    tab[t].added)
           /\ Steady(t) /\ Issued
           /\ Asks(t, Call("edit_comment", TabSession[t], [id |-> c.id, post |-> c.post, text |-> x]), 0)
<1>1. /\ Ask1(t, "edit_comment", [id |-> c.id, post |-> c.post, text |-> x], 0)
      /\ tab' = [tab EXCEPT ![t].post_list[i].comments[k].body = x]
  BY DEF EditComment
<1>2. p \in Entry
  BY DEF PagesTyped, PageTyped
<1>3. /\ Turns(t, tab[t].state,
               [tab[t].post_list EXCEPT ![i] = [p EXCEPT !.comments = [p.comments EXCEPT ![k] = [c EXCEPT !.body = x]]]],
               tab[t].added)
      /\ Steady(t)
  BY <1>1, <1>2 DEF PagesTyped, PageTyped, PageFields, Turns, Steady
<1>4. [p EXCEPT !.comments = [@ EXCEPT ![k] = [c EXCEPT !.body = x]]]
        = [p EXCEPT !.comments = [p.comments EXCEPT ![k] = [c EXCEPT !.body = x]]]
  BY <1>2 DEF Entry
<1> QED  BY <1>1, <1>3, <1>4, Ask1Moves

-----------------------------------------------------------------------------
(* What the callbacks do. *)

\* The call of r ends, and nothing else happens to the calls.
Ends(r) ==
    /\ Issued /\ req[r].pc = "answered" /\ req'[r] = Free /\ call'[r] = NoCall
    /\ \A x \in Req \ {r} : req'[x] = req[x] /\ call'[x] = call[x]

\* The page that waited for the answer.
Waited(r, t, op) ==
    /\ req[r].query.op = op /\ req[r].status = 200 /\ req[r].pc = "answered"
    /\ call[r] # NoCall /\ call[r].tab = t

LEMMA EndMoves ==
    ASSUME TypeOK, PagesTyped, NEW r \in Req, EndCall(r)
    PROVE  Ends(r)
  BY DEF TypeOK, PagesTyped, EndCall, Receive, Ends, Issued

LEMMA LoggedInMoves ==
    ASSUME TypeOK, PagesTyped, NEW r \in Req, NEW t \in Tab, OnLoggedIn(r, t)
    PROVE  /\ Turns(t, tab[t].state, tab[t].post_list, tab[t].added) /\ Steady(t)
           /\ Waited(r, t, "logged_in") /\ Ends(r)
<1> DEFINE known == req[r].number = 1
<1>1. EndCall(r) /\ tab' = [tab EXCEPT ![t].loggedIn = known] /\ Answered(r, t, {"logged_in"})
  BY DEF OnLoggedIn
<1> HIDE DEF known
<1> QED  BY <1>1, EndMoves DEF PagesTyped, PageTyped, PageFields, Turns, Steady, Answered, At, Waited

LEMMA ListMoves ==
    ASSUME TypeOK, PagesTyped, NEW r \in Req, NEW t \in Tab, OnPostList(r, t)
    PROVE  \E list \in InOrder(Near(t, req[r].cards)) :
              /\ Turns(t, "loaded", Entries(list), tab[t].added) /\ Steady(t)
              /\ Waited(r, t, "get_post_list") /\ Ends(r)
<1>1. PICK list \in InOrder(Near(t, req[r].cards)) :
         tab' = [tab EXCEPT ![t].state = "loaded", ![t].post_list = Entries(list)]
  BY DEF OnPostList
<1>2. EndCall(r) /\ Answered(r, t, {"get_post_list"})
  BY DEF OnPostList
<1>3. Turns(t, "loaded", Entries(list), tab[t].added) /\ Steady(t)
  BY <1>1 DEF PagesTyped, PageTyped, PageFields, Turns, Steady
<1> QED  BY <1>2, <1>3, EndMoves DEF Answered, At, Waited

NewEntry(id) == [id |-> id, thumb |-> NoVote, count |-> NoCount, showComments |-> FALSE, comments |-> <<>>]
WithPost(id, list) == Enumerate(<<NewEntry(id)>> \o list)

LEMMA AddedMoves ==
    ASSUME TypeOK, PagesTyped, NEW r \in Req, NEW t \in Tab, OnPostAdded(r, t)
    PROVE  /\ Turns(t, tab[t].state, WithPost(req[r].number, tab[t].post_list), tab[t].added + 1)
           /\ Steady(t) /\ Waited(r, t, "add_post") /\ Ends(r)
<1>1. /\ tab' = [tab EXCEPT ![t].button = TRUE, ![t].draft = NoText, ![t].added = @ + 1,
                            ![t].post_list = WithPost(req[r].number, @)]
      /\ EndCall(r) /\ Answered(r, t, {"add_post"})
  BY DEF OnPostAdded, NewEntry, WithPost
<1> DEFINE list == WithPost(req[r].number, tab[t].post_list)
<1>2. tab' = [tab EXCEPT ![t].button = TRUE, ![t].draft = NoText, ![t].added = tab[t].added + 1, ![t].post_list = list]
  BY <1>1 DEF PagesTyped, PageTyped, PageFields
<1> HIDE DEF list
<1>3. Turns(t, tab[t].state, list, tab[t].added + 1) /\ Steady(t)
  BY <1>2 DEF PagesTyped, PageTyped, PageFields, Turns, Steady
<1> QED  BY <1>1, <1>3, EndMoves DEF Answered, At, Waited, list

\* The vote is stored, and its call goes on as one for the count.
LEMMA ThumbSetMoves ==
    ASSUME TypeOK, PagesTyped, NEW r \in Req, NEW t \in Tab, OnThumbSet(r, t)
    PROVE  /\ tab' = tab /\ call' = call /\ Issued /\ Waited(r, t, "set_thumb")
           /\ req'[r] = Sent(Call("get_thumb_count_on_post", TabSession[t], [id |-> req[r].query.id]))
           /\ \A x \in Req \ {r} : req'[x] = req[x]
<1> DEFINE sent == Sent(Call("get_thumb_count_on_post", TabSession[t], [id |-> req[r].query.id]))
<1>1. /\ req' = [req EXCEPT ![r] = sent] /\ UNCHANGED <<tables, lock, faults, browserVars>>
      /\ Answered(r, t, {"set_thumb"})
  BY DEF OnThumbSet
<1> HIDE DEF sent
<1>2. req'[r] = sent /\ req' = [x \in Req |-> req'[x]] /\ \A x \in Req \ {r} : req'[x] = req[x]
  BY <1>1 DEF TypeOK
<1>3. tab' = tab /\ call' = call /\ DOMAIN call = Req
  BY <1>1 DEF browserVars, PagesTyped
<1> QED  BY <1>1, <1>2, <1>3 DEF Answered, At, Waited, Issued, sent

LEMMA CountMoves ==
    ASSUME TypeOK, PagesTyped, NEW r \in Req, NEW t \in Tab, OnCount(r, t), NEW i, i = call[r].idx
    PROVE  /\ Turns(t, tab[t].state, [tab[t].post_list EXCEPT ![i] = [@ EXCEPT !.count = req[r].number]], tab[t].added)
           /\ Steady(t) /\ Waited(r, t, "get_thumb_count_on_post") /\ Ends(r)
<1>1. /\ tab' = [tab EXCEPT ![t].post_list[i].count = req[r].number]
      /\ EndCall(r) /\ Answered(r, t, {"get_thumb_count_on_post"})
  BY DEF OnCount
<1> QED  BY <1>1, EndMoves DEF PagesTyped, PageTyped, PageFields, Turns, Steady, Answered, At, Waited

LEMMA CommentsMoves ==
    ASSUME TypeOK, PagesTyped, NEW r \in Req, NEW t \in Tab, OnComments(r, t), NEW i, i = call[r].idx
    PROVE  \E list \in InOrder(req[r].rows) :
              /\ Turns(t, tab[t].state, [tab[t].post_list EXCEPT ![i] = [@ EXCEPT !.comments = list]], tab[t].added)
              /\ Steady(t) /\ Waited(r, t, "get_comments") /\ Ends(r)
<1>1. PICK list \in InOrder(req[r].rows) : tab' = [tab EXCEPT ![t].post_list[i].comments = list]
  BY DEF OnComments
<1>2. EndCall(r) /\ Answered(r, t, {"get_comments"})
  BY DEF OnComments
<1>3. /\ Turns(t, tab[t].state, [tab[t].post_list EXCEPT ![i] = [@ EXCEPT !.comments = list]], tab[t].added)
      /\ Steady(t)
  BY <1>1 DEF PagesTyped, PageTyped, PageFields, Turns, Steady
<1> QED  BY <1>2, <1>3, EndMoves DEF Answered, At, Waited

NewShown(r) == [id |-> req[r].number, post |-> req[r].query.post, author |-> UserOf(r),
                body |-> req[r].query.text, mine |-> Undefined]

LEMMA SavedMoves ==
    ASSUME TypeOK, PagesTyped, NEW r \in Req, NEW t \in Tab, OnCommentSaved(r, t), NEW i, i = call[r].idx
    PROVE  /\ Turns(t, tab[t].state,
                    [tab[t].post_list EXCEPT ![i].comments = Append(@, NewShown(r))], tab[t].added)
           /\ Steady(t) /\ Waited(r, t, "insert_comment") /\ Ends(r)
<1>1. /\ tab' = [tab EXCEPT ![t].post_list[i].comments = Append(@, NewShown(r))]
      /\ EndCall(r) /\ Answered(r, t, {"insert_comment"})
  BY DEF OnCommentSaved, NewShown
<1> DEFINE list == [tab[t].post_list EXCEPT ![i].comments = Append(@, NewShown(r))]
<1>2. tab' = [tab EXCEPT ![t].post_list = list]
  BY <1>1 DEF PagesTyped, PageTyped, PageFields
<1> HIDE DEF list
<1>3. Turns(t, tab[t].state, list, tab[t].added) /\ Steady(t)
  BY <1>2 DEF PagesTyped, PageTyped, PageFields, Turns, Steady
<1> QED  BY <1>1, <1>3, EndMoves DEF Answered, At, Waited, list

LEMMA IgnoreMoves ==
    ASSUME TypeOK, PagesTyped, NEW r \in Req, Ignore(r)
    PROVE  tab' = tab /\ Ends(r)
  BY EndMoves DEF Ignore

-----------------------------------------------------------------------------
(* Answers of the server. *)

\* A call of an insertion ends with an error, with a database error, or with the new row's id.
LEMMA InsertAnswers ==
    ASSUME TypeOK, NEW r \in Req, Step(r), req'[r].pc = "done", req[r].query.op \in Inserts
    PROVE  /\ req'[r].query = req[r].query
           /\ req'[r].number \in Nat
           /\ \/ req'[r].status = 500
              \/ faults' = faults + 1 /\ LoggedIn(r)
              \/ AddPost(r) /\ req'[r].number = Len(posts) + 1
              \/ InsertComment(r) /\ req'[r].number = Len(comments) + 1
<1>0. req \in [Req -> {Free} \cup Request] /\ Len(posts) \in Nat /\ Len(comments) \in Nat
  BY DEF TypeOK
<1>1. ~Connect(r) /\ ~Release(r)
  BY <1>0, ConnectMoves, ReleaseMoves DEF Moves
<1>2. ASSUME NEW number \in Nat, Answer(r, number)
      PROVE  req'[r].number = number /\ req'[r].status = 200 /\ req'[r].query = req[r].query
  BY <1>0, <1>2 DEF Answer, Finish
<1>3. AnswerError(r) => req'[r].number = 0 /\ req'[r].status = 500 /\ req'[r].query = req[r].query
  BY <1>0 DEF AnswerError, Finish
<1>4. CASE Refuse(r) \/ Invalid(r) \/ Raise(r)
  BY <1>3, <1>4 DEF Refuse, Invalid, Raise
<1>5. CASE LoseCommit(r)
  <2>1. /\ req[r].query.op = "add_post" \/ req[r].query.op = "insert_comment"
        /\ Allowed(r) /\ faults' = faults + 1
    BY <1>5 DEF LoseCommit, Writing, Inserts, Fault
  <2>2. \E number \in Nat : Answer(r, number)
    <3>1. CASE req[r].query.op = "add_post"
      BY <1>0, <1>5, <3>1 DEF LoseCommit
    <3>2. CASE req[r].query.op = "insert_comment"
      BY <1>0, <1>5, <3>2 DEF LoseCommit
    <3> QED  BY <2>1, <3>1, <3>2
  <2>3. LoggedIn(r)
    BY <2>1 DEF Allowed, NeedsUser, Inserts
  <2> QED  BY <1>2, <2>1, <2>2, <2>3
<1>6. CASE AddPost(r)
  BY <1>0, <1>2, <1>6 DEF AddPost
<1>7. CASE InsertComment(r)
  BY <1>0, <1>2, <1>7 DEF InsertComment
<1>8. ~Read(r) /\ (Write(r) => AddPost(r) \/ InsertComment(r))
  BY DEF Read, AskSession, SelectPosts, SelectThumbs, CountLikes, CountDislikes, GetComments, GetImage,
         Write, FindRecord, StoreThumb, StoreContent, StoreComment, StoreImage, At, Inserts, Lists
<1> QED  BY <1>1, <1>4, <1>5, <1>6, <1>7, <1>8 DEF Step, Serve

\* The image of a finite set is finite.
LEMMA ImageFinite ==
    ASSUME NEW f, IsFiniteSet(DOMAIN f)
    PROVE  IsFiniteSet({f[x] : x \in DOMAIN f})
<1> DEFINE T == {f[x] : x \in DOMAIN f}
           g == [x \in DOMAIN f |-> f[x]]
<1>1. g \in Surjection(DOMAIN f, T)
  BY DEF Surjection
<1> QED  BY <1>1, FS_Surjection

LEMMA RowsFinite ==
    ASSUME TypeOK, NEW p
    PROVE  IsFiniteSet(Rows(p))
<1> DEFINE row == [i \in CommentIds(p) |->
                     [id |-> i, post |-> p, author |-> comments[i].author, body |-> comments[i].body,
                      mine |-> comments[i].mine]]
<1>1. IsFiniteSet(1..Len(comments))
  BY FS_Interval DEF TypeOK
<1>2. CommentIds(p) \subseteq 1..Len(comments)
  BY DEF TypeOK, CommentIds
<1>3. IsFiniteSet(DOMAIN row)
  BY <1>1, <1>2, FS_Subset
<1>4. IsFiniteSet({row[i] : i \in DOMAIN row})
  <2> HIDE DEF row
  <2> QED  BY <1>3, ImageFinite
<1>5. Rows(p) = {row[i] : i \in DOMAIN row}
  BY DEF Rows
<1> QED  BY <1>4, <1>5

LEMMA AnswersStep ==
    ASSUME TypeOK, AnswersTyped, NEW r \in Req, Step(r)
    PROVE  AnswersTyped'
<1>1. ASSUME NEW x \in Req, x # r PROVE req'[x] = req[x]
  BY <1>1, StepMoves DEF Moves, TypeOK
<1>2. CASE req'[r].pc # "done"
  <2>1. /\ req'[r].rows = req[r].rows /\ req'[r].number = req[r].number /\ req'[r].query = req[r].query
        /\ (req[r].pc = "done" /\ req'[r].pc = "answered") \/ req'[r].pc \in {"begun", "half"}
    BY <1>2, KeepsAnswer
  <2>2. req[r].pc # "free"
    BY StepMoves DEF Moves
  <2> QED  BY <1>1, <2>1, <2>2 DEF AnswersTyped
<1>3. CASE req'[r].pc = "done"
  <2>1. req'[r].query = req[r].query
    BY StepMoves DEF Moves, TypeOK
  <2>2. req[r].query.op \in Inserts => req'[r].number \in Nat
    BY <1>3, InsertAnswers
  <2>3. IsFiniteSet(req'[r].rows)
    <3>1. CASE SelectThumbs(r)
      BY <3>1, FS_EmptySet DEF SelectThumbs, AnswerCards, Finish, TypeOK, NoRows
    <3>2. CASE GetComments(r)
      BY <3>2, RowsFinite DEF GetComments, AnswerRows, Finish, TypeOK
    <3>3. CASE ~SelectThumbs(r) /\ ~GetComments(r)
      <4>1. req'[r].rows = NoRows
        BY <1>3, <3>3, AnswerKinds DEF Answer, AnswerDone, AnswerError, AnswerCards, Finish, TypeOK
      <4> QED  BY <4>1, FS_EmptySet DEF NoRows
    <3> QED  BY <3>1, <3>2, <3>3
  <2> QED  BY <1>1, <2>1, <2>2, <2>3 DEF AnswersTyped
<1> QED  BY <1>2, <1>3

-----------------------------------------------------------------------------
(* The pages drive the server as PicServer allows. *)

\* Clients take answers and send well-formed queries.
Drives ==
    /\ Issued
    /\ \A r \in Req :
          \/ req'[r] = req[r]
          \/ req[r].pc = "answered" /\ req'[r] = Free
          \/ \E query \in Query : req[r].pc \in {"free", "answered"} /\ req'[r] = Sent(query)

LEMMA DrivesClients ==
    ASSUME Drives
    PROVE  Clients
  BY DEF Drives, Issued, Clients, Sent

LEMMA DrivesAnswers ==
    ASSUME AnswersTyped, Drives
    PROVE  AnswersTyped'
<1> SUFFICES ASSUME NEW r \in Req
             PROVE  /\ req'[r].pc # "free" => IsFiniteSet(req'[r].rows)
                    /\ req'[r].pc \in {"done", "answered"} /\ req'[r].query.op \in Inserts => req'[r].number \in Nat
  BY DEF AnswersTyped
<1>1. CASE req'[r] = req[r]
  BY <1>1 DEF AnswersTyped
<1>2. CASE req'[r] = Free
  BY <1>2 DEF Free
<1>3. CASE \E query \in Query : req'[r] = Sent(query)
  BY <1>3, FS_EmptySet DEF Sent, NoRows
<1> QED  BY <1>1, <1>2, <1>3 DEF Drives

LEMMA AsksDrives ==
    ASSUME Issued, NEW t, NEW query \in Query, NEW idx, Asks(t, query, idx)
    PROVE  Drives
  BY DEF Asks, AsksAt, Drives, Free

LEMMA EndsDrives ==
    ASSUME NEW r \in Req, Ends(r)
    PROVE  Drives
  BY DEF Ends, Drives

TabsTyped == DOMAIN tab = Tab /\ \A t \in Tab : PageTyped(tab[t])
CallsTyped == DOMAIN call = Req /\ \A r \in Req : call[r] # NoCall => call[r] \in Closure

LEMMA TurnsTyped ==
    ASSUME PagesTyped, NEW t \in Tab, NEW state, NEW list \in Seq(Entry), NEW added \in Nat,
           Turns(t, state, list, added)
    PROVE  TabsTyped'
  BY DEF PagesTyped, Turns, TabsTyped, PageTyped

LEMMA AskedTyped ==
    ASSUME PagesTyped, NEW t \in Tab, NEW idx \in Nat
    PROVE  [tab |-> t, idx |-> idx, added |-> tab[t].added] \in Closure
  BY DEF PagesTyped, PageTyped, Closure

LEMMA AsksTyped ==
    ASSUME PagesTyped, Issued, NEW t \in Tab, NEW query, NEW idx \in Nat, Asks(t, query, idx)
    PROVE  CallsTyped'
  BY AskedTyped DEF PagesTyped, Issued, Asks, AsksAt, CallsTyped

LEMMA EndsTyped ==
    ASSUME PagesTyped, NEW r \in Req, Ends(r)
    PROVE  CallsTyped'
  BY DEF PagesTyped, Issued, Ends, CallsTyped

\* A list with another entry in a place.
LEMMA EntryChanges ==
    ASSUME NEW list \in Seq(Entry), NEW i, NEW e, i \in DOMAIN list => e \in Entry,
           NEW new, new = [list EXCEPT ![i] = e]
    PROVE  /\ new \in Seq(Entry) /\ DOMAIN new = DOMAIN list
           /\ \A j \in DOMAIN list : new[j] = IF j = i THEN e ELSE list[j]
<1>1. CASE i \in DOMAIN list
  BY <1>1
<1>2. CASE i \notin DOMAIN list
  <2>1. new = list
    BY <1>2
  <2> QED  BY <1>2, <2>1
<1> QED  BY <1>1, <1>2

\* A list in the order of the ids.
LEMMA OrderTyped ==
    ASSUME NEW S, NEW rows, rows \subseteq S, IsFiniteSet(rows), NEW list \in InOrder(rows)
    PROVE  /\ list \in Seq(S) /\ list \in Seq(rows)
           /\ \A i, j \in DOMAIN list : i < j => list[i].id < list[j].id
<1>1. Cardinality(rows) \in Nat
  BY FS_CardinalityType
<1>2. list \in [1..Cardinality(rows) -> rows]
  BY DEF InOrder
<1> QED  BY <1>1, <1>2, IsASeq DEF InOrder

LEMMA NearFinite ==
    ASSUME NEW cards \in Seq(Card), NEW t
    PROVE  Near(t, cards) \subseteq Card /\ IsFiniteSet(Near(t, cards))
<1> DEFINE all == {cards[x] : x \in DOMAIN cards}
<1>1. IsFiniteSet(DOMAIN cards)
  BY FS_Interval
<1>2. IsFiniteSet(all)
  BY <1>1, ImageFinite
<1>3. Near(t, cards) \subseteq all /\ all \subseteq Card
  BY DEF Near
<1> QED  BY <1>2, <1>3, FS_Subset

LEMMA EntriesTyped ==
    ASSUME NEW cards \in Seq(Card)
    PROVE  /\ Entries(cards) \in Seq(Entry) /\ DOMAIN Entries(cards) = DOMAIN cards
           /\ \A i \in DOMAIN cards : /\ Entries(cards)[i].id = cards[i].id
                                      /\ Entries(cards)[i].thumb = cards[i].thumb
                                      /\ Entries(cards)[i].comments = <<>>
<1> DEFINE entry(i) == [id |-> cards[i].id, thumb |-> cards[i].thumb, count |-> cards[i].count,
                        showComments |-> FALSE, comments |-> <<>>]
<1>1. ASSUME NEW i \in 1..Len(cards) PROVE entry(i) \in Entry
  <2>1. cards[i] \in Card /\ <<>> \in Seq(Shown)
    OBVIOUS
  <2> QED  BY <2>1 DEF Card, Entry
<1>2. DOMAIN cards = 1..Len(cards) /\ Len(cards) \in Nat
  OBVIOUS
<1>3. Entries(cards) = [i \in 1..Len(cards) |-> entry(i)]
  BY <1>2 DEF Entries
<1>4. Entries(cards) \in [1..Len(cards) -> Entry]
  <2> HIDE DEF entry
  <2> QED  BY <1>1, <1>3
<1>5. \A i \in 1..Len(cards) : entry(i).id = cards[i].id /\ entry(i).thumb = cards[i].thumb /\ entry(i).comments = <<>>
  OBVIOUS
<1> HIDE DEF entry
<1> QED  BY <1>2, <1>3, <1>4, <1>5, IsASeq

\* A post in front of the others shifts their places by one.
LEMMA AddedTyped ==
    ASSUME NEW id \in Nat, NEW list \in Seq(Entry)
    PROVE  /\ WithPost(id, list) \in Seq(Entry) /\ DOMAIN WithPost(id, list) = 1..(Len(list) + 1)
           /\ WithPost(id, list)[1].id = id /\ WithPost(id, list)[1].thumb = NoVote
           /\ \A i \in DOMAIN list : /\ WithPost(id, list)[i + 1].id = list[i].id
                                     /\ WithPost(id, list)[i + 1].thumb = list[i].thumb
           /\ \A i \in 1..(Len(list) + 1) : WithPost(id, list)[i].comments = <<>>
<1> DEFINE new == WithPost(id, list)
<1> DEFINE longer == <<NewEntry(id)>> \o list
           plain(i) == [longer[i] EXCEPT !.showComments = FALSE, !.comments = <<>>]
<1>1. NewEntry(id) \in Entry
  <2>1. <<>> \in Seq(Shown)
    OBVIOUS
  <2> QED  BY <2>1 DEF NewEntry, Entry
<1>2. /\ longer \in Seq(Entry) /\ Len(longer) = Len(list) + 1 /\ longer[1] = NewEntry(id)
      /\ \A i \in DOMAIN list : longer[i + 1] = list[i]
      /\ DOMAIN longer = 1..(Len(list) + 1) /\ Len(list) \in Nat
  BY <1>1
<1> HIDE DEF longer
<1>3. ASSUME NEW i \in 1..(Len(list) + 1)
      PROVE  /\ plain(i) \in Entry
             /\ plain(i).id = longer[i].id /\ plain(i).thumb = longer[i].thumb /\ plain(i).comments = <<>>
  <2>1. longer[i] \in Entry /\ <<>> \in Seq(Shown)
    BY <1>2
  <2> QED  BY <2>1 DEF Entry
<1>4. new = [i \in 1..(Len(list) + 1) |-> plain(i)]
  BY <1>2 DEF WithPost, Enumerate, longer
<1> HIDE DEF new
<1> HIDE DEF plain
<1>5. new \in [1..(Len(list) + 1) -> Entry]
  BY <1>3, <1>4
<1>6. new \in Seq(Entry) /\ Len(new) = Len(list) + 1
  BY <1>2, <1>5, IsASeq
<1>7. new[1].id = id /\ new[1].thumb = NoVote
  <2>1. 1 \in 1..(Len(list) + 1)
    BY <1>2
  <2>2. NewEntry(id).id = id /\ NewEntry(id).thumb = NoVote
    BY DEF NewEntry
  <2> QED  BY <1>2, <1>3, <1>4, <2>1, <2>2
<1>8. ASSUME NEW i \in DOMAIN list
      PROVE  new[i + 1].id = list[i].id /\ new[i + 1].thumb = list[i].thumb
  <2>1. i + 1 \in 1..(Len(list) + 1)
    BY <1>2
  <2> QED  BY <1>2, <1>3, <1>4, <2>1
<1> QED  BY <1>3, <1>4, <1>6, <1>7, <1>8 DEF new

\* What the pages do keeps them well formed, and the server sees well-formed queries.
LEMMA UserDrives ==
    ASSUME TypeOK, PagesTyped, NEW t \in Tab, UserStep(t)
    PROVE  PagesTyped' /\ (Drives \/ UNCHANGED serverVars)
<1> DEFINE s == TabSession[t]
<1>0. /\ s \in Session /\ tab[t].post_list \in Seq(Entry) /\ tab[t].added \in Nat /\ tab[t].draft \in Text \cup {NoText}
      /\ TabsTyped /\ CallsTyped
  BY TabAssumption DEF PagesTyped, PageTyped, TabsTyped, CallsTyped
<1> HIDE DEF s
<1>1. TabsTyped' /\ CallsTyped' => PagesTyped'
  BY DEF PagesTyped, TabsTyped, CallsTyped
<1>2. call' = call => CallsTyped'
  BY <1>0 DEF CallsTyped
<1>3. tab' = tab => TabsTyped'
  BY <1>0 DEF TabsTyped, PageTyped
<1>4. ASSUME NEW op \in Op, NEW fields, FieldsTyped(fields), NEW idx \in Nat, Issued, Asks(t, Call(op, s, fields), idx)
      PROVE  CallsTyped' /\ Drives
  <2>1. Call(op, s, fields) \in Query
    BY <1>0, <1>4, CallTyped
  <2> QED  BY <1>4, <2>1, AsksTyped, AsksDrives
<1>5. CASE Open(t)
  BY <1>0, <1>1, <1>4, <1>5, OpenMoves, TurnsTyped, NoFields DEF Op, Reads, s
<1>6. CASE Locate(t)
  BY <1>0, <1>1, <1>4, <1>6, LocateMoves, TurnsTyped, NoFields DEF Op, Reads, Lists, s
<1>7. CASE Leave(t)
  <2>1. TabsTyped'
    <3>1. <<>> \in Seq(Entry) /\ 0 \in Nat
      OBVIOUS
    <3> QED  BY <1>7, <3>1, LeaveMoves, TurnsTyped
  <2>2. CallsTyped'
    BY <1>0, <1>7, LeaveMoves DEF CallsTyped
  <2> QED  BY <1>1, <1>7, <2>1, <2>2, LeaveMoves
<1>8. CASE ToggleForm(t) \/ \E x \in Text : Type(t, x)
  BY <1>0, <1>1, <1>2, <1>8, LocalMoves, TurnsTyped
<1>9. CASE Submit(t)
  BY <1>0, <1>1, <1>4, <1>9, SubmitMoves, TurnsTyped, SomeFields DEF Op, Inserts, s
<1>10. ASSUME NEW i \in DOMAIN tab[t].post_list, NEW p, p = tab[t].post_list[i],
              \/ \E v \in Thumbs : ClickThumb(t, i, v)
              \/ ShowComments(t, i) \/ HideComments(t, i)
              \/ \E x \in Text : SaveComment(t, i, x)
              \/ \E k \in DOMAIN p.comments, x \in Text : EditComment(t, i, k, x)
       PROVE  PagesTyped' /\ (Drives \/ UNCHANGED serverVars)
  <2>1. p \in Entry /\ i \in Nat /\ p.id \in Nat /\ p.comments \in Seq(Shown)
    <3>1. p \in Entry /\ i \in Nat
      BY <1>0, <1>10
    <3> QED  BY <3>1 DEF Entry
  <2>2. ASSUME NEW e \in Entry, Turns(t, tab[t].state, [tab[t].post_list EXCEPT ![i] = e], tab[t].added)
        PROVE  TabsTyped'
    <3>1. [tab[t].post_list EXCEPT ![i] = e] \in Seq(Entry)
      BY <1>0, EntryChanges
    <3> QED  BY <1>0, <2>2, <3>1, TurnsTyped
  <2>3. CASE \E v \in Thumbs : ClickThumb(t, i, v)
    <3>1. PICK thumb \in Vote \cup {NoVote}, val \in Vote :
             /\ Turns(t, tab[t].state, [tab[t].post_list EXCEPT ![i] = [p EXCEPT !.thumb = thumb]], tab[t].added)
             /\ Issued /\ Asks(t, Call("set_thumb", s, [id |-> p.id, val |-> val]), i)
      BY <1>10, <2>3, ClickMoves DEF s
    <3>2. [p EXCEPT !.thumb = thumb] \in Entry
      BY <2>1 DEF Entry
    <3>3. FieldsTyped([id |-> p.id, val |-> val]) /\ "set_thumb" \in Op
      BY <2>1, SomeFields DEF Op, Upserts
    <3> QED  BY <1>1, <1>4, <2>1, <2>2, <3>1, <3>2, <3>3
  <2>4. CASE ShowComments(t, i)
    <3>1. /\ Turns(t, tab[t].state, [tab[t].post_list EXCEPT ![i] = [p EXCEPT !.showComments = TRUE]], tab[t].added)
          /\ Issued
      BY <1>10, <2>4, ShowMoves
    <3>2. [p EXCEPT !.showComments = TRUE] \in Entry
      BY <2>1 DEF Entry
    <3>3. ASSUME NEW r \in Req, req'[r] # req[r] \/ call'[r] # call[r]
          PROVE  \E query \in Query, idx \in Nat : AsksAt(t, r, query, idx)
      <4>1. CASE AsksAt(t, r, Call("get_comments", s, [id |-> p.id]), i)
        <5>1. Call("get_comments", s, [id |-> p.id]) \in Query
          BY <1>0, <2>1, CallTyped, SomeFields DEF Op, Reads
        <5> QED  BY <2>1, <4>1, <5>1
      <4>2. ASSUME NEW k \in DOMAIN p.comments,
                   AsksAt(t, r, Call("my_comment", s, [id |-> p.comments[k].id, author |-> p.comments[k].author]), 0)
            PROVE  \E query \in Query, idx \in Nat : AsksAt(t, r, query, idx)
        <5>1. p.comments[k].id \in Nat /\ p.comments[k].author \in User \cup {NoUser}
          <6>1. p.comments[k] \in Shown
            BY <2>1
          <6> QED  BY <6>1 DEF Shown
        <5>2. FieldsTyped([id |-> p.comments[k].id, author |-> p.comments[k].author])
          BY <5>1, SomeFields
        <5> DEFINE fields == [id |-> p.comments[k].id, author |-> p.comments[k].author]
        <5>3. Call("my_comment", s, fields) \in Query
          <6>1. FieldsTyped(fields) /\ "my_comment" \in Op
            BY <5>2 DEF Op, Upserts
          <6> HIDE DEF fields
          <6> QED  BY <1>0, <6>1, CallTyped
        <5> QED  BY <4>2, <5>3
      <4> QED  BY <1>10, <2>4, <3>3, <4>1, <4>2, ShowMoves DEF s
    <3>4. CallsTyped'
      <4>1. ASSUME NEW r \in Req, call'[r] # call[r] PROVE call'[r] \in Closure
        BY <3>3, <4>1, AskedTyped DEF AsksAt
      <4> QED  BY <1>0, <3>1, <4>1 DEF CallsTyped, Issued
    <3>5. Drives
      <4>1. ASSUME NEW r \in Req, req'[r] # req[r]
            PROVE  \E query \in Query : req[r].pc \in {"free", "answered"} /\ req'[r] = Sent(query)
        <5>1. PICK query \in Query, idx \in Nat : AsksAt(t, r, query, idx)
          BY <3>3, <4>1
        <5>2. req[r].pc = "free" /\ req'[r] = Sent(query)
          BY <5>1 DEF AsksAt, Free
        <5> QED  BY <5>2
      <4>2. Issued
        BY <3>1
      <4>3. \A r \in Req : \/ req'[r] = req[r]
                           \/ \E query \in Query : req[r].pc \in {"free", "answered"} /\ req'[r] = Sent(query)
        BY <4>1
      <4> QED  BY <4>2, <4>3 DEF Drives
    <3> QED  BY <1>1, <2>2, <3>1, <3>2, <3>4, <3>5
  <2>5. CASE HideComments(t, i)
    <3>1. /\ Turns(t, tab[t].state, [tab[t].post_list EXCEPT ![i] = [p EXCEPT !.showComments = FALSE]], tab[t].added)
          /\ UNCHANGED serverVars /\ call' = call
      BY <1>10, <2>5, HideMoves
    <3>2. [p EXCEPT !.showComments = FALSE] \in Entry
      BY <2>1 DEF Entry
    <3> QED  BY <1>1, <1>2, <2>2, <3>1, <3>2
  <2>6. CASE \E x \in Text : SaveComment(t, i, x)
    <3>1. PICK x \in Text : SaveComment(t, i, x)
      BY <2>6
    <3>2. tab' = tab /\ Issued /\ Asks(t, Call("insert_comment", s, [post |-> p.id, text |-> x]), i)
      BY <1>10, <3>1, SaveMoves DEF s
    <3>3. FieldsTyped([post |-> p.id, text |-> x]) /\ "insert_comment" \in Op
      BY <2>1, SomeFields DEF Op, Inserts
    <3> QED  BY <1>1, <1>3, <1>4, <2>1, <3>2, <3>3
  <2>7. CASE \E k \in DOMAIN p.comments, x \in Text : EditComment(t, i, k, x)
    <3>1. PICK k \in DOMAIN p.comments, x \in Text : EditComment(t, i, k, x)
      BY <2>7
    <3> DEFINE c == p.comments[k]
    <3>2. c \in Shown
      BY <2>1
    <3>3. c.id \in Nat /\ c.post \in Nat
      BY <3>2 DEF Shown
    <3>4. /\ Turns(t, tab[t].state,
                   [tab[t].post_list EXCEPT ![i] = [p EXCEPT !.comments = [@ EXCEPT ![k] = [c EXCEPT !.body = x]]]],
                   tab[t].added)
          /\ Issued /\ Asks(t, Call("edit_comment", s, [id |-> c.id, post |-> c.post, text |-> x]), 0)
      BY <1>10, <3>1, EditMoves DEF s
    <3> DEFINE d == [c EXCEPT !.body = x]
    <3>5. d \in Shown
      BY <3>2 DEF Shown
    <3>6. [p EXCEPT !.comments = [@ EXCEPT ![k] = d]] \in Entry
      <4> HIDE DEF d
      <4>1. [p.comments EXCEPT ![k] = d] \in Seq(Shown)
        BY <2>1, <3>5
      <4> QED  BY <2>1, <4>1 DEF Entry
    <3>7. FieldsTyped([id |-> c.id, post |-> c.post, text |-> x]) /\ "edit_comment" \in Op
      BY <3>3, SomeFields DEF Op, Upserts
    <3> HIDE DEF c
    <3>8. TabsTyped'
      BY <2>2, <3>4, <3>6
    <3> QED  BY <1>1, <1>4, <3>4, <3>7, <3>8
  <2> QED  BY <1>10, <2>3, <2>4, <2>5, <2>6, <2>7
<1> QED  BY <1>5, <1>6, <1>7, <1>8, <1>9, <1>10 DEF UserStep

\* So does an answer that nobody waits for, and what the callbacks do.
LEMMA IgnoreDrives ==
    ASSUME TypeOK, PagesTyped, NEW r \in Req, Ignore(r)
    PROVE  PagesTyped' /\ Drives
<1>1. tab' = tab /\ Ends(r)
  BY IgnoreMoves
<1>2. CallsTyped' /\ Drives
  BY <1>1, EndsTyped, EndsDrives
<1> QED  BY <1>1, <1>2 DEF PagesTyped, PageTyped, CallsTyped

LEMMA CallbackDrives ==
    ASSUME TypeOK, PagesTyped, AnswersTyped, NEW r \in Req, NEW t \in Tab, Callback(r, t)
    PROVE  PagesTyped' /\ Drives
<1>0. /\ tab[t].post_list \in Seq(Entry) /\ tab[t].added \in Nat
      /\ TabsTyped /\ CallsTyped
  BY DEF PagesTyped, PageTyped, TabsTyped, CallsTyped
<1>1. TabsTyped' /\ CallsTyped' => PagesTyped'
  BY DEF PagesTyped, TabsTyped, CallsTyped
<1>2. Ends(r) => CallsTyped' /\ Drives
  BY EndsTyped, EndsDrives
<1>3. ASSUME req[r].pc = "answered"
      PROVE  /\ req[r].query \in Query /\ req[r].cards \in Seq(Card) /\ req[r].rows \subseteq Row
             /\ req[r].number \in Int /\ IsFiniteSet(req[r].rows)
             /\ req[r].query.op \in Inserts => req[r].number \in Nat
  <2>1. req[r] \in Request
    BY <1>3, InRequest
  <2>2. IsFiniteSet(req[r].rows) /\ (req[r].query.op \in Inserts => req[r].number \in Nat)
    BY <1>3 DEF AnswersTyped
  <2> QED  BY <2>1, <2>2, QueryTyped
<1>5. CASE OnLoggedIn(r, t)
  BY <1>0, <1>1, <1>2, <1>5, LoggedInMoves, TurnsTyped
<1>6. CASE OnPostList(r, t)
  <2>1. PICK list \in InOrder(Near(t, req[r].cards)) :
           Turns(t, "loaded", Entries(list), tab[t].added) /\ Waited(r, t, "get_post_list") /\ Ends(r)
    BY <1>6, ListMoves
  <2>2. req[r].cards \in Seq(Card)
    BY <1>3, <2>1 DEF Ends
  <2>3. list \in Seq(Card)
    BY <2>2, NearFinite, OrderTyped
  <2>4. Entries(list) \in Seq(Entry)
    BY <2>3, EntriesTyped
  <2> QED  BY <1>0, <1>1, <1>2, <2>1, <2>4, TurnsTyped
<1>7. CASE OnPostAdded(r, t)
  <2>1. /\ Turns(t, tab[t].state, WithPost(req[r].number, tab[t].post_list), tab[t].added + 1)
        /\ Waited(r, t, "add_post") /\ Ends(r)
    BY <1>7, AddedMoves
  <2>2. req[r].number \in Nat
    BY <1>3, <2>1 DEF Waited, Inserts
  <2>3. WithPost(req[r].number, tab[t].post_list) \in Seq(Entry)
    BY <1>0, <2>2, AddedTyped
  <2>4. tab[t].added + 1 \in Nat
    BY <1>0
  <2> QED  BY <1>0, <1>1, <1>2, <2>1, <2>3, <2>4, TurnsTyped
<1>8. CASE OnThumbSet(r, t)
  <2> DEFINE query == Call("get_thumb_count_on_post", TabSession[t], [id |-> req[r].query.id])
  <2>1. /\ tab' = tab /\ call' = call /\ Issued /\ Waited(r, t, "set_thumb")
        /\ req'[r] = Sent(query) /\ \A x \in Req \ {r} : req'[x] = req[x]
    BY <1>8, ThumbSetMoves
  <2>2. req[r].query.id \in Nat
    BY <1>3, <2>1 DEF Waited, Query
  <2>3. query \in Query
    <3>1. TabSession[t] \in Session
      BY TabAssumption
    <3>2. FieldsTyped([id |-> req[r].query.id]) /\ "get_thumb_count_on_post" \in Op
      BY <2>2, SomeFields DEF Op, Reads
    <3> QED  BY <3>1, <3>2, CallTyped
  <2> HIDE DEF query
  <2>4. Drives
    BY <2>1, <2>3 DEF Drives, Waited
  <2>5. TabsTyped' /\ CallsTyped'
    BY <1>0, <2>1 DEF TabsTyped, PageTyped, CallsTyped
  <2> QED  BY <1>1, <2>4, <2>5
<1>9. ASSUME NEW i, i = call[r].idx,
             \/ OnCount(r, t)
             \/ OnComments(r, t)
             \/ OnCommentSaved(r, t)
      PROVE  PagesTyped' /\ Drives
  <2>1. ASSUME NEW e, i \in DOMAIN tab[t].post_list => e \in Entry,
               Turns(t, tab[t].state, [tab[t].post_list EXCEPT ![i] = e], tab[t].added), Ends(r)
        PROVE  PagesTyped' /\ Drives
    <3>1. [tab[t].post_list EXCEPT ![i] = e] \in Seq(Entry)
      BY <1>0, <2>1, EntryChanges
    <3> QED  BY <1>0, <1>1, <1>2, <2>1, <3>1, TurnsTyped
  <2> DEFINE p == tab[t].post_list[i]
  <2>2. i \in DOMAIN tab[t].post_list => p \in Entry
    BY <1>0
  <2>3. CASE OnCount(r, t)
    <3>1. /\ Turns(t, tab[t].state, [tab[t].post_list EXCEPT ![i] = [p EXCEPT !.count = req[r].number]], tab[t].added)
          /\ Ends(r)
      BY <1>9, <2>3, CountMoves
    <3>2. req[r].number \in Int
      BY <1>3, <3>1 DEF Ends
    <3>3. i \in DOMAIN tab[t].post_list => [p EXCEPT !.count = req[r].number] \in Entry
      BY <2>2, <3>2 DEF Entry
    <3> QED  BY <2>1, <3>1, <3>3
  <2>4. CASE OnComments(r, t)
    <3>1. PICK list \in InOrder(req[r].rows) :
             /\ Turns(t, tab[t].state, [tab[t].post_list EXCEPT ![i] = [p EXCEPT !.comments = list]], tab[t].added)
             /\ Ends(r)
      BY <1>9, <2>4, CommentsMoves
    <3>2. list \in Seq(Shown)
      <4>1. Row \subseteq Shown
        BY DEF Row, Shown
      <4>2. req[r].rows \subseteq Row /\ IsFiniteSet(req[r].rows)
        BY <1>3, <3>1 DEF Ends
      <4> QED  BY <4>1, <4>2, OrderTyped
    <3>3. i \in DOMAIN tab[t].post_list => [p EXCEPT !.comments = list] \in Entry
      BY <2>2, <3>2 DEF Entry
    <3> QED  BY <2>1, <3>1, <3>3
  <2>5. CASE OnCommentSaved(r, t)
    <3>1. /\ Turns(t, tab[t].state, [tab[t].post_list EXCEPT ![i].comments = Append(@, NewShown(r))], tab[t].added)
          /\ Waited(r, t, "insert_comment") /\ Ends(r)
      BY <1>9, <2>5, SavedMoves
    <3> DEFINE e == [p EXCEPT !.comments = Append(p.comments, NewShown(r))]
    <3>2. [tab[t].post_list EXCEPT ![i].comments = Append(@, NewShown(r))] = [tab[t].post_list EXCEPT ![i] = e]
      BY <2>2 DEF Entry
    <3>3. NewShown(r) \in Shown
      <4>1. req[r].query \in Query /\ req[r].number \in Nat
        BY <1>3, <3>1 DEF Ends, Waited, Inserts
      <4>2. UserOf(r) \in User \cup {NoUser}
        BY <4>1, SessionAssumption DEF UserOf, Query
      <4>3. req[r].query.post \in Nat /\ req[r].query.text \in Text \cup {NoText}
        BY <4>1 DEF Query
      <4> QED  BY <4>1, <4>2, <4>3 DEF NewShown, Shown, Undefined
    <3>4. i \in DOMAIN tab[t].post_list => e \in Entry
      <4>1. i \in DOMAIN tab[t].post_list => Append(p.comments, NewShown(r)) \in Seq(Shown)
        <5>1. p \in Entry => p.comments \in Seq(Shown)
          BY DEF Entry
        <5> HIDE DEF p
        <5> QED  BY <2>2, <3>3, <5>1
      <4> HIDE DEF p
      <4> QED  BY <2>2, <4>1 DEF Entry
    <3> HIDE DEF e
    <3> QED  BY <2>1, <3>1, <3>2, <3>4
  <2> QED  BY <1>9, <2>3, <2>4, <2>5
<1> QED  BY <1>5, <1>6, <1>7, <1>8, <1>9 DEF Callback

-----------------------------------------------------------------------------
(* The refinement. *)

DrivenInv == ServerInv /\ PagesTyped /\ AnswersTyped

\* What a step of the pages is to the server.
LEMMA PagesStep ==
    ASSUME DrivenInv, BrowserNext
    PROVE  /\ PagesTyped' /\ AnswersTyped'
           /\ [Next]_serverVars
           /\ \/ Drives
              \/ UNCHANGED serverVars
              \/ UNCHANGED browserVars /\ \E r \in Req : Step(r)
<1>1. TypeOK /\ PagesTyped /\ AnswersTyped
  BY DEF DrivenInv, ServerInv
<1>2. Drives => AnswersTyped' /\ Next
  BY <1>1, DrivesAnswers, DrivesClients DEF Next
<1>3. UNCHANGED serverVars => AnswersTyped'
  BY <1>1 DEF serverVars, AnswersTyped
<1>4. CASE \E t \in Tab : UserStep(t)
  BY <1>1, <1>2, <1>3, <1>4, UserDrives
<1>5. CASE \E r \in Req : ServerStep(r)
  <2>1. PICK r \in Req : Step(r) /\ UNCHANGED browserVars
    BY <1>5 DEF ServerStep, Step
  <2>2. AnswersTyped'
    BY <1>1, <2>1, AnswersStep
  <2>3. PagesTyped'
    BY <1>1, <2>1 DEF PagesTyped, PageTyped, browserVars
  <2> QED  BY <2>1, <2>2, <2>3 DEF Next
<1>6. CASE \E r \in Req : Ignore(r) \/ \E t \in Tab : Callback(r, t)
  BY <1>1, <1>2, <1>6, CallbackDrives, IgnoreDrives
<1> QED  BY <1>4, <1>5, <1>6 DEF BrowserNext

LEMMA DrivenStarts == BrowserInit => DrivenInv
<1> SUFFICES ASSUME BrowserInit PROVE DrivenInv
  OBVIOUS
<1>1. PagesTyped
  <2>1. PageTyped(NewPage)
    BY DEF PageTyped, PageFields, NewPage
  <2> QED  BY <2>1 DEF BrowserInit, PagesTyped
<1>2. AnswersTyped
  BY DEF BrowserInit, Init, Free, AnswersTyped
<1> QED  BY <1>1, <1>2, ServerStarts DEF BrowserInit, DrivenInv

LEMMA DrivenStays == DrivenInv /\ [BrowserNext]_vars => DrivenInv' /\ [Next]_serverVars
<1>1. UNCHANGED vars => UNCHANGED serverVars /\ UNCHANGED browserVars
  BY DEF vars
<1>2. UNCHANGED serverVars /\ UNCHANGED browserVars /\ PagesTyped /\ AnswersTyped => PagesTyped' /\ AnswersTyped'
  BY DEF serverVars, browserVars, PagesTyped, PageTyped, AnswersTyped
<1> QED  BY <1>1, <1>2, PagesStep, ServerStays DEF DrivenInv

\* Whatever users do in their pages and however the calls travel, the server sees clients of
\* the kind that PicServer allows: the properties of PicServer hold with the pages.
THEOREM PagesDriveServer == BrowserSpec => ServerSpec
<1>1. BrowserInit => Init
  BY DEF BrowserInit
<1> QED  BY <1>1, DrivenStarts, DrivenStays, PTL DEF BrowserSpec, ServerSpec, Spec

-----------------------------------------------------------------------------
(* Where a callback finds its post. *)

\* The post a call is about.
Target(q) == IF q.op = "insert_comment" THEN q.post ELSE q.id

\* While no post was added to it, or no list will replace its own, the page keeps the post
\* of a call at the place that was captured, shifted by the posts added since.
Aimed(r) ==
    LET page == tab[call[r].tab]
        place == call[r].idx + page.added - call[r].added
    IN  call[r].idx # 0 /\ (~page.early \/ page.added = 0) =>
            place \in DOMAIN page.post_list /\ page.post_list[place].id = Target(req[r].query)

\* A call under way: a page that waits for its list has not got it, and one that adds a post
\* has got it or is an early one.
CallOK(r) ==
    call[r] # NoCall =>
        /\ req[r].pc # "free"
        /\ call[r].added <= tab[call[r].tab].added
        /\ req[r].query.op = "get_post_list" => tab[call[r].tab].state = "loading"
        /\ req[r].query.op = "add_post" => tab[call[r].tab].early \/ tab[call[r].tab].state = "loaded"
        /\ Aimed(r)

\* A page shows nothing before its list comes but what was added to it.
PageOK(t) ==
    tab[t].state # "loaded" =>
        /\ tab[t].added = 0 => tab[t].post_list = <<>>
        /\ ~tab[t].early => tab[t].added = 0

\* A page waits for one list at most.
OneList ==
    \A r1, r2 \in Req :
        /\ call[r1] # NoCall /\ req[r1].query.op = "get_post_list"
        /\ call[r2] # NoCall /\ req[r2].query.op = "get_post_list"
        /\ call[r1].tab = call[r2].tab
        => r1 = r2

DriftInv == (\A t \in Tab : PageOK(t)) /\ (\A r \in Req : CallOK(r)) /\ OneList

LEMMA DriftEnough == PagesTyped /\ DriftInv => CallbackDrift
<1> SUFFICES ASSUME PagesTyped, DriftInv, NEW r \in Req, call[r] # NoCall, call[r].idx # 0, ~tab[call[r].tab].early,
                    NEW page, page = tab[call[r].tab], NEW place, place = call[r].idx + page.added - call[r].added
             PROVE  /\ place \in DOMAIN page.post_list
                    /\ page.post_list[place].id = IF req[r].query.op = "insert_comment" THEN req[r].query.post
                                                  ELSE req[r].query.id
  BY DEF CallbackDrift
<1>1. Aimed(r)
  BY DEF DriftInv, CallOK
<1> QED  BY <1>1 DEF Aimed, Target

\* The page shows the same posts, and is no nearer to its list than it was.
Same(t) ==
    /\ DOMAIN tab'[t].post_list = DOMAIN tab[t].post_list
    /\ \A i \in DOMAIN tab[t].post_list : tab'[t].post_list[i].id = tab[t].post_list[i].id
    /\ tab'[t].added = tab[t].added
    /\ tab'[t].state = tab[t].state \/ (tab[t].state \in {"new", "open"} /\ tab'[t].state # "loaded")
    /\ ~tab'[t].early => ~tab[t].early

\* It shows the same comments, perhaps in new words.
SameShown(t) ==
    \A i \in DOMAIN tab[t].post_list : \A k \in DOMAIN tab'[t].post_list[i].comments :
        /\ k \in DOMAIN tab[t].post_list[i].comments
        /\ tab'[t].post_list[i].comments[k].id = tab[t].post_list[i].comments[k].id
        /\ tab'[t].post_list[i].comments[k].post = tab[t].post_list[i].comments[k].post

\* What the page knows of races stays, or it asks for its list in this step.
Races(t, state) ==
    \/ tab'[t].raced = tab[t].raced /\ (state = "loading" => tab[t].state = "loading")
    \/ tab[t].state = "open" /\ state = "loading" /\ (~tab'[t].raced => ~Racing(t, DOMAIN posts))

\* It shows the same votes.
SameThumbs(t) ==
    /\ \A i \in DOMAIN tab[t].post_list : tab'[t].post_list[i].thumb = tab[t].post_list[i].thumb
    /\ Races(t, tab'[t].state)

\* The place keeps its query and is not sent it again, or a stored vote goes on as the query
\* for the count.
Goes(r) ==
    req'[r].pc # "free" =>
        \/ /\ req[r].pc # "free" /\ req'[r].query = req[r].query
           /\ req'[r].pc = "sent" => req'[r] = req[r]
        \/ /\ req'[r].pc = "sent" /\ req'[r].query.op = "get_thumb_count_on_post"
           /\ call[r] # NoCall /\ req'[r].query.sess = TabSession[call[r].tab]

\* The call goes on and is about the same post.
Kept(r) ==
    /\ Goes(r)
    /\ call'[r] = call[r]
    /\ call[r] # NoCall /\ req[r].pc # "free" =>
          /\ req'[r].pc # "free"
          /\ Target(req'[r].query) = Target(req[r].query)
          /\ req'[r].query.op \in {"get_post_list", "add_post"} => req'[r].query.op = req[r].query.op

Clicks(t) == \E i \in DOMAIN tab[t].post_list, v \in Thumbs : ClickThumb(t, i, v)

\* The page makes a call about the post at the position that it captures.
Aims(t, r) ==
    \E query \in Query, idx \in Nat :
        /\ AsksAt(t, r, query, idx)
        /\ idx # 0 => idx \in DOMAIN tab[t].post_list /\ tab[t].post_list[idx].id = Target(query)
        /\ query.sess = TabSession[t]
        /\ query.op = "edit_comment" =>
              \E i \in DOMAIN tab[t].post_list : \E k \in DOMAIN tab[t].post_list[i].comments :
                  /\ query.id = tab[t].post_list[i].comments[k].id
                  /\ query.post = tab[t].post_list[i].comments[k].post
        /\ query.op = "set_thumb" => Clicks(t)
        /\ query.op = "get_post_list" => /\ tab[t].state = "open" /\ tab'[t].state = "loading"
                                         /\ \A x \in Req \ {r} : req'[x] = req[x]
        /\ query.op = "add_post" => tab'[t].early \/ tab'[t].state = "loaded"

LEMMA AllSame ==
    ASSUME NEW t \in Tab, NEW state, NEW list, NEW added, Turns(t, state, list, added),
           DOMAIN list = DOMAIN tab[t].post_list,
           \A i \in DOMAIN tab[t].post_list : list[i].id = tab[t].post_list[i].id,
           added = tab[t].added, ~tab'[t].early => ~tab[t].early,
           state = tab[t].state \/ (tab[t].state \in {"new", "open"} /\ state # "loaded")
    PROVE  \A u \in Tab : Same(u)
<1>1. Same(t)
  BY DEF Turns, Same
<1>2. ASSUME NEW u \in Tab, u # t PROVE Same(u)
  BY <1>2 DEF Turns, Same
<1> QED  BY <1>1, <1>2

LEMMA ListSame ==
    ASSUME NEW t \in Tab, NEW state, NEW added, Turns(t, state, tab[t].post_list, added),
           added = tab[t].added, ~tab'[t].early => ~tab[t].early,
           Races(t, state),
           state = tab[t].state \/ (tab[t].state \in {"new", "open"} /\ state # "loaded")
    PROVE  \A u \in Tab : Same(u) /\ SameShown(u) /\ SameThumbs(u)
<1>1. \A u \in Tab : Same(u)
  BY AllSame
<1>2. ASSUME NEW u \in Tab PROVE SameShown(u) /\ SameThumbs(u)
  <2>1. CASE u = t
    BY <2>1 DEF Turns, SameShown, SameThumbs
  <2>2. CASE u # t
    BY <2>2 DEF Turns, SameShown, SameThumbs, Races
  <2> QED  BY <2>1, <2>2
<1> QED  BY <1>1, <1>2

LEMMA EntryShown ==
    ASSUME NEW t \in Tab, NEW i, NEW e,
           Turns(t, tab[t].state, [tab[t].post_list EXCEPT ![i] = e], tab[t].added),
           i \in DOMAIN tab[t].post_list =>
              \A k \in DOMAIN e.comments :
                 /\ k \in DOMAIN tab[t].post_list[i].comments
                 /\ e.comments[k].id = tab[t].post_list[i].comments[k].id
                 /\ e.comments[k].post = tab[t].post_list[i].comments[k].post
    PROVE  \A u \in Tab : SameShown(u)
<1>1. \A j \in DOMAIN tab[t].post_list :
         tab'[t].post_list[j] = IF j = i THEN e ELSE tab[t].post_list[j]
  BY DEF Turns
<1>2. SameShown(t)
  BY <1>1 DEF SameShown
<1>3. ASSUME NEW u \in Tab, u # t PROVE SameShown(u)
  BY <1>3 DEF Turns, SameShown
<1> QED  BY <1>2, <1>3

LEMMA EntryThumbs ==
    ASSUME NEW t \in Tab, NEW i, NEW e,
           Turns(t, tab[t].state, [tab[t].post_list EXCEPT ![i] = e], tab[t].added), Steady(t),
           i \in DOMAIN tab[t].post_list => e.thumb = tab[t].post_list[i].thumb
    PROVE  \A u \in Tab : SameThumbs(u)
<1>1. \A j \in DOMAIN tab[t].post_list :
         tab'[t].post_list[j] = IF j = i THEN e ELSE tab[t].post_list[j]
  BY DEF Turns
<1>2. SameThumbs(t)
  BY <1>1 DEF SameThumbs, Steady, Turns, Races
<1>3. ASSUME NEW u \in Tab, u # t PROVE SameThumbs(u)
  BY <1>3 DEF Turns, SameThumbs, Races
<1> QED  BY <1>2, <1>3

LEMMA EntrySame ==
    ASSUME PagesTyped, NEW t \in Tab, NEW i, NEW e, i \in DOMAIN tab[t].post_list => e.id = tab[t].post_list[i].id,
           Turns(t, tab[t].state, [tab[t].post_list EXCEPT ![i] = e], tab[t].added), ~tab'[t].early => ~tab[t].early
    PROVE  \A u \in Tab : Same(u)
<1>1. /\ DOMAIN [tab[t].post_list EXCEPT ![i] = e] = DOMAIN tab[t].post_list
      /\ \A j \in DOMAIN tab[t].post_list : [tab[t].post_list EXCEPT ![i] = e][j].id = tab[t].post_list[j].id
  OBVIOUS
<1> QED  BY <1>1, AllSame

LEMMA AskKeeps ==
    ASSUME NEW t, NEW query, NEW idx, Asks(t, query, idx), NEW r \in Req
    PROVE  Kept(r) \/ (AsksAt(t, r, query, idx) /\ \A x \in Req \ {r} : req'[x] = req[x])
  BY DEF Asks, Goes, Kept

\* What users do leaves the posts and comments of all pages, but for the page that is left,
\* and only a click on a thumb changes a vote.
LEMMA UserAims ==
    ASSUME TypeOK, PagesTyped, NEW t \in Tab, UserStep(t), ~Leave(t)
    PROVE  /\ \A u \in Tab : Same(u) /\ SameShown(u)
           /\ (\A u \in Tab : SameThumbs(u)) \/ Clicks(t)
           /\ \A r \in Req : Kept(r) \/ Aims(t, r)
<1> DEFINE s == TabSession[t]
           Pages == \A u \in Tab : Same(u) /\ SameShown(u) /\ SameThumbs(u)
           Goal == /\ \A u \in Tab : Same(u) /\ SameShown(u)
                   /\ (\A u \in Tab : SameThumbs(u)) \/ Clicks(t)
           Calls == \A r \in Req : Kept(r) \/ Aims(t, r)
<1>0. s \in Session /\ tab[t].post_list \in Seq(Entry) /\ tab[t].draft \in Text \cup {NoText} /\ s = TabSession[t]
  BY TabAssumption DEF PagesTyped, PageTyped
<1> HIDE DEF s
<1>1. UNCHANGED serverVars /\ call' = call => Calls
  BY DEF serverVars, Goes, Kept
<1>2. ASSUME NEW op \in Op, NEW fields, FieldsTyped(fields), NEW idx \in Nat, Asks(t, Call(op, s, fields), idx),
             idx # 0 => /\ idx \in DOMAIN tab[t].post_list
                        /\ tab[t].post_list[idx].id = Target(Call(op, s, fields)),
             op = "get_post_list" => tab[t].state = "open" /\ tab'[t].state = "loading",
             op = "add_post" => tab'[t].early \/ tab'[t].state = "loaded",
             op = "set_thumb" => Clicks(t),
             op = "edit_comment" =>
                \E i \in DOMAIN tab[t].post_list : \E k \in DOMAIN tab[t].post_list[i].comments :
                   /\ Call(op, s, fields).id = tab[t].post_list[i].comments[k].id
                   /\ Call(op, s, fields).post = tab[t].post_list[i].comments[k].post
      PROVE  Calls
  <2> DEFINE query == Call(op, s, fields)
  <2>1. query \in Query /\ query.op = op /\ query.sess = TabSession[t]
    BY <1>0, <1>2, CallTyped
  <2>2. ASSUME NEW r \in Req PROVE Kept(r) \/ (AsksAt(t, r, query, idx) /\ \A x \in Req \ {r} : req'[x] = req[x])
    BY <1>2, AskKeeps
  <2> HIDE DEF query
  <2>3. ASSUME NEW r \in Req, AsksAt(t, r, query, idx), \A x \in Req \ {r} : req'[x] = req[x] PROVE Aims(t, r)
    BY <1>2, <2>1, <2>3 DEF Aims, query
  <2> QED  BY <2>2, <2>3
<1>3. CASE Open(t)
  <2>1. /\ Turns(t, "open", tab[t].post_list, tab[t].added) /\ Steady(t) /\ tab[t].state = "new"
        /\ Asks(t, Call("logged_in", s, <<>>), 0)
    BY <1>0, <1>3, OpenMoves
  <2>2. Pages
    BY <2>1, ListSame DEF Steady, Races
  <2>3. FieldsTyped(<<>>) /\ "logged_in" \in Op
    BY NoFields DEF Op, Reads
  <2>4. Calls
    BY <1>2, <2>1, <2>3
  <2> QED  BY <2>2, <2>4
<1>4. CASE Locate(t)
  <2>1. /\ Turns(t, "loading", tab[t].post_list, tab[t].added) /\ tab[t].state = "open" /\ tab'[t].early = tab[t].early
        /\ ~tab'[t].raced => ~Racing(t, DOMAIN posts)
        /\ Asks(t, Call("get_post_list", s, <<>>), 0)
    BY <1>0, <1>4, LocateMoves
  <2>2. Pages
    BY <2>1, ListSame DEF Races
  <2>3. tab'[t].state = "loading"
    BY <2>1 DEF Turns
  <2>4. FieldsTyped(<<>>) /\ "get_post_list" \in Op
    BY NoFields DEF Op, Reads, Lists
  <2>5. Calls
    BY <1>2, <2>1, <2>3, <2>4
  <2> QED  BY <2>2, <2>5
<1>5. CASE ToggleForm(t) \/ \E x \in Text : Type(t, x)
  <2>1. /\ Turns(t, tab[t].state, tab[t].post_list, tab[t].added) /\ Steady(t)
        /\ UNCHANGED serverVars /\ call' = call
    BY <1>5, LocalMoves
  <2>2. Pages
    BY <2>1, ListSame DEF Steady, Races
  <2> QED  BY <1>1, <2>1, <2>2
<1>6. CASE Submit(t)
  <2>1. /\ Turns(t, tab[t].state, tab[t].post_list, tab[t].added) /\ tab'[t].raced = tab[t].raced
        /\ ~tab'[t].early => ~tab[t].early /\ tab[t].state = "loaded"
        /\ Asks(t, Call("add_post", s, [text |-> tab[t].draft]), 0)
    BY <1>0, <1>6, SubmitMoves
  <2>2. Pages
    BY <2>1, ListSame DEF Races
  <2>3. tab'[t].early \/ tab'[t].state = "loaded"
    BY <2>1 DEF Turns
  <2>4. FieldsTyped([text |-> tab[t].draft])
    BY <1>0, SomeFields
  <2>5. Calls
    BY <1>2, <2>1, <2>3, <2>4 DEF Op, Inserts
  <2> QED  BY <2>2, <2>5
<1>7. ASSUME NEW i \in DOMAIN tab[t].post_list, NEW p, p = tab[t].post_list[i],
             \/ \E v \in Thumbs : ClickThumb(t, i, v)
             \/ ShowComments(t, i) \/ HideComments(t, i)
             \/ \E x \in Text : SaveComment(t, i, x)
             \/ \E k \in DOMAIN p.comments, x \in Text : EditComment(t, i, k, x)
      PROVE  Goal /\ Calls
  <2>1. p \in Entry /\ i \in Nat /\ p.id \in Nat /\ p.comments \in Seq(Shown)
    <3>1. p \in Entry /\ i \in Nat
      BY <1>0, <1>7
    <3> QED  BY <3>1 DEF Entry
  <2>2. ASSUME NEW e, e.id = p.id, ~tab'[t].early => ~tab[t].early,
               Turns(t, tab[t].state, [tab[t].post_list EXCEPT ![i] = e], tab[t].added),
               \A k \in DOMAIN e.comments : /\ k \in DOMAIN p.comments
                                            /\ e.comments[k].id = p.comments[k].id
                                            /\ e.comments[k].post = p.comments[k].post
        PROVE  \A u \in Tab : Same(u) /\ SameShown(u)
    <3>1. \A u \in Tab : Same(u)
      BY <1>7, <2>2, EntrySame
    <3>2. \A k \in DOMAIN e.comments : /\ k \in DOMAIN tab[t].post_list[i].comments
                                       /\ e.comments[k].id = tab[t].post_list[i].comments[k].id
                                       /\ e.comments[k].post = tab[t].post_list[i].comments[k].post
      BY <1>7, <2>2
    <3>3. \A u \in Tab : SameShown(u)
      BY <2>2, <3>2, EntryShown
    <3> QED  BY <3>1, <3>3
  <2>3. ASSUME NEW e, e.thumb = p.thumb, Steady(t),
               Turns(t, tab[t].state, [tab[t].post_list EXCEPT ![i] = e], tab[t].added)
        PROVE  \A u \in Tab : SameThumbs(u)
    BY <1>7, <2>3, EntryThumbs
  <2>4. CASE \E v \in Thumbs : ClickThumb(t, i, v)
    <3>1. PICK thumb \in Vote \cup {NoVote}, val \in Vote :
             /\ Turns(t, tab[t].state, [tab[t].post_list EXCEPT ![i] = [p EXCEPT !.thumb = thumb]], tab[t].added)
             /\ tab'[t].early = tab[t].early
             /\ Asks(t, Call("set_thumb", s, [id |-> p.id, val |-> val]), i)
      BY <1>0, <1>7, <2>4, ClickMoves
    <3> DEFINE e == [p EXCEPT !.thumb = thumb]
    <3>2. e.id = p.id /\ e.comments = p.comments
      BY <2>1 DEF Entry
    <3>3. \A u \in Tab : Same(u) /\ SameShown(u)
      <4> HIDE DEF e
      <4> QED  BY <2>2, <3>1, <3>2 DEF e
    <3>4. Clicks(t)
      BY <1>7, <2>4 DEF Clicks
    <3> DEFINE fields == [id |-> p.id, val |-> val]
    <3>5. FieldsTyped(fields) /\ "set_thumb" \in Op /\ "id" \in DOMAIN fields /\ fields["id"] = p.id
      BY <2>1, SomeFields DEF Op, Upserts
    <3> HIDE DEF fields, e
    <3>6. Target(Call("set_thumb", s, fields)) = p.id
      BY <1>0, <3>5, CallTyped DEF Target
    <3>7. Calls
      BY <1>2, <1>7, <2>1, <3>1, <3>4, <3>5, <3>6 DEF fields
    <3> QED  BY <3>3, <3>4, <3>7
  <2>5. CASE ShowComments(t, i)
    <3> DEFINE e == [p EXCEPT !.showComments = TRUE]
    <3>1. /\ Turns(t, tab[t].state, [tab[t].post_list EXCEPT ![i] = e], tab[t].added)
          /\ Steady(t)
      BY <1>7, <2>5, ShowMoves
    <3>2. e.id = p.id /\ e.comments = p.comments /\ e.thumb = p.thumb
      BY <2>1 DEF Entry
    <3> HIDE DEF e
    <3>3. Goal
      BY <2>2, <2>3, <3>1, <3>2 DEF Steady
    <3>4. ASSUME NEW r \in Req PROVE Kept(r) \/ Aims(t, r)
      <4>1. CASE req'[r] = req[r] /\ call'[r] = call[r]
        BY <4>1 DEF Goes, Kept
      <4>2. ASSUME AsksAt(t, r, Call("get_comments", s, [id |-> p.id]), i)
            PROVE  Aims(t, r)
        <5> DEFINE fields == [id |-> p.id]
                   query == Call("get_comments", s, fields)
        <5>1. FieldsTyped(fields) /\ "get_comments" \in Op /\ "id" \in DOMAIN fields /\ fields["id"] = p.id
          BY <2>1, SomeFields DEF Op, Reads
        <5> HIDE DEF fields
        <5>2. query \in Query /\ query.op = "get_comments" /\ Target(query) = p.id /\ query.sess = TabSession[t]
          BY <1>0, <5>1, CallTyped DEF Target
        <5> HIDE DEF query
        <5>3. AsksAt(t, r, query, i)
          BY <4>2 DEF query, fields
        <5> QED  BY <1>7, <2>1, <5>2, <5>3 DEF Aims
      <4>3. ASSUME NEW k \in DOMAIN p.comments,
                   AsksAt(t, r, Call("my_comment", s, [id |-> p.comments[k].id, author |-> p.comments[k].author]), 0)
            PROVE  Aims(t, r)
        <5>1. p.comments[k].id \in Nat /\ p.comments[k].author \in User \cup {NoUser}
          <6>1. p.comments[k] \in Shown
            BY <2>1
          <6> QED  BY <6>1 DEF Shown
        <5> DEFINE fields == [id |-> p.comments[k].id, author |-> p.comments[k].author]
                   query == Call("my_comment", s, fields)
        <5>2. FieldsTyped(fields) /\ "my_comment" \in Op
          BY <5>1, SomeFields DEF Op, Upserts
        <5> HIDE DEF fields
        <5>3. query \in Query /\ query.op = "my_comment" /\ query.sess = TabSession[t]
          BY <1>0, <5>2, CallTyped
        <5> HIDE DEF query
        <5>4. AsksAt(t, r, query, 0)
          BY <4>3 DEF query, fields
        <5> QED  BY <5>3, <5>4 DEF Aims
      <4> QED  BY <1>0, <1>7, <2>5, <4>1, <4>2, <4>3, ShowMoves
    <3> QED  BY <3>3, <3>4
  <2>6. CASE HideComments(t, i)
    <3> DEFINE e == [p EXCEPT !.showComments = FALSE]
    <3>1. /\ Turns(t, tab[t].state, [tab[t].post_list EXCEPT ![i] = e], tab[t].added)
          /\ Steady(t) /\ UNCHANGED serverVars /\ call' = call
      BY <1>7, <2>6, HideMoves
    <3>2. e.id = p.id /\ e.comments = p.comments /\ e.thumb = p.thumb
      BY <2>1 DEF Entry
    <3> HIDE DEF e
    <3>3. Goal
      BY <2>2, <2>3, <3>1, <3>2 DEF Steady
    <3> QED  BY <1>1, <3>1, <3>3
  <2>7. CASE \E x \in Text : SaveComment(t, i, x)
    <3>1. PICK x \in Text : SaveComment(t, i, x)
      BY <2>7
    <3>2. tab' = tab /\ Asks(t, Call("insert_comment", s, [post |-> p.id, text |-> x]), i)
      BY <1>0, <1>7, <3>1, SaveMoves
    <3>3. Goal
      BY <3>2 DEF Same, SameShown, SameThumbs, Races
    <3> DEFINE fields == [post |-> p.id, text |-> x]
    <3>4. FieldsTyped(fields) /\ "insert_comment" \in Op /\ "post" \in DOMAIN fields /\ fields["post"] = p.id
      BY <2>1, SomeFields DEF Op, Inserts
    <3> HIDE DEF fields
    <3>5. Target(Call("insert_comment", s, fields)) = p.id
      BY <1>0, <3>4, CallTyped DEF Target
    <3>6. Calls
      BY <1>2, <1>7, <2>1, <3>2, <3>4, <3>5 DEF fields
    <3> QED  BY <3>3, <3>6
  <2>8. CASE \E k \in DOMAIN p.comments, x \in Text : EditComment(t, i, k, x)
    <3>1. PICK k \in DOMAIN p.comments, x \in Text : EditComment(t, i, k, x)
      BY <2>8
    <3> DEFINE c == p.comments[k]
               d == [c EXCEPT !.body = x]
               e == [p EXCEPT !.comments = [p.comments EXCEPT ![k] = d]]
               fields == [id |-> c.id, post |-> c.post, text |-> x]
    <3>2. c.id \in Nat /\ c.post \in Nat /\ d.id = c.id /\ d.post = c.post
      <4>1. c \in Shown
        BY <2>1
      <4> HIDE DEF c
      <4> QED  BY <4>1 DEF Shown
    <3>3. /\ Turns(t, tab[t].state, [tab[t].post_list EXCEPT ![i] = e], tab[t].added)
          /\ Steady(t) /\ Asks(t, Call("edit_comment", s, fields), 0)
      <4>1. e = [p EXCEPT !.comments = [@ EXCEPT ![k] = [c EXCEPT !.body = x]]]
        BY <2>1 DEF Entry
      <4> QED  BY <1>0, <1>7, <3>1, <4>1, EditMoves
    <3>4. e.id = p.id /\ e.thumb = p.thumb /\ e.comments = [p.comments EXCEPT ![k] = d]
      <4> HIDE DEF d
      <4> QED  BY <2>1 DEF Entry
    <3>5. /\ FieldsTyped(fields) /\ "edit_comment" \in Op
          /\ "id" \in DOMAIN fields /\ fields["id"] = c.id
          /\ "post" \in DOMAIN fields /\ fields["post"] = c.post
      <4>1. DOMAIN fields = {"id", "post", "text"} /\ fields["id"] = c.id /\ fields["post"] = c.post
        OBVIOUS
      <4>2. FieldsTyped(fields)
        BY <3>2, SomeFields
      <4>3. "edit_comment" \in Op
        BY DEF Op, Upserts
      <4> HIDE DEF fields
      <4> QED  BY <4>1, <4>2, <4>3
    <3> HIDE DEF d, e, fields
    <3>6. \A j \in DOMAIN e.comments : /\ j \in DOMAIN p.comments
                                       /\ e.comments[j].id = p.comments[j].id
                                       /\ e.comments[j].post = p.comments[j].post
      BY <2>1, <3>2, <3>4
    <3>7. Goal
      BY <2>2, <2>3, <3>3, <3>4, <3>6 DEF Steady
    <3>8. Call("edit_comment", s, fields).id = c.id /\ Call("edit_comment", s, fields).post = c.post
      BY <1>0, <3>5, CallTyped
    <3>9. \E n \in DOMAIN tab[t].post_list : \E m \in DOMAIN tab[t].post_list[n].comments :
             /\ Call("edit_comment", s, fields).id = tab[t].post_list[n].comments[m].id
             /\ Call("edit_comment", s, fields).post = tab[t].post_list[n].comments[m].post
      BY <1>7, <3>1, <3>8
    <3>10. Calls
      BY <1>2, <3>3, <3>5, <3>9
    <3> QED  BY <3>7, <3>10
  <2> QED  BY <1>7, <2>4, <2>5, <2>6, <2>7, <2>8
<1> QED  BY <1>3, <1>4, <1>5, <1>6, <1>7 DEF UserStep

\* So do the callbacks but for those that bring posts, and the server.
LEMMA CallbackKeeps ==
    ASSUME TypeOK, PagesTyped, NEW r \in Req, NEW t \in Tab,
           Callback(r, t), ~OnPostList(r, t), ~OnPostAdded(r, t)
    PROVE  /\ \A u \in Tab : Same(u)
           /\ \A x \in Req : Kept(x) \/ call'[x] = NoCall
<1>0. tab[t].post_list \in Seq(Entry)
  BY DEF PagesTyped, PageTyped
<1>1. Ends(r) => \A x \in Req : Kept(x) \/ call'[x] = NoCall
  BY DEF Ends, Goes, Kept
<1>2. CASE OnLoggedIn(r, t)
  <2>1. Turns(t, tab[t].state, tab[t].post_list, tab[t].added) /\ Steady(t) /\ Ends(r)
    BY <1>2, LoggedInMoves
  <2> QED  BY <1>1, <2>1, AllSame DEF Steady
<1>3. CASE OnThumbSet(r, t)
  <2> DEFINE fields == [id |-> req[r].query.id]
             query == Call("get_thumb_count_on_post", TabSession[t], fields)
  <2>1. /\ tab' = tab /\ call' = call /\ Waited(r, t, "set_thumb")
        /\ req'[r] = Sent(query) /\ \A x \in Req \ {r} : req'[x] = req[x]
    BY <1>3, ThumbSetMoves
  <2>2. req[r].query.id \in Nat
    <3>1. req[r] \in Request
      BY <2>1, InRequest DEF Waited
    <3> QED  BY <3>1, QueryTyped
  <2>3. /\ FieldsTyped(fields) /\ "id" \in DOMAIN fields /\ fields["id"] = req[r].query.id
        /\ "get_thumb_count_on_post" \in Op /\ TabSession[t] \in Session
    BY <2>2, TabAssumption, SomeFields DEF Op, Reads
  <2>4. query.op = "get_thumb_count_on_post" /\ query.id = req[r].query.id /\ query.sess = TabSession[t]
    <3> HIDE DEF fields
    <3> QED  BY <2>3, CallTyped
  <2> HIDE DEF query
  <2>5. req'[r].pc = "sent" /\ req'[r].query = query
    BY <2>1 DEF Sent
  <2>6. Kept(r)
    BY <2>1, <2>4, <2>5 DEF Goes, Kept, Waited, Target
  <2>7. \A x \in Req \ {r} : Kept(x)
    BY <2>1 DEF Goes, Kept
  <2> QED  BY <2>1, <2>6, <2>7 DEF Same
<1>4. ASSUME NEW i, i = call[r].idx, OnCount(r, t) \/ OnComments(r, t) \/ OnCommentSaved(r, t)
      PROVE  \E e : /\ i \in DOMAIN tab[t].post_list => e.id = tab[t].post_list[i].id
                    /\ Turns(t, tab[t].state, [tab[t].post_list EXCEPT ![i] = e], tab[t].added)
                    /\ Steady(t) /\ Ends(r)
  <2> DEFINE p == tab[t].post_list[i]
  <2>1. i \in DOMAIN tab[t].post_list => p \in Entry
    BY <1>0
  <2>2. CASE OnCount(r, t)
    <3>1. i \in DOMAIN tab[t].post_list => [p EXCEPT !.count = req[r].number].id = p.id
      BY <2>1 DEF Entry
    <3> QED  BY <1>4, <2>2, <3>1, CountMoves
  <2>3. CASE OnComments(r, t)
    <3>1. PICK list \in InOrder(req[r].rows) :
             /\ Turns(t, tab[t].state, [tab[t].post_list EXCEPT ![i] = [p EXCEPT !.comments = list]], tab[t].added)
             /\ Steady(t) /\ Ends(r)
      BY <1>4, <2>3, CommentsMoves
    <3>2. i \in DOMAIN tab[t].post_list => [p EXCEPT !.comments = list].id = p.id
      BY <2>1 DEF Entry
    <3> QED  BY <3>1, <3>2
  <2>4. CASE OnCommentSaved(r, t)
    <3>1. /\ Turns(t, tab[t].state, [tab[t].post_list EXCEPT ![i].comments = Append(@, NewShown(r))], tab[t].added)
          /\ Steady(t) /\ Ends(r)
      BY <1>4, <2>4, SavedMoves
    <3> DEFINE e == [p EXCEPT !.comments = Append(p.comments, NewShown(r))]
    <3>2. [tab[t].post_list EXCEPT ![i].comments = Append(@, NewShown(r))] = [tab[t].post_list EXCEPT ![i] = e]
      BY <2>1 DEF Entry
    <3>3. i \in DOMAIN tab[t].post_list => e.id = p.id
      BY <2>1 DEF Entry
    <3> HIDE DEF e
    <3> QED  BY <3>1, <3>2, <3>3
  <2> QED  BY <1>4, <2>2, <2>3, <2>4
<1>5. CASE OnCount(r, t) \/ OnComments(r, t) \/ OnCommentSaved(r, t)
  <2>1. PICK e : /\ call[r].idx \in DOMAIN tab[t].post_list => e.id = tab[t].post_list[call[r].idx].id
                 /\ Turns(t, tab[t].state, [tab[t].post_list EXCEPT ![call[r].idx] = e], tab[t].added)
                 /\ Steady(t) /\ Ends(r)
    BY <1>4, <1>5
  <2> QED  BY <1>1, <2>1, EntrySame DEF Steady
<1> QED  BY <1>2, <1>3, <1>5 DEF Callback

LEMMA StepKeepsCalls ==
    ASSUME TypeOK, NEW r \in Req, Step(r), UNCHANGED browserVars
    PROVE  /\ \A u \in Tab : Same(u)
           /\ \A x \in Req : Kept(x)
<1>1. tab' = tab /\ call' = call
  BY DEF browserVars
<1>2. ASSUME NEW x \in Req, x # r PROVE req'[x] = req[x]
  BY <1>2, StepMoves DEF Moves, TypeOK
<1>3. req'[r].pc \notin {"free", "sent"} /\ req'[r].query = req[r].query /\ req[r].pc # "free"
  BY StepMoves DEF Moves, TypeOK
<1> QED  BY <1>1, <1>2, <1>3 DEF Same, Goes, Kept

\* Pages that stay the same stay correct, and so do their calls.
LEMMA DriftKept ==
    ASSUME PagesTyped, PagesTyped', DriftInv, \A u \in Tab : Same(u),
           \A r \in Req : Kept(r) \/ call'[r] = NoCall \/ \E t \in Tab : Aims(t, r),
           \A r1, r2 \in Req : /\ ~Kept(r1) /\ call'[r1] # NoCall /\ req'[r1].query.op = "get_post_list"
                               /\ ~Kept(r2) /\ call'[r2] # NoCall /\ req'[r2].query.op = "get_post_list"
                               => r1 = r2
    PROVE  DriftInv'
<1>1. ASSUME NEW u \in Tab PROVE PageOK(u)'
  <2>1. Same(u) /\ PageOK(u) /\ tab'[u].post_list \in Seq(Entry)
    BY DEF DriftInv, PagesTyped, PageTyped
  <2>2. tab[u].post_list = <<>> => tab'[u].post_list = <<>>
    BY <2>1 DEF Same
  <2> QED  BY <2>1, <2>2 DEF Same, PageOK
<1>2. ASSUME NEW r \in Req, NEW t \in Tab, Aims(t, r)
      PROVE  /\ call'[r].tab = t /\ call'[r].added = tab[t].added /\ call'[r].idx \in Nat
             /\ req'[r].pc # "free" /\ req[r].pc = "free"
             /\ req'[r].query.op = "get_post_list" => tab[t].state = "open" /\ tab'[t].state = "loading"
             /\ req'[r].query.op = "add_post" => tab'[t].early \/ tab'[t].state = "loaded"
             /\ call'[r].idx # 0 => /\ call'[r].idx \in DOMAIN tab[t].post_list
                                    /\ tab[t].post_list[call'[r].idx].id = Target(req'[r].query)
  <2>1. PICK query \in Query, idx \in Nat :
           /\ AsksAt(t, r, query, idx)
           /\ idx # 0 => idx \in DOMAIN tab[t].post_list /\ tab[t].post_list[idx].id = Target(query)
           /\ query.op = "get_post_list" => tab[t].state = "open" /\ tab'[t].state = "loading"
           /\ query.op = "add_post" => tab'[t].early \/ tab'[t].state = "loaded"
    BY <1>2 DEF Aims
  <2>2. /\ call'[r].tab = t /\ call'[r].added = tab[t].added /\ call'[r].idx = idx
        /\ req'[r].pc = "sent" /\ req'[r].query = query /\ req[r].pc = "free"
    BY <2>1 DEF AsksAt, Sent, Free
  <2> QED  BY <2>1, <2>2
<1>3. ASSUME NEW r \in Req PROVE CallOK(r)'
  <2>1. CASE call'[r] = NoCall
    BY <2>1 DEF CallOK
  <2>2. CASE Kept(r) /\ call'[r] # NoCall
    <3>1. CallOK(r) /\ call'[r] = call[r] /\ call[r] \in Closure
      BY <2>2 DEF DriftInv, Kept, PagesTyped
    <3> DEFINE u == call[r].tab
    <3>2. u \in Tab /\ Same(u)
      BY <3>1 DEF Closure
    <3>3. Aimed(r) /\ req[r].pc # "free" /\ Target(req'[r].query) = Target(req[r].query)
      BY <2>2, <3>1 DEF CallOK, Kept
    <3>4. Aimed(r)'
      BY <3>1, <3>2, <3>3, SMTT(40) DEF Same, Aimed
    <3>5. req'[r].query.op \in {"get_post_list", "add_post"} => req'[r].query.op = req[r].query.op
      BY <2>2, <3>3 DEF Kept
    <3>6. req'[r].pc # "free"
      BY <2>2, <3>3 DEF Kept
    <3>7. /\ req'[r].query.op = "get_post_list" => tab'[u].state = "loading"
          /\ req'[r].query.op = "add_post" => tab'[u].early \/ tab'[u].state = "loaded"
      BY <2>2, <3>1, <3>2, <3>5 DEF CallOK, Same
    <3>8. call'[r].added <= tab'[u].added
      BY <2>2, <3>1, <3>2 DEF CallOK, Same
    <3> QED  BY <3>1, <3>4, <3>6, <3>7, <3>8 DEF CallOK
  <2>3. ASSUME NEW t \in Tab, Aims(t, r) PROVE CallOK(r)'
    <3>1. Same(t) /\ tab[t].added \in Nat
      BY DEF PagesTyped, PageTyped
    <3>2. Aimed(r)'
      <4>1. call'[r].idx + tab'[t].added - call'[r].added = call'[r].idx
        BY <1>2, <2>3, <3>1 DEF Same
      <4> QED  BY <1>2, <2>3, <3>1, <4>1 DEF Same, Aimed
    <3>3. call'[r].added <= tab'[t].added
      BY <1>2, <2>3, <3>1 DEF Same
    <3> QED  BY <1>2, <2>3, <3>2, <3>3 DEF CallOK
  <2> QED  BY <2>1, <2>2, <2>3
<1>4. OneList'
  <2> SUFFICES ASSUME NEW r1 \in Req, NEW r2 \in Req,
                      call'[r1] # NoCall, req'[r1].query.op = "get_post_list",
                      call'[r2] # NoCall, req'[r2].query.op = "get_post_list",
                      call'[r1].tab = call'[r2].tab
               PROVE  r1 = r2
    BY DEF OneList
  <2>1. ASSUME NEW r \in Req, Kept(r), call'[r] # NoCall, req'[r].query.op = "get_post_list"
        PROVE  req[r].query.op = "get_post_list" /\ call[r] = call'[r] /\ tab[call'[r].tab].state = "loading"
    <3>1. CallOK(r) /\ call'[r] = call[r]
      BY <2>1 DEF DriftInv, Kept
    <3>2. req[r].query.op = "get_post_list"
      BY <2>1, <3>1 DEF CallOK, Kept
    <3> QED  BY <2>1, <3>1, <3>2 DEF CallOK
  <2>2. CASE Kept(r1) /\ Kept(r2)
    BY <2>1, <2>2 DEF DriftInv, OneList
  <2>3. CASE ~Kept(r1) /\ ~Kept(r2)
    BY <2>3
  <2>4. ASSUME NEW x1 \in {r1, r2}, NEW x2 \in {r1, r2}, Kept(x1), ~Kept(x2) PROVE FALSE
    <3>1. PICK t \in Tab : Aims(t, x2)
      BY <2>4
    <3>2. call'[x2].tab = t /\ tab[t].state = "open"
      BY <1>2, <3>1
    <3>3. tab[call'[x1].tab].state = "loading"
      BY <2>1, <2>4
    <3> QED  BY <3>2, <3>3
  <2> QED  BY <2>2, <2>3, <2>4
<1> QED  BY <1>1, <1>3, <1>4 DEF DriftInv

\* Users aim right and ask for one list at a time; a page that is left has no calls.
LEMMA UserDrift ==
    ASSUME TypeOK, PagesTyped, PagesTyped', DriftInv, NEW t \in Tab, UserStep(t)
    PROVE  DriftInv'
<1>1. CASE Leave(t)
  <2>1. /\ Turns(t, "new", <<>>, 0) /\ tab'[t].early = FALSE /\ UNCHANGED serverVars
        /\ \A r \in Req : call'[r] = NoCall \/ (call'[r] = call[r] /\ call[r].tab # t)
    BY <1>1, LeaveMoves
  <2>2. ASSUME NEW u \in Tab PROVE PageOK(u)'
    BY <2>1 DEF Turns, PageOK, DriftInv
  <2>3. ASSUME NEW r \in Req PROVE CallOK(r)'
    <3>1. CASE call'[r] = NoCall
      BY <3>1 DEF CallOK
    <3>2. CASE call'[r] # NoCall
      <4>1. call'[r] = call[r] /\ call[r].tab \in Tab \ {t}
        BY <2>1, <3>2 DEF PagesTyped, Closure
      <4>2. tab'[call[r].tab] = tab[call[r].tab] /\ req' = req
        BY <2>1, <4>1 DEF Turns, serverVars
      <4> QED  BY <4>1, <4>2 DEF DriftInv, CallOK, Aimed
    <3> QED  BY <3>1, <3>2
  <2>4. OneList'
    BY <2>1 DEF DriftInv, OneList, serverVars
  <2> QED  BY <2>2, <2>3, <2>4 DEF DriftInv
<1>2. CASE ~Leave(t)
  <2>1. /\ \A u \in Tab : Same(u)
        /\ \A r \in Req : Kept(r) \/ Aims(t, r)
    BY <1>2, UserAims
  <2>2. ASSUME NEW r1 \in Req, NEW r2 \in Req, ~Kept(r1), ~Kept(r2),
               req'[r1].query.op = "get_post_list", req'[r2].query.op = "get_post_list"
        PROVE  r1 = r2
    <3>1. ASSUME NEW r \in Req, Aims(t, r), req'[r].query.op = "get_post_list"
          PROVE  req[r].pc = "free" /\ req'[r].pc = "sent" /\ \A x \in Req \ {r} : req'[x] = req[x]
      <4>1. PICK query \in Query, idx \in Nat :
               /\ AsksAt(t, r, query, idx)
               /\ query.op = "get_post_list" => \A x \in Req \ {r} : req'[x] = req[x]
        BY <3>1 DEF Aims
      <4>2. req'[r].query = query /\ req'[r].pc = "sent" /\ req[r].pc = "free"
        BY <4>1 DEF AsksAt, Sent, Free
      <4> QED  BY <3>1, <4>1, <4>2
    <3> QED  BY <2>1, <2>2, <3>1
  <2> QED  BY <2>1, <2>2, DriftKept
<1> QED  BY <1>1, <1>2

\* The list comes: a page that is no early one had shown nothing, and had no calls about posts.
LEMMA ListDrift ==
    ASSUME TypeOK, PagesTyped, PagesTyped', DriftInv, NEW r \in Req, NEW t \in Tab, OnPostList(r, t)
    PROVE  DriftInv'
<1>1. PICK list : /\ Turns(t, "loaded", list, tab[t].added) /\ Steady(t)
                  /\ Waited(r, t, "get_post_list") /\ Ends(r)
  BY ListMoves
<1>2. tab[t].state = "loading" /\ CallOK(r) /\ PageOK(t) /\ tab[t].added \in Nat
  BY <1>1 DEF DriftInv, CallOK, Waited, PagesTyped, PageTyped
<1>3. ASSUME NEW u \in Tab PROVE PageOK(u)'
  BY <1>1 DEF Turns, PageOK, DriftInv
<1>4. ASSUME NEW x \in Req, call'[x] # NoCall
      PROVE  x # r /\ call'[x] = call[x] /\ req'[x] = req[x] /\ call[x] \in Closure /\ CallOK(x) /\ Aimed(x)
  <2>1. x # r /\ call'[x] = call[x] /\ req'[x] = req[x]
    BY <1>1, <1>4 DEF Ends
  <2> QED  BY <1>4, <2>1 DEF PagesTyped, DriftInv, CallOK
<1>5. ASSUME NEW x \in Req PROVE CallOK(x)'
  <2>1. CASE call'[x] = NoCall
    BY <2>1 DEF CallOK
  <2>2. CASE call'[x] # NoCall /\ call[x].tab # t
    <3>1. call[x].tab \in Tab \ {t}
      BY <1>4, <2>2 DEF Closure
    <3>2. tab'[call[x].tab] = tab[call[x].tab]
      BY <1>1, <3>1 DEF Turns
    <3> QED  BY <1>4, <2>2, <3>2, SMTT(40) DEF CallOK, Aimed
  <2>3. CASE call'[x] # NoCall /\ call[x].tab = t
    <3>1. req[x].query.op # "get_post_list"
      BY <1>1, <1>4, <2>3 DEF DriftInv, OneList, Waited
    <3>2. tab'[t].added = tab[t].added /\ tab'[t].early = tab[t].early /\ tab'[t].state = "loaded"
      BY <1>1 DEF Turns, Steady
    <3>3. ~(call[x].idx # 0 /\ (~tab[t].early \/ tab[t].added = 0))
      <4> SUFFICES ASSUME call[x].idx # 0, ~tab[t].early \/ tab[t].added = 0 PROVE FALSE
        OBVIOUS
      <4>1. tab[t].post_list = <<>>
        BY <1>2 DEF PageOK
      <4>2. \E place : place \in DOMAIN tab[t].post_list
        BY <1>4, <2>3 DEF Aimed
      <4> QED  BY <4>1, <4>2
    <3>4. Aimed(x)'
      BY <1>4, <2>3, <3>2, <3>3 DEF Aimed
    <3> QED  BY <1>4, <2>3, <3>1, <3>2, <3>4 DEF CallOK
  <2> QED  BY <2>1, <2>2, <2>3
<1>6. OneList'
  BY <1>4 DEF DriftInv, OneList
<1> QED  BY <1>3, <1>5, <1>6 DEF DriftInv

\* A post in front of the others moves them and what is aimed at them by one place.
LEMMA AddedDrift ==
    ASSUME TypeOK, PagesTyped, AnswersTyped, PagesTyped', DriftInv, NEW r \in Req, NEW t \in Tab, OnPostAdded(r, t)
    PROVE  DriftInv'
<1> DEFINE old == tab[t].post_list
           new == WithPost(req[r].number, old)
<1>1. /\ Turns(t, tab[t].state, new, tab[t].added + 1) /\ Steady(t)
      /\ Waited(r, t, "add_post") /\ Ends(r)
  BY AddedMoves
<1>2. req[r].number \in Nat /\ old \in Seq(Entry)
  BY <1>1 DEF AnswersTyped, Waited, Inserts, PagesTyped, PageTyped
<1>3. /\ DOMAIN new = 1..(Len(old) + 1) /\ DOMAIN old = 1..Len(old) /\ Len(old) \in Nat
      /\ \A i \in DOMAIN old : new[i + 1].id = old[i].id
  <2> HIDE DEF new, old
  <2>1. /\ DOMAIN new = 1..(Len(old) + 1)
        /\ \A i \in DOMAIN old : new[i + 1].id = old[i].id
    BY <1>2, AddedTyped, ZenonT(60) DEF new
  <2> QED  BY <1>2, <2>1
<1> HIDE DEF new
<1>4. /\ tab'[t].post_list = new /\ tab'[t].added = tab[t].added + 1 /\ tab'[t].early = tab[t].early
      /\ tab'[t].state = tab[t].state /\ tab[t].added \in Nat
      /\ tab[t].early \/ tab[t].state = "loaded"
  <2>1. tab[t].added \in Nat
    BY DEF PagesTyped, PageTyped
  <2>2. tab[t].early \/ tab[t].state = "loaded"
    BY <1>1 DEF DriftInv, CallOK, Waited
  <2> QED  BY <1>1, <2>1, <2>2 DEF Turns, Steady
<1>5. ASSUME NEW u \in Tab PROVE PageOK(u)'
  <2>1. CASE u = t
    BY <1>4, <2>1 DEF PageOK
  <2>2. CASE u # t
    BY <1>1, <2>2 DEF Turns, PageOK, DriftInv
  <2> QED  BY <2>1, <2>2
<1>6. ASSUME NEW x \in Req, call'[x] # NoCall
      PROVE  x # r /\ call'[x] = call[x] /\ req'[x] = req[x] /\ call[x] \in Closure /\ CallOK(x) /\ Aimed(x)
  <2>1. x # r /\ call'[x] = call[x] /\ req'[x] = req[x]
    BY <1>1, <1>6 DEF Ends
  <2> QED  BY <1>6, <2>1 DEF PagesTyped, DriftInv, CallOK
<1>7. ASSUME NEW x \in Req PROVE CallOK(x)'
  <2>1. CASE call'[x] = NoCall
    BY <2>1 DEF CallOK
  <2>2. CASE call'[x] # NoCall /\ call[x].tab # t
    <3>1. call[x].tab \in Tab \ {t}
      BY <1>6, <2>2 DEF Closure
    <3>2. tab'[call[x].tab] = tab[call[x].tab]
      BY <1>1, <3>1 DEF Turns
    <3> QED  BY <1>6, <2>2, <3>2, SMTT(40) DEF CallOK, Aimed
  <2>3. CASE call'[x] # NoCall /\ call[x].tab = t
    <3>1. call[x].added <= tab[t].added /\ call[x].added \in Nat /\ call[x].idx \in Nat
      BY <1>6, <2>3 DEF CallOK, Closure
    <3> DEFINE place == call[x].idx + tab[t].added - call[x].added
    <3>2. call[x].idx + (tab[t].added + 1) - call[x].added = place + 1 /\ place \in Nat
      BY <1>4, <3>1
    <3>3. ASSUME call[x].idx # 0, ~tab[t].early
          PROVE  place + 1 \in DOMAIN new /\ new[place + 1].id = Target(req[x].query)
      <4>1. place \in DOMAIN old /\ old[place].id = Target(req[x].query)
        BY <1>6, <2>3, <3>3 DEF Aimed
      <4> QED  BY <1>3, <3>2, <4>1
    <3>4. Aimed(x)'
      <4>1. tab'[t].added # 0
        BY <1>4
      <4> QED  BY <1>4, <1>6, <2>3, <3>2, <3>3, <4>1, SMTT(40) DEF Aimed
    <3>5. call[x].added <= tab'[t].added
      BY <1>4, <3>1
    <3> QED  BY <1>4, <1>6, <2>3, <3>4, <3>5 DEF CallOK
  <2> QED  BY <2>1, <2>2, <2>3
<1>8. OneList'
  BY <1>6 DEF DriftInv, OneList
<1> QED  BY <1>5, <1>7, <1>8 DEF DriftInv

LEMMA DriftStep ==
    ASSUME DrivenInv, DriftInv, BrowserNext
    PROVE  DriftInv'
<1>1. TypeOK /\ PagesTyped /\ AnswersTyped /\ PagesTyped'
  BY PagesStep DEF DrivenInv, ServerInv
<1>2. (\A u \in Tab : Same(u)) /\ (\A x \in Req : Kept(x) \/ call'[x] = NoCall) => DriftInv'
  BY <1>1, DriftKept
<1>3. CASE \E t \in Tab : UserStep(t)
  BY <1>1, <1>3, UserDrift
<1>4. CASE \E r \in Req : ServerStep(r)
  <2>1. PICK r \in Req : Step(r) /\ UNCHANGED browserVars
    BY <1>4 DEF ServerStep, Step
  <2> QED  BY <1>1, <1>2, <2>1, StepKeepsCalls
<1>5. CASE \E r \in Req : Ignore(r)
  <2>1. PICK r \in Req : tab' = tab /\ Ends(r)
    BY <1>1, <1>5, IgnoreMoves
  <2> QED  BY <1>2, <2>1 DEF Ends, Goes, Kept, Same
<1>6. CASE \E r \in Req, t \in Tab : Callback(r, t)
  BY <1>1, <1>2, <1>6, CallbackKeeps, ListDrift, AddedDrift
<1> QED  BY <1>3, <1>4, <1>5, <1>6 DEF BrowserNext

LEMMA DriftStarts == BrowserInit => DriftInv
<1> SUFFICES ASSUME BrowserInit PROVE DriftInv
  OBVIOUS
<1>1. \A r \in Req : call[r] = NoCall
  BY DEF BrowserInit
<1>2. \A t \in Tab : PageOK(t)
  BY DEF BrowserInit, NewPage, PageOK
<1> QED  BY <1>1, <1>2 DEF DriftInv, CallOK, OneList

-----------------------------------------------------------------------------
(* The posts that pages show. *)

Ready(r) == req[r].pc \in {"done", "answered"}

\* The answer tells the id of a post that was added.
Added(r) == Ready(r) /\ req[r].query.op = "add_post" /\ req[r].status = 200

\* The ids on cards are ids of posts.
IdsInv ==
    /\ \A r \in Req : At(r, "half", Lists) => req[r].seen <= Len(posts)
    /\ \A r \in Req : req[r].pc # "free" => \A k \in DOMAIN req[r].cards : req[r].cards[k].id \in DOMAIN posts

\* While no database error hit: pages show posts that are in the table, and the posts that
\* they are about to add are other ones.
NewInv ==
    faults = 0 =>
        /\ \A r \in Req : Added(r) => req[r].number \in DOMAIN posts
        /\ \A r1, r2 \in Req : Added(r1) /\ Added(r2) /\ req[r1].number = req[r2].number => r1 = r2
        /\ \A t \in Tab : \A i \in DOMAIN tab[t].post_list : tab[t].post_list[i].id \in DOMAIN posts
        /\ \A r \in Req : Added(r) /\ call[r] # NoCall /\ ~tab[call[r].tab].early =>
              \A i \in DOMAIN tab[call[r].tab].post_list : tab[call[r].tab].post_list[i].id # req[r].number

PostsInv == IdsInv /\ NewInv /\ PostsOnce

\* Database errors are counted, and never forgotten.
LEMMA FaultsGrow ==
    ASSUME TypeOK, NEW r \in Req, Step(r)
    PROVE  faults' \in {faults, faults + 1} /\ (faults' = 0 => faults = 0 /\ ~Raise(r) /\ ~LoseCommit(r))
<1>0. faults \in Nat
  BY DEF TypeOK
<1>1. CASE Raise(r) \/ LoseCommit(r)
  BY <1>0, <1>1 DEF Raise, LoseCommit, Fault
<1>2. CASE ~Raise(r) /\ ~LoseCommit(r)
  <2>1. faults' = faults
    BY <1>2 DEF Step, Serve, Connect, Release, Refuse, Invalid, Read, AskSession, SelectPosts, SelectThumbs,
                CountLikes, CountDislikes, GetComments, GetImage, Write, AddPost, InsertComment, FindRecord,
                StoreThumb, StoreContent, StoreComment, StoreImage
  <2> QED  BY <1>0, <1>2, <2>1
<1> QED  BY <1>1, <1>2

LEMMA OthersStay ==
    ASSUME TypeOK, NEW r \in Req, Step(r)
    PROVE  /\ \A x \in Req \ {r} : req'[x] = req[x]
           /\ req'[r].query = req[r].query /\ req[r].pc # "free" /\ req'[r].pc # "free"
<1>1. PICK x \in Request : x.query = req[r].query /\ req' = [req EXCEPT ![r] = x]
                           /\ x.pc \in {"begun", "half", "done", "answered"} /\ req[r].pc # "free"
  BY StepMoves DEF Moves
<1> QED  BY <1>1 DEF TypeOK

LEMMA DomainsGrow ==
    ASSUME TypeOK, SeenInv, NEW r \in Req, Step(r)
    PROVE  DOMAIN posts \subseteq DOMAIN posts' /\ DOMAIN comments \subseteq DOMAIN comments'
  BY StepKeepsRows DEF RowsKept

LEMMA IdsStep ==
    ASSUME TypeOK, TypeOK', SeenInv, IdsInv, NEW r \in Req, Step(r)
    PROVE  IdsInv'
<1>0. /\ DOMAIN posts = 1..Len(posts) /\ Len(posts) \in Nat
      /\ DOMAIN posts' = 1..Len(posts') /\ Len(posts') \in Nat /\ Len(posts) <= Len(posts')
  <2>1. /\ DOMAIN posts = 1..Len(posts) /\ Len(posts) \in Nat
        /\ DOMAIN posts' = 1..Len(posts') /\ Len(posts') \in Nat
    BY DEF TypeOK
  <2>2. DOMAIN posts \subseteq DOMAIN posts'
    BY DomainsGrow
  <2>3. Len(posts) # 0 => Len(posts) \in DOMAIN posts
    BY <2>1
  <2> QED  BY <2>1, <2>2, <2>3
<1>1. \A x \in Req : req[x].pc # "free" => req[x].seen \in Nat
  BY InRequest, QueryTyped
<1>2. ASSUME NEW x \in Req, At(x, "half", Lists)' PROVE req'[x].seen <= Len(posts')
  <2>1. CASE x = r /\ Serve(r)
    <3>1. req'[x].seen = Len(posts)
      BY <1>2, <2>1, Found DEF At
    <3> QED  BY <1>0, <3>1
  <2>2. CASE req'[x] = req[x]
    <3>1. At(x, "half", Lists) /\ req[x].seen <= Len(posts) /\ req[x].seen \in Nat
      BY <1>1, <1>2, <2>2 DEF IdsInv, At
    <3> QED  BY <1>0, <2>2, <3>1
  <2> QED  BY <1>2, <2>1, <2>2, HalfDone DEF At
<1>3. ASSUME NEW x \in Req, req'[x].pc # "free", NEW k \in DOMAIN req'[x].cards
      PROVE  req'[x].cards[k].id \in DOMAIN posts'
  <2>1. CASE req'[x].cards = req[x].cards /\ req[x].pc # "free"
    BY <1>0, <1>3, <2>1 DEF IdsInv
  <2>2. CASE x # r
    BY <1>3, <2>1, <2>2, OthersStay
  <2>3. CASE x = r /\ req'[r].pc # "done"
    BY <2>1, <2>3, OthersStay, KeepsAnswer
  <2>4. CASE x = r /\ req'[r].pc = "done" /\ ~SelectThumbs(r)
    BY <1>3, <2>4, OnlyListsCards DEF NoCards
  <2>5. CASE x = r /\ SelectThumbs(r)
    <3>1. req'[r].cards = Cards(req[r].seen, UserOf(r)) /\ At(r, "half", Lists)
      BY <2>5 DEF SelectThumbs, AnswerCards, Finish, TypeOK
    <3>2. req[r].seen <= Len(posts) /\ req[r].seen \in Nat
      BY <1>1, <3>1 DEF IdsInv, At
    <3>3. k \in 1..req[r].seen /\ req'[r].cards[k].id = k
      BY <1>3, <2>5, <3>1 DEF Cards
    <3> QED  BY <1>0, <2>5, <3>2, <3>3
  <2> QED  BY <2>2, <2>3, <2>4, <2>5
<1> QED  BY <1>2, <1>3 DEF IdsInv

LEMMA IdsDrives ==
    ASSUME IdsInv, Drives \/ UNCHANGED serverVars
    PROVE  IdsInv'
<1>1. posts' = posts
  BY DEF Drives, Issued, serverVars, tables
<1>2. ASSUME NEW r \in Req
      PROVE  \/ req'[r] = req[r]
             \/ req'[r].pc = "free"
             \/ req'[r].pc = "sent" /\ req'[r].cards = NoCards
  <2>1. CASE Drives
    <3>1. CASE req'[r] = req[r] \/ req'[r] = Free
      BY <3>1 DEF Free
    <3>2. CASE \E query \in Query : req'[r] = Sent(query)
      BY <3>2 DEF Sent
    <3> QED  BY <2>1, <3>1, <3>2 DEF Drives
  <2>2. CASE UNCHANGED serverVars
    BY <2>2 DEF serverVars
  <2> QED  BY <2>1, <2>2
<1> QED  BY <1>1, <1>2 DEF IdsInv, At, NoCards

\* An answer that tells the id of an added post was there before, or is that of this step.
LEMMA NewlyAdded ==
    ASSUME TypeOK, NEW r \in Req, Step(r), faults' = 0, NEW x \in Req, Added(x)'
    PROVE  \/ Added(x) /\ req'[x].number = req[x].number
           \/ x = r /\ AddPost(r) /\ req'[r].number = Len(posts) + 1
<1>1. CASE x # r
  BY <1>1, OthersStay DEF Added, Ready
<1>2. CASE x = r /\ req'[r].pc # "done"
  BY <1>2, KeepsAnswer DEF Added, Ready
<1>3. CASE x = r /\ req'[r].pc = "done"
  <2>1. req[r].query.op = "add_post" /\ req'[r].status = 200
    BY <1>3, OthersStay DEF Added
  <2>2. faults' # faults + 1
    BY DEF TypeOK
  <2>3. ~InsertComment(r)
    BY <2>1 DEF InsertComment, At
  <2> QED  BY <1>3, <2>1, <2>2, <2>3, InsertAnswers DEF Inserts
<1> QED  BY <1>1, <1>2, <1>3

LEMMA NewStep ==
    ASSUME TypeOK, SeenInv, PagesTyped, NewInv, NEW r \in Req, Step(r), tab' = tab, call' = call
    PROVE  NewInv'
<1> SUFFICES ASSUME faults' = 0
             PROVE  /\ \A x \in Req : Added(x)' => req'[x].number \in DOMAIN posts'
                    /\ \A x, y \in Req : Added(x)' /\ Added(y)' /\ req'[x].number = req'[y].number => x = y
                    /\ \A t \in Tab : \A i \in DOMAIN tab[t].post_list : tab[t].post_list[i].id \in DOMAIN posts'
                    /\ \A x \in Req : Added(x)' /\ call[x] # NoCall /\ ~tab[call[x].tab].early =>
                          \A i \in DOMAIN tab[call[x].tab].post_list : tab[call[x].tab].post_list[i].id # req'[x].number
  BY DEF NewInv
<1>0. faults = 0 /\ DOMAIN posts \subseteq DOMAIN posts' /\ DOMAIN posts = 1..Len(posts) /\ Len(posts) \in Nat
  BY FaultsGrow, DomainsGrow DEF TypeOK
<1>1. /\ \A x \in Req : Added(x) => req[x].number \in DOMAIN posts
      /\ \A x, y \in Req : Added(x) /\ Added(y) /\ req[x].number = req[y].number => x = y
      /\ \A t \in Tab : \A i \in DOMAIN tab[t].post_list : tab[t].post_list[i].id \in DOMAIN posts
      /\ \A x \in Req : Added(x) /\ call[x] # NoCall /\ ~tab[call[x].tab].early =>
            \A i \in DOMAIN tab[call[x].tab].post_list : tab[call[x].tab].post_list[i].id # req[x].number
  BY <1>0 DEF NewInv
<1> DEFINE n == Len(posts) + 1
           Fresh(x) == x = r /\ AddPost(r) /\ req'[r].number = n
<1>2. ASSUME NEW x \in Req, Added(x)' PROVE (Added(x) /\ req'[x].number = req[x].number) \/ Fresh(x)
  BY <1>2, NewlyAdded
<1>3. n \notin DOMAIN posts
  BY <1>0
<1>4. AddPost(r) => n \in DOMAIN posts'
  BY DEF AddPost, TypeOK
<1> HIDE DEF n
<1>5. \A x \in Req : Added(x)' => req'[x].number \in DOMAIN posts'
  BY <1>0, <1>1, <1>2, <1>4
<1>6. ASSUME NEW x \in Req, NEW y \in Req, Added(x)', Added(y)', req'[x].number = req'[y].number PROVE x = y
  BY <1>1, <1>2, <1>3, <1>6
<1>7. \A t \in Tab : \A i \in DOMAIN tab[t].post_list : tab[t].post_list[i].id \in DOMAIN posts'
  BY <1>0, <1>1
<1>8. ASSUME NEW x \in Req, Added(x)', call[x] # NoCall, ~tab[call[x].tab].early,
             NEW i \in DOMAIN tab[call[x].tab].post_list
      PROVE  tab[call[x].tab].post_list[i].id # req'[x].number
  <2>1. CASE Added(x) /\ req'[x].number = req[x].number
    BY <1>1, <1>8, <2>1
  <2>2. CASE Fresh(x)
    <3>1. call[x].tab \in Tab
      BY <1>8 DEF PagesTyped, Closure
    <3> QED  BY <1>1, <1>3, <1>8, <2>2, <3>1
  <2> QED  BY <1>2, <1>8, <2>1, <2>2
<1> QED  BY <1>5, <1>6, <1>7, <1>8

\* Pages that show what they showed, and add no post, keep all this.
LEMMA NewKept ==
    ASSUME PagesTyped, NewInv, PostsOnce, Drives \/ UNCHANGED serverVars, \A u \in Tab : Same(u),
           \A r \in Req : Kept(r) \/ call'[r] = NoCall \/ \E t \in Tab : Aims(t, r)
    PROVE  NewInv' /\ PostsOnce'
<1>1. posts' = posts /\ faults' = faults
  BY DEF Drives, Issued, serverVars, tables
<1>2. ASSUME NEW r \in Req, Added(r)' PROVE req'[r] = req[r] /\ Added(r)
  <2>1. CASE Drives
    <3>1. req'[r] # Free
      BY <1>2 DEF Added, Ready, Free
    <3>2. ASSUME NEW query \in Query, req'[r] = Sent(query) PROVE FALSE
      BY <1>2, <3>2 DEF Added, Ready, Sent
    <3> QED  BY <1>2, <2>1, <3>1, <3>2 DEF Drives, Added, Ready
  <2>2. CASE UNCHANGED serverVars
    BY <1>2, <2>2 DEF serverVars, Added, Ready
  <2> QED  BY <2>1, <2>2
<1>3. ASSUME NEW r \in Req, Added(r)', call'[r] # NoCall PROVE call'[r] = call[r]
  <2>1. ASSUME NEW t \in Tab, Aims(t, r) PROVE FALSE
    BY <1>2, <1>3, <2>1 DEF Aims, AsksAt, Added, Ready, Free
  <2> QED  BY <1>3, <2>1 DEF Goes, Kept
<1>4. \A u \in Tab : \A i \in DOMAIN tab'[u].post_list :
         i \in DOMAIN tab[u].post_list /\ tab'[u].post_list[i].id = tab[u].post_list[i].id
  BY DEF Same
<1>5. \A u \in Tab : ~tab'[u].early => ~tab[u].early
  BY DEF Same
<1>6. PostsOnce'
  BY <1>1, <1>4, <1>5 DEF PostsOnce
<1>7. ASSUME NEW r \in Req, Added(r)', call'[r] # NoCall, ~tab'[call'[r].tab].early
      PROVE  /\ call'[r].tab \in Tab /\ Added(r) /\ req'[r].number = req[r].number
             /\ call[r] # NoCall /\ call'[r].tab = call[r].tab /\ ~tab[call[r].tab].early
  <2>1. call'[r] = call[r] /\ call[r] \in Closure
    BY <1>3, <1>7 DEF PagesTyped
  <2> QED  BY <1>2, <1>5, <1>7, <2>1 DEF Closure
<1>8. NewInv'
  <2> SUFFICES ASSUME faults' = 0 PROVE NewInv'
    BY DEF NewInv
  <2>1. \A r \in Req : Added(r)' => req'[r].number \in DOMAIN posts'
    BY <1>1, <1>2 DEF NewInv
  <2>2. \A x, y \in Req : Added(x)' /\ Added(y)' /\ req'[x].number = req'[y].number => x = y
    BY <1>1, <1>2 DEF NewInv
  <2>3. \A t \in Tab : \A i \in DOMAIN tab'[t].post_list : tab'[t].post_list[i].id \in DOMAIN posts'
    BY <1>1, <1>4 DEF NewInv
  <2>4. \A r \in Req : Added(r)' /\ call'[r] # NoCall /\ ~tab'[call'[r].tab].early =>
           \A i \in DOMAIN tab'[call'[r].tab].post_list : tab'[call'[r].tab].post_list[i].id # req'[r].number
    <3> SUFFICES ASSUME NEW r \in Req, Added(r)', call'[r] # NoCall, ~tab'[call'[r].tab].early,
                        NEW i \in DOMAIN tab'[call'[r].tab].post_list
                 PROVE  tab'[call'[r].tab].post_list[i].id # req'[r].number
      OBVIOUS
    <3>1. /\ call[r].tab \in Tab /\ Added(r) /\ req'[r].number = req[r].number
          /\ call[r] # NoCall /\ call'[r].tab = call[r].tab /\ ~tab[call[r].tab].early
      BY <1>7
    <3>2. i \in DOMAIN tab[call[r].tab].post_list /\ tab'[call[r].tab].post_list[i].id = tab[call[r].tab].post_list[i].id
      BY <1>4, <3>1
    <3>3. faults = 0
      BY <1>1
    <3> QED  BY <3>1, <3>2, <3>3 DEF NewInv
  <2> QED  BY <2>1, <2>2, <2>3, <2>4 DEF NewInv
<1> QED  BY <1>6, <1>8

\* A page that is left shows nothing and adds nothing.
LEMMA LeaveNew ==
    ASSUME TypeOK, PagesTyped, NewInv, PostsOnce, NEW t \in Tab, Leave(t)
    PROVE  NewInv' /\ PostsOnce'
<1>1. /\ Turns(t, "new", <<>>, 0) /\ UNCHANGED serverVars
      /\ \A r \in Req : call'[r] = NoCall \/ (call'[r] = call[r] /\ call[r].tab # t)
  BY LeaveMoves
<1>2. posts' = posts /\ faults' = faults /\ req' = req
  BY <1>1 DEF serverVars, tables
<1>3. \A u \in Tab : tab'[u].post_list = <<>> \/ (u # t /\ tab'[u] = tab[u])
  BY <1>1 DEF Turns
<1>4. \A r \in Req : call'[r] # NoCall => call'[r] = call[r] /\ call[r].tab \in Tab \ {t}
  BY <1>1 DEF PagesTyped, Closure
<1>5. PostsOnce'
  BY <1>2, <1>3 DEF PostsOnce
<1>6. NewInv'
  <2> SUFFICES ASSUME faults' = 0 PROVE NewInv'
    BY DEF NewInv
  <2>1. \A r \in Req : Added(r)' <=> Added(r)
    BY <1>2 DEF Added, Ready
  <2>2. \A u \in Tab : \A i \in DOMAIN tab'[u].post_list : u # t /\ tab'[u] = tab[u]
    BY <1>3
  <2>3. \A u \in Tab : \A i \in DOMAIN tab'[u].post_list : tab'[u].post_list[i].id \in DOMAIN posts'
    BY <1>2, <2>2 DEF NewInv
  <2>4. ASSUME NEW r \in Req, Added(r)', call'[r] # NoCall, ~tab'[call'[r].tab].early,
               NEW i \in DOMAIN tab'[call'[r].tab].post_list
        PROVE  tab'[call'[r].tab].post_list[i].id # req'[r].number
    BY <1>2, <1>4, <2>1, <2>2, <2>4 DEF NewInv
  <2>5. /\ \A r \in Req : Added(r)' => req'[r].number \in DOMAIN posts'
        /\ \A x, y \in Req : Added(x)' /\ Added(y)' /\ req'[x].number = req'[y].number => x = y
    BY <1>2, <2>1 DEF NewInv
  <2> QED  BY <2>3, <2>4, <2>5 DEF NewInv
<1> QED  BY <1>5, <1>6

\* The list that comes is in the order of the ids, and no post was to be added to it.
LEMMA ListNew ==
    ASSUME TypeOK, PagesTyped, AnswersTyped, DriftInv, IdsInv, NewInv, PostsOnce,
           NEW r \in Req, NEW t \in Tab, OnPostList(r, t)
    PROVE  NewInv' /\ PostsOnce'
<1>1. PICK list \in InOrder(Near(t, req[r].cards)) :
         /\ Turns(t, "loaded", Entries(list), tab[t].added) /\ Steady(t)
         /\ Waited(r, t, "get_post_list") /\ Ends(r)
  BY ListMoves
<1>2. posts' = posts /\ faults' = faults /\ \A x \in Req \ {r} : req'[x] = req[x] /\ call'[x] = call[x]
  BY <1>1 DEF Ends, Issued, tables
<1>3. call'[r] = NoCall /\ req'[r].pc = "free"
  BY <1>1 DEF Ends, Free
<1>4. \A x \in Req : Added(x)' => x # r /\ Added(x) /\ req'[x] = req[x]
  BY <1>2, <1>3 DEF Added, Ready
<1>5. req[r] \in Request /\ req[r].cards \in Seq(Card) /\ req[r].pc # "free"
  BY <1>1, InRequest DEF Waited, Request
<1>6. /\ list \in Seq(Card) /\ list \in Seq(Near(t, req[r].cards))
      /\ \A i, j \in DOMAIN list : i < j => list[i].id < list[j].id
  BY <1>5, NearFinite, OrderTyped
<1>7. /\ DOMAIN Entries(list) = DOMAIN list
      /\ \A i \in DOMAIN list : Entries(list)[i].id = list[i].id /\ list[i].id \in DOMAIN posts
  <2>1. \A i \in DOMAIN list : list[i] \in Near(t, req[r].cards)
    BY <1>6
  <2>2. \A i \in DOMAIN list : list[i].id \in DOMAIN posts
    BY <1>5, <2>1 DEF Near, IdsInv
  <2> QED  BY <1>6, <2>2, EntriesTyped
<1>8. /\ tab'[t].post_list = Entries(list) /\ tab'[t].early = tab[t].early
      /\ \A u \in Tab \ {t} : tab'[u] = tab[u]
  BY <1>1 DEF Turns, Steady
<1>9. ASSUME NEW i \in DOMAIN list, NEW j \in DOMAIN list, list[i].id = list[j].id PROVE i = j
  <2>1. i \in Nat /\ j \in Nat /\ list[i].id \in Nat
    <3>1. list[i] \in Card
      BY <1>6
    <3> QED  BY <1>6, <3>1 DEF Card
  <2>2. ~(i < j) /\ ~(j < i)
    BY <1>6, <1>9, <2>1
  <2> QED  BY <2>1, <2>2
<1>10. PostsOnce'
  <2> SUFFICES ASSUME NEW u \in Tab, ~tab'[u].early, faults' = 0,
                      NEW i \in DOMAIN tab'[u].post_list, NEW j \in DOMAIN tab'[u].post_list,
                      tab'[u].post_list[i].id = tab'[u].post_list[j].id
               PROVE  i = j
    BY DEF PostsOnce
  <2>1. CASE u = t
    BY <1>7, <1>8, <1>9, <2>1
  <2>2. CASE u # t
    BY <1>2, <1>8, <2>2 DEF PostsOnce
  <2> QED  BY <2>1, <2>2
<1>11. NewInv'
  <2> SUFFICES ASSUME faults' = 0 PROVE NewInv'
    BY DEF NewInv
  <2>1. ASSUME NEW u \in Tab, NEW i \in DOMAIN tab'[u].post_list PROVE tab'[u].post_list[i].id \in DOMAIN posts'
    <3>1. CASE u = t
      BY <1>2, <1>7, <1>8, <3>1
    <3>2. CASE u # t
      BY <1>2, <1>8, <3>2 DEF NewInv
    <3> QED  BY <3>1, <3>2
  <2>2. ASSUME NEW x \in Req, Added(x)', call'[x] # NoCall, ~tab'[call'[x].tab].early,
               NEW i \in DOMAIN tab'[call'[x].tab].post_list
        PROVE  tab'[call'[x].tab].post_list[i].id # req'[x].number
    <3>1. call'[x] = call[x] /\ Added(x) /\ req'[x] = req[x] /\ call[x].tab \in Tab
      BY <1>2, <1>4, <2>2 DEF PagesTyped, Closure
    <3>2. call[x].tab # t
      <4>1. CallOK(x) /\ CallOK(r)
        BY DEF DriftInv
      <4> QED  BY <1>1, <1>8, <2>2, <3>1, <4>1 DEF CallOK, Waited, Added
    <3>3. tab'[call[x].tab] = tab[call[x].tab] /\ faults = 0
      BY <1>2, <1>8, <3>1, <3>2
    <3> QED  BY <2>2, <3>1, <3>3 DEF NewInv
  <2>3. \A x \in Req : Added(x)' => req'[x].number \in DOMAIN posts'
    BY <1>2, <1>4 DEF NewInv
  <2>4. \A x, y \in Req : Added(x)' /\ Added(y)' /\ req'[x].number = req'[y].number => x = y
    BY <1>2, <1>4 DEF NewInv
  <2> QED  BY <2>1, <2>2, <2>3, <2>4 DEF NewInv
<1> QED  BY <1>10, <1>11

\* The post that is added is another one than those shown, and than those still to be added.
LEMMA AddedNew ==
    ASSUME TypeOK, PagesTyped, AnswersTyped, DriftInv, NewInv, PostsOnce,
           NEW r \in Req, NEW t \in Tab, OnPostAdded(r, t)
    PROVE  NewInv' /\ PostsOnce'
<1> DEFINE old == tab[t].post_list
           new == WithPost(req[r].number, old)
           n == req[r].number
<1>1. /\ Turns(t, tab[t].state, new, tab[t].added + 1) /\ Steady(t)
      /\ Waited(r, t, "add_post") /\ Ends(r)
  BY AddedMoves
<1>2. n \in Nat /\ old \in Seq(Entry)
  BY <1>1 DEF AnswersTyped, Waited, Inserts, PagesTyped, PageTyped
<1>3. /\ DOMAIN new = 1..(Len(old) + 1) /\ new[1].id = n
      /\ \A i \in DOMAIN old : new[i + 1].id = old[i].id
  <2> HIDE DEF new, old, n
  <2> QED  BY <1>2, AddedTyped, ZenonT(60) DEF new, n
<1> HIDE DEF new
<1>4. /\ tab'[t].post_list = new /\ tab'[t].early = tab[t].early
      /\ \A u \in Tab \ {t} : tab'[u] = tab[u]
  BY <1>1 DEF Turns, Steady
<1>5. posts' = posts /\ faults' = faults /\ \A x \in Req \ {r} : req'[x] = req[x] /\ call'[x] = call[x]
  BY <1>1 DEF Ends, Issued, tables
<1>6. call'[r] = NoCall /\ req'[r].pc = "free" /\ Added(r) /\ call[r] # NoCall /\ call[r].tab = t
  BY <1>1 DEF Ends, Free, Waited, Added, Ready
<1>7. \A x \in Req : Added(x)' => x # r /\ Added(x) /\ req'[x] = req[x]
  BY <1>5, <1>6 DEF Added, Ready
<1>8. ASSUME NEW i \in DOMAIN new
      PROVE  (i = 1 /\ new[i].id = n) \/ (i - 1 \in DOMAIN old /\ new[i].id = old[i - 1].id)
  <2> HIDE DEF old, n
  <2>1. DOMAIN old = 1..Len(old) /\ Len(old) \in Nat /\ i \in 1..(Len(old) + 1)
    BY <1>2, <1>3, <1>8
  <2>2. CASE i = 1
    BY <1>3, <2>2
  <2>3. CASE i # 1
    <3>1. i - 1 \in DOMAIN old /\ (i - 1) + 1 = i
      BY <2>1, <2>3
    <3> QED  BY <1>3, <3>1
  <2> QED  BY <2>2, <2>3
<1>9. PostsOnce'
  <2> SUFFICES ASSUME NEW u \in Tab, ~tab'[u].early, faults' = 0,
                      NEW i \in DOMAIN tab'[u].post_list, NEW j \in DOMAIN tab'[u].post_list,
                      tab'[u].post_list[i].id = tab'[u].post_list[j].id
               PROVE  i = j
    BY DEF PostsOnce
  <2>1. CASE u = t
    <3>1. \A k \in DOMAIN old : old[k].id # n
      BY <1>4, <1>5, <1>6, <2>1 DEF NewInv
    <3>2. \A k, m \in DOMAIN old : old[k].id = old[m].id => k = m
      BY <1>4, <1>5, <2>1 DEF PostsOnce
    <3>3. i \in DOMAIN new /\ j \in DOMAIN new /\ new[i].id = new[j].id /\ i \in Int /\ j \in Int
      BY <1>3, <1>4, <2>1
    <3>4. i - 1 = j - 1 => i = j
      BY <3>3
    <3> HIDE DEF old, n
    <3> QED  BY <1>8, <3>1, <3>2, <3>3, <3>4
  <2>2. CASE u # t
    BY <1>4, <1>5, <2>2 DEF PostsOnce
  <2> QED  BY <2>1, <2>2
<1>10. NewInv'
  <2> SUFFICES ASSUME faults' = 0 PROVE NewInv'
    BY DEF NewInv
  <2>0. faults = 0
    BY <1>5
  <2>1. ASSUME NEW u \in Tab, NEW i \in DOMAIN tab'[u].post_list PROVE tab'[u].post_list[i].id \in DOMAIN posts'
    <3>1. CASE u = t
      <4>1. n \in DOMAIN posts /\ \A k \in DOMAIN old : old[k].id \in DOMAIN posts
        BY <1>6, <2>0 DEF NewInv
      <4> QED  BY <1>4, <1>5, <1>8, <2>1, <3>1, <4>1
    <3>2. CASE u # t
      BY <1>4, <1>5, <2>0, <2>1, <3>2 DEF NewInv
    <3> QED  BY <3>1, <3>2
  <2>2. ASSUME NEW x \in Req, Added(x)', call'[x] # NoCall, ~tab'[call'[x].tab].early,
               NEW i \in DOMAIN tab'[call'[x].tab].post_list
        PROVE  tab'[call'[x].tab].post_list[i].id # req'[x].number
    <3>1. x # r /\ call'[x] = call[x] /\ Added(x) /\ req'[x] = req[x] /\ call[x].tab \in Tab
      BY <1>5, <1>7, <2>2 DEF PagesTyped, Closure
    <3>2. CASE call[x].tab # t
      <4>1. tab'[call[x].tab] = tab[call[x].tab]
        BY <1>4, <3>1, <3>2
      <4> QED  BY <2>0, <2>2, <3>1, <4>1 DEF NewInv
    <3>3. CASE call[x].tab = t
      <4>1. i \in DOMAIN new /\ tab'[call'[x].tab].post_list[i].id = new[i].id /\ ~tab[t].early
        BY <1>4, <2>2, <3>1, <3>3
      <4>2. n # req[x].number
        BY <1>6, <2>0, <3>1 DEF NewInv
      <4>3. \A k \in DOMAIN old : old[k].id # req[x].number
        BY <2>0, <2>2, <3>1, <3>3, <4>1 DEF NewInv
      <4> QED  BY <1>8, <3>1, <4>1, <4>2, <4>3
    <3> QED  BY <3>2, <3>3
  <2>3. \A x \in Req : Added(x)' => req'[x].number \in DOMAIN posts'
    BY <1>5, <1>7, <2>0 DEF NewInv
  <2>4. \A x, y \in Req : Added(x)' /\ Added(y)' /\ req'[x].number = req'[y].number => x = y
    BY <1>5, <1>7, <2>0 DEF NewInv
  <2> QED  BY <2>1, <2>2, <2>3, <2>4 DEF NewInv
<1> QED  BY <1>9, <1>10

LEMMA PostsStep ==
    ASSUME DrivenInv, DriftInv, PostsInv, BrowserNext
    PROVE  PostsInv'
<1>1. TypeOK /\ TypeOK' /\ SeenInv /\ PagesTyped /\ AnswersTyped /\ IdsInv /\ NewInv /\ PostsOnce
  BY DrivenStays DEF DrivenInv, ServerInv, UpsertInv, PostsInv
<1>2. IdsInv'
  BY <1>1, PagesStep, IdsDrives, IdsStep
<1>3. ASSUME Drives \/ UNCHANGED serverVars, \A u \in Tab : Same(u),
             \A r \in Req : Kept(r) \/ call'[r] = NoCall \/ \E t \in Tab : Aims(t, r)
      PROVE  NewInv' /\ PostsOnce'
  BY <1>1, <1>3, NewKept
<1>4. CASE \E t \in Tab : UserStep(t)
  <2>1. PICK t \in Tab : UserStep(t)
    BY <1>4
  <2>2. CASE Leave(t)
    BY <1>1, <1>2, <2>2, LeaveNew DEF PostsInv
  <2>3. CASE ~Leave(t)
    <3>1. /\ \A u \in Tab : Same(u)
          /\ \A r \in Req : Kept(r) \/ Aims(t, r)
      BY <1>1, <2>1, <2>3, UserAims
    <3>2. Drives \/ UNCHANGED serverVars
      BY <1>1, <2>1, UserDrives
    <3> QED  BY <1>2, <1>3, <3>1, <3>2 DEF PostsInv
  <2> QED  BY <2>2, <2>3
<1>5. CASE \E r \in Req : ServerStep(r)
  <2>1. PICK r \in Req : Step(r) /\ UNCHANGED browserVars
    BY <1>5 DEF ServerStep, Step
  <2>2. tab' = tab /\ call' = call
    BY <2>1 DEF browserVars
  <2>3. NewInv'
    BY <1>1, <2>1, <2>2, NewStep
  <2>4. PostsOnce'
    <3>1. faults' = 0 => faults = 0
      BY <1>1, <2>1, FaultsGrow
    <3> QED  BY <1>1, <2>2, <3>1 DEF PostsOnce
  <2> QED  BY <1>2, <2>3, <2>4 DEF PostsInv
<1>6. CASE \E r \in Req : Ignore(r)
  <2>1. PICK r \in Req : tab' = tab /\ Ends(r)
    BY <1>1, <1>6, IgnoreMoves
  <2>2. (\A u \in Tab : Same(u)) /\ (\A x \in Req : Kept(x) \/ call'[x] = NoCall)
    BY <2>1 DEF Ends, Goes, Kept, Same
  <2> QED  BY <1>2, <1>3, <2>1, <2>2, EndsDrives DEF PostsInv
<1>7. CASE \E r \in Req, t \in Tab : Callback(r, t)
  <2>1. PICK r \in Req, t \in Tab : Callback(r, t)
    BY <1>7
  <2>2. CASE OnPostList(r, t)
    BY <1>1, <1>2, <2>2, ListNew DEF PostsInv
  <2>3. CASE OnPostAdded(r, t)
    BY <1>1, <1>2, <2>3, AddedNew DEF PostsInv
  <2>4. CASE ~OnPostList(r, t) /\ ~OnPostAdded(r, t)
    <3>1. (\A u \in Tab : Same(u)) /\ (\A x \in Req : Kept(x) \/ call'[x] = NoCall)
      BY <1>1, <2>1, <2>4, CallbackKeeps
    <3>2. Drives \/ UNCHANGED serverVars
      BY <1>1, <2>1, CallbackDrives
    <3> QED  BY <1>2, <1>3, <3>1, <3>2 DEF PostsInv
  <2> QED  BY <2>2, <2>3, <2>4
<1> QED  BY <1>4, <1>5, <1>6, <1>7 DEF BrowserNext

LEMMA PostsStart == BrowserInit => PostsInv
<1> SUFFICES ASSUME BrowserInit PROVE PostsInv
  OBVIOUS
<1>1. /\ \A r \in Req : req[r].pc = "free"
      /\ \A t \in Tab : tab[t].post_list = <<>>
  BY DEF BrowserInit, Init, Free, NewPage
<1> QED  BY <1>1 DEF PostsInv, IdsInv, NewInv, PostsOnce, At, Added, Ready

\* All that is known of the pages and their calls, so far.
PagesInv == DrivenInv /\ DriftInv /\ PostsInv

LEMMA PagesStart == BrowserInit => PagesInv
  BY DrivenStarts, DriftStarts, PostsStart DEF PagesInv

LEMMA PagesStay == PagesInv /\ [BrowserNext]_vars => PagesInv'
<1> SUFFICES ASSUME PagesInv, [BrowserNext]_vars PROVE PagesInv'
  OBVIOUS
<1>1. DrivenInv'
  BY DrivenStays DEF PagesInv
<1>2. CASE BrowserNext
  BY <1>1, <1>2, DriftStep, PostsStep DEF PagesInv
<1>3. CASE UNCHANGED vars
  <2>1. tab' = tab /\ call' = call /\ req' = req /\ posts' = posts /\ faults' = faults
    BY <1>3 DEF vars, serverVars, browserVars, tables
  <2>2. DriftInv'
    BY <2>1 DEF PagesInv, DriftInv, PageOK, CallOK, OneList, Aimed
  <2>3. IdsInv' /\ PostsOnce'
    BY <2>1 DEF PagesInv, PostsInv, IdsInv, At, PostsOnce
  <2>4. NewInv'
    BY <2>1 DEF PagesInv, PostsInv, NewInv, Added, Ready
  <2> QED  BY <1>1, <2>2, <2>3, <2>4 DEF PagesInv, PostsInv
<1> QED  BY <1>2, <1>3

\* A callback finds its post as many places after the captured position as posts were added
\* since the call: what is on its way lands on its own post if, and only if, none was.
THEOREM CallbacksDrift == BrowserSpec => []CallbackDrift
<1>1. PagesInv => CallbackDrift
  BY DriftEnough DEF PagesInv, DrivenInv
<1> QED  BY <1>1, PagesStart, PagesStay, PTL DEF BrowserSpec

\* However the list and the answers to new posts cross, a page that did not submit a post
\* before its list came shows no post twice.
THEOREM PagesShowPostsOnce == BrowserSpec => []PostsOnce
<1>1. PagesInv => PostsOnce
  BY DEF PagesInv, PostsInv
<1> QED  BY <1>1, PagesStart, PagesStay, PTL DEF BrowserSpec

-----------------------------------------------------------------------------
(* The comments that pages show. *)

Fits(id, post) == id \in DOMAIN comments /\ comments[id].post = post
FitsNext(id, post) == id \in DOMAIN comments' /\ comments'[id].post = post

\* The comments on a post are asked for by its id.
OwnRows ==
    \A r \in Req : req[r].pc # "free" /\ req[r].query.op = "get_comments" =>
        \A row \in req[r].rows : row.post = req[r].query.id

\* A page to which no post was added shows comments where they belong.
UnderOwn ==
    \A t \in Tab : tab[t].added = 0 =>
        \A i \in DOMAIN tab[t].post_list : \A k \in DOMAIN tab[t].post_list[i].comments :
            tab[t].post_list[i].comments[k].post = tab[t].post_list[i].id

\* While no database error hit, a comment on screen is a row of the table, on the same post.
FitPages ==
    faults = 0 =>
        \A t \in Tab : \A i \in DOMAIN tab[t].post_list : \A k \in DOMAIN tab[t].post_list[i].comments :
            Fits(tab[t].post_list[i].comments[k].id, tab[t].post_list[i].comments[k].post)

\* And so is one that is on its way to a page, or to be changed by one.
FitCalls ==
    faults = 0 =>
        \A r \in Req : req[r].pc # "free" =>
            /\ \A row \in req[r].rows : Fits(row.id, row.post)
            /\ req[r].query.op = "edit_comment" => Fits(req[r].query.id, req[r].query.post)
            /\ At(r, "half", {"edit_comment"}) => req[r].seen \in {0, req[r].query.id}
            /\ Ready(r) /\ req[r].query.op = "insert_comment" /\ req[r].status = 200 =>
                  Fits(req[r].number, req[r].query.post)

CommentInv == OwnRows /\ UnderOwn /\ FitPages /\ FitCalls

LEMMA CommentsEnough == CommentInv => CommentsUnderOwnPost
BY SMTT(40) DEF CommentInv, UnderOwn, FitPages, Fits, CommentsUnderOwnPost

\* Where the rows of an answer come from.
LEMMA RowsCome ==
    ASSUME TypeOK, NEW r \in Req, Step(r)
    PROVE  \/ req'[r].rows = req[r].rows
           \/ req'[r].rows = {}
           \/ GetComments(r) /\ req'[r].rows = Rows(req[r].query.id) /\ UNCHANGED tables
<1>1. CASE req'[r].pc # "done"
  BY <1>1, KeepsAnswer
<1>2. CASE SelectThumbs(r)
  BY <1>2 DEF SelectThumbs, AnswerCards, Finish, TypeOK, NoRows
<1>3. CASE GetComments(r)
  BY <1>3 DEF GetComments, AnswerRows, Finish, TypeOK
<1>4. CASE req'[r].pc = "done" /\ ~SelectThumbs(r) /\ ~GetComments(r)
  <2>1. req'[r].rows = NoRows
    BY <1>4, AnswerKinds DEF Answer, AnswerDone, AnswerError, AnswerCards, Finish, TypeOK
  <2> QED  BY <2>1 DEF NoRows
<1> QED  BY <1>1, <1>2, <1>3, <1>4

\* No edit moves a comment to another post, as the pages send the post that it is on.
LEMMA CommentsStay ==
    ASSUME TypeOK, SeenInv, FitCalls, faults = 0, NEW r \in Req, Step(r), NEW i \in DOMAIN comments
    PROVE  i \in DOMAIN comments' /\ comments'[i].post = comments[i].post
<1>0. comments \in Seq(Comment)
  BY DEF TypeOK
<1>1. i \in DOMAIN comments'
  BY StepKeepsRows DEF RowsKept
<1>2. CASE comments' = comments
  BY <1>2
<1>3. CASE InsertComment(r)
  <2>1. \E row : comments' = Append(comments, row)
    BY <1>3 DEF InsertComment
  <2> QED  BY <1>0, <1>1, <2>1
<1>4. CASE StoreComment(r)
  <2> DEFINE q == req[r].query
             mine == IF UserOf(r) = q.author THEN 0 ELSE 1
             new == [post |-> 0, author |-> UserOf(r), body |-> NoText, mine |-> 0]
             old == IF req[r].seen = 0 THEN new ELSE comments[req[r].seen]
             row == IF q.op = "my_comment" THEN [old EXCEPT !.mine = mine]
                    ELSE [old EXCEPT !.post = q.post, !.body = q.text]
  <2>1. /\ At(r, "half", {"edit_comment", "my_comment"})
        /\ comments' = IF req[r].seen = 0 THEN Append(comments, row)
                       ELSE [comments EXCEPT ![req[r].seen] = row]
    BY <1>4 DEF StoreComment
  <2>2. ASSUME req[r].seen = i PROVE row.post = comments[i].post
    <3>1. old = comments[i] /\ comments[i] \in Comment
      BY <1>0, <2>2
    <3>2. q.op = "edit_comment" => q.post = comments[i].post
      BY <1>0, <2>1, <2>2 DEF FitCalls, At, Fits
    <3>3. q.op = "edit_comment" \/ q.op = "my_comment"
      BY <2>1 DEF At
    <3> HIDE DEF old, mine, q
    <3> QED  BY <3>1, <3>2, <3>3 DEF Comment
  <2> HIDE DEF row
  <2> QED  BY <1>0, <1>1, <2>1, <2>2
<1> QED  BY <1>2, <1>3, <1>4, TablesKept DEF Step, Serve, Write, AddPost, FindRecord, StoreThumb, StoreContent,
                                             StoreImage, tables

\* A comment that was stored is there.
LEMMA InsertedFits ==
    ASSUME TypeOK, NEW r \in Req, Step(r), faults' = 0, Ready(r)', req'[r].query.op = "insert_comment",
           req'[r].status = 200
    PROVE  \/ /\ Ready(r) /\ req[r].status = 200
              /\ req'[r].number = req[r].number
           \/ FitsNext(req'[r].number, req'[r].query.post)
<1>1. CASE req'[r].pc # "done"
  BY <1>1, KeepsAnswer DEF Ready
<1>2. CASE req'[r].pc = "done"
  <2>1. req'[r].query = req[r].query
    BY <1>2, OthersStay
  <2>2. faults' # faults + 1
    BY DEF TypeOK
  <2>3. ~AddPost(r)
    BY <2>1 DEF AddPost, At
  <2>4. InsertComment(r) /\ req'[r].number = Len(comments) + 1
    BY <1>2, <2>1, <2>2, <2>3, InsertAnswers DEF Inserts
  <2>5. comments \in Seq(Comment)
    BY DEF TypeOK
  <2>6. PICK row : comments' = Append(comments, row) /\ row.post = req[r].query.post
    BY <2>4 DEF InsertComment
  <2> QED  BY <2>1, <2>4, <2>5, <2>6 DEF FitsNext
<1> QED  BY <1>1, <1>2

\* What the server does keeps all this.
LEMMA CommentStep ==
    ASSUME TypeOK, SeenInv, CommentInv, NEW r \in Req, Step(r), tab' = tab
    PROVE  CommentInv'
<1>1. ASSUME faults' = 0 PROVE faults = 0
  BY <1>1, FaultsGrow
<1>2. ASSUME faults' = 0, NEW id, NEW post, Fits(id, post) PROVE FitsNext(id, post)
  BY <1>1, <1>2, CommentsStay DEF Fits, FitsNext, CommentInv
<1>3. UnderOwn'
  BY DEF CommentInv, UnderOwn
<1>4. FitPages'
  BY <1>1, <1>2 DEF CommentInv, FitPages, Fits, FitsNext
<1>5. \A x \in Req \ {r} : req'[x] = req[x]
  BY OthersStay
<1>6. /\ req'[r].query = req[r].query /\ req[r].pc # "free" /\ req'[r].pc # "free"
  BY StepMoves DEF Moves, TypeOK
<1>7. \A p : \A row \in Rows(p) : Fits(row.id, row.post) /\ row.post = p
  BY DEF Rows, CommentIds, Fits
<1>8. OwnRows'
  <2>1. req[r].query.op = "get_comments" => \A row \in req'[r].rows : row.post = req[r].query.id
    BY <1>6, <1>7, RowsCome DEF CommentInv, OwnRows
  <2> QED  BY <1>5, <1>6, <2>1 DEF CommentInv, OwnRows
<1>9. FitCalls'
  <2> SUFFICES ASSUME faults' = 0, NEW x \in Req, req'[x].pc # "free"
               PROVE  /\ \A row \in req'[x].rows : FitsNext(row.id, row.post)
                      /\ req'[x].query.op = "edit_comment" => FitsNext(req'[x].query.id, req'[x].query.post)
                      /\ At(x, "half", {"edit_comment"})' => req'[x].seen \in {0, req'[x].query.id}
                      /\ Ready(x)' /\ req'[x].query.op = "insert_comment" /\ req'[x].status = 200 =>
                            FitsNext(req'[x].number, req'[x].query.post)
    BY DEF FitCalls, Fits, FitsNext
  <2>0. req[x].pc # "free" /\ req'[x].query = req[x].query
    BY <1>5, <1>6
  <2>1. /\ \A row \in req[x].rows : Fits(row.id, row.post)
        /\ req[x].query.op = "edit_comment" => Fits(req[x].query.id, req[x].query.post)
        /\ At(x, "half", {"edit_comment"}) => req[x].seen \in {0, req[x].query.id}
        /\ Ready(x) /\ req[x].query.op = "insert_comment" /\ req[x].status = 200 => Fits(req[x].number, req[x].query.post)
    BY <1>1, <2>0 DEF CommentInv, FitCalls
  <2>2. \A row \in req'[x].rows : FitsNext(row.id, row.post)
    <3>1. \A row \in req'[x].rows : Fits(row.id, row.post)
      <4>1. CASE x = r
        BY <1>7, <2>1, <4>1, RowsCome
      <4>2. CASE x # r
        BY <1>5, <2>1, <4>2
      <4> QED  BY <4>1, <4>2
    <3> QED  BY <1>2, <3>1
  <2>3. req'[x].query.op = "edit_comment" => FitsNext(req'[x].query.id, req'[x].query.post)
    BY <1>2, <2>0, <2>1
  <2>4. ASSUME At(x, "half", {"edit_comment"})' PROVE req'[x].seen \in {0, req'[x].query.id}
    <3>1. CASE x # r
      BY <1>5, <2>1, <2>4, <3>1 DEF At
    <3>2. CASE x = r
      <4>1. Serve(r)
        BY <2>4, <3>2, ConnectMoves, ReleaseMoves, HalfDone DEF At
      <4> DEFINE S == {i \in DOMAIN comments : i = req[r].query.id}
      <4>2. req'[r].seen = FirstRow(S)
        BY <1>6, <2>4, <3>2, <4>1, Found DEF At
      <4>3. S = {} \/ S = {req[r].query.id}
        OBVIOUS
      <4>4. FirstRow(S) = 0 \/ FirstRow(S) \in S
        <5>1. S \subseteq Nat
          BY DEF TypeOK
        <5> HIDE DEF S
        <5> QED  BY <5>1, FirstMatches DEF FirstRow
      <4> HIDE DEF S
      <4> QED  BY <1>6, <3>2, <4>2, <4>3, <4>4
    <3> QED  BY <3>1, <3>2
  <2>5. ASSUME Ready(x)', req'[x].query.op = "insert_comment", req'[x].status = 200
        PROVE  FitsNext(req'[x].number, req'[x].query.post)
    <3>1. CASE x # r
      BY <1>2, <1>5, <2>1, <2>5, <3>1 DEF Ready
    <3>2. CASE x = r
      BY <1>2, <1>6, <2>1, <2>5, <3>2, InsertedFits
    <3> QED  BY <3>1, <3>2
  <2> QED  BY <2>2, <2>3, <2>4, <2>5
<1> QED  BY <1>3, <1>4, <1>8, <1>9 DEF CommentInv

\* What the calls of pages carry stays so while the pages do something.
LEMMA CallsFit ==
    ASSUME CommentInv, Drives \/ UNCHANGED serverVars,
           \A r \in Req : Goes(r) \/ \E t \in Tab : Aims(t, r)
    PROVE  OwnRows' /\ FitCalls'
<1>1. comments' = comments /\ faults' = faults
  BY DEF Drives, Issued, serverVars, tables
<1>2. ASSUME NEW r \in Req
      PROVE  \/ req'[r] = req[r]
             \/ req'[r].pc = "free"
             \/ req'[r].pc = "sent" /\ req'[r].rows = {}
  <2>1. CASE Drives
    <3>1. CASE req'[r] = req[r] \/ req'[r] = Free
      BY <3>1 DEF Free
    <3>2. CASE \E query \in Query : req'[r] = Sent(query)
      BY <3>2 DEF Sent, NoRows
    <3> QED  BY <2>1, <3>1, <3>2 DEF Drives
  <2>2. CASE UNCHANGED serverVars
    BY <2>2 DEF serverVars
  <2> QED  BY <2>1, <2>2
<1>3. OwnRows'
  BY <1>2 DEF CommentInv, OwnRows
<1>4. ASSUME NEW r \in Req, faults = 0, req'[r].pc = "sent", req'[r].query.op = "edit_comment"
      PROVE  Fits(req'[r].query.id, req'[r].query.post)
  <2>1. CASE Goes(r)
    BY <1>4, <2>1 DEF Goes, CommentInv, FitCalls
  <2>2. ASSUME NEW t \in Tab, Aims(t, r) PROVE Fits(req'[r].query.id, req'[r].query.post)
    <3>1. PICK query \in Query, idx \in Nat :
             /\ AsksAt(t, r, query, idx)
             /\ query.op = "edit_comment" =>
                  \E i \in DOMAIN tab[t].post_list : \E k \in DOMAIN tab[t].post_list[i].comments :
                      /\ query.id = tab[t].post_list[i].comments[k].id
                      /\ query.post = tab[t].post_list[i].comments[k].post
      BY <2>2 DEF Aims
    <3>2. req'[r].query = query
      BY <3>1 DEF AsksAt, Sent
    <3> QED  BY <1>4, <3>1, <3>2 DEF CommentInv, FitPages
  <2> QED  BY <2>1, <2>2
<1>5. FitCalls'
  <2> SUFFICES ASSUME faults' = 0, NEW r \in Req, req'[r].pc # "free"
               PROVE  /\ \A row \in req'[r].rows : Fits(row.id, row.post)
                      /\ req'[r].query.op = "edit_comment" => Fits(req'[r].query.id, req'[r].query.post)
                      /\ At(r, "half", {"edit_comment"})' => req'[r].seen \in {0, req'[r].query.id}
                      /\ Ready(r)' /\ req'[r].query.op = "insert_comment" /\ req'[r].status = 200 =>
                            Fits(req'[r].number, req'[r].query.post)
    BY <1>1 DEF FitCalls, Fits
  <2>1. CASE req'[r] = req[r]
    BY <1>1, <2>1 DEF CommentInv, FitCalls, At, Ready
  <2>2. CASE req'[r].pc = "sent" /\ req'[r].rows = {}
    BY <1>1, <1>4, <2>2 DEF At, Ready
  <2> QED  BY <1>2, <2>1, <2>2
<1> QED  BY <1>3, <1>5

\* Pages that show the same comments under the same posts keep all this.
LEMMA CommentsKept ==
    ASSUME CommentInv, Drives \/ UNCHANGED serverVars, \A u \in Tab : Same(u) /\ SameShown(u)
    PROVE  UnderOwn' /\ FitPages'
<1>1. comments' = comments /\ faults' = faults
  BY DEF Drives, Issued, serverVars, tables
<1>2. ASSUME NEW t \in Tab, NEW i \in DOMAIN tab'[t].post_list, NEW k \in DOMAIN tab'[t].post_list[i].comments
      PROVE  /\ i \in DOMAIN tab[t].post_list /\ k \in DOMAIN tab[t].post_list[i].comments
             /\ tab'[t].added = tab[t].added
             /\ tab'[t].post_list[i].id = tab[t].post_list[i].id
             /\ tab'[t].post_list[i].comments[k].id = tab[t].post_list[i].comments[k].id
             /\ tab'[t].post_list[i].comments[k].post = tab[t].post_list[i].comments[k].post
  <2>1. Same(t) /\ SameShown(t)
    OBVIOUS
  <2>2. i \in DOMAIN tab[t].post_list
    BY <2>1 DEF Same
  <2> QED  BY <2>1, <2>2 DEF Same, SameShown
<1>3. UnderOwn'
  BY <1>2 DEF CommentInv, UnderOwn
<1>4. FitPages'
  BY <1>1, <1>2, SMTT(40) DEF CommentInv, FitPages, Fits
<1> QED  BY <1>3, <1>4

\* So does a page that comes to show no comments.
LEMMA CommentsGone ==
    ASSUME CommentInv, UNCHANGED <<comments, faults>>, NEW t \in Tab, \A u \in Tab \ {t} : tab'[u] = tab[u],
           \A i \in DOMAIN tab'[t].post_list : tab'[t].post_list[i].comments = <<>>
    PROVE  UnderOwn' /\ FitPages'
<1>1. ASSUME NEW u \in Tab, NEW i \in DOMAIN tab'[u].post_list, NEW k \in DOMAIN tab'[u].post_list[i].comments
      PROVE  tab'[u] = tab[u]
  <2>1. CASE u = t
    BY <1>1, <2>1
  <2> QED  BY <2>1
<1>2. UnderOwn'
  BY <1>1 DEF CommentInv, UnderOwn
<1>3. FitPages'
  BY <1>1 DEF CommentInv, FitPages, Fits
<1> QED  BY <1>2, <1>3

\* The entry e that takes the place of p at position i has comments where they belong.
Brings(r, t, i, p, e) ==
    /\ Turns(t, tab[t].state, [tab[t].post_list EXCEPT ![i] = e], tab[t].added) /\ Steady(t) /\ Ends(r)
    /\ i \in DOMAIN tab[t].post_list =>
          /\ e.id = p.id /\ e.thumb = p.thumb
          /\ \A k \in DOMAIN e.comments :
                \/ k \in DOMAIN p.comments /\ e.comments[k] = p.comments[k]
                \/ /\ tab[t].added = 0 => e.comments[k].post = p.id
                   /\ faults = 0 => Fits(e.comments[k].id, e.comments[k].post)

\* The answers that bring comments bring those of the post they are shown under.
LEMMA CommentsCome ==
    ASSUME TypeOK, PagesTyped, AnswersTyped, DriftInv, CommentInv, NEW r \in Req, NEW t \in Tab,
           OnComments(r, t) \/ OnCommentSaved(r, t)
    PROVE  \E e : Brings(r, t, call[r].idx, tab[t].post_list[call[r].idx], e)
<1> DEFINE i == call[r].idx
           p == tab[t].post_list[i]
<1>00. i = call[r].idx /\ p = tab[t].post_list[i]
  OBVIOUS
<1> HIDE DEF i, p
<1> USE <1>00
<1>0. tab[t].post_list \in Seq(Entry) /\ (i \in DOMAIN tab[t].post_list => p \in Entry)
  BY DEF PagesTyped, PageTyped
<1>1. req[r].pc = "answered" /\ req[r].status = 200 /\ call[r] # NoCall /\ call[r].tab = t
  BY DEF OnComments, OnCommentSaved, Answered, At
<1>2. ASSUME i \in DOMAIN tab[t].post_list, tab[t].added = 0 PROVE p.id = Target(req[r].query)
  <2>1. CallOK(r) /\ call[r] \in Closure
    BY <1>1 DEF DriftInv, PagesTyped
  <2>2. i \in Nat /\ i # 0 /\ i + 0 - call[r].added = i
    <3>1. call[r].added <= 0 /\ call[r].added \in Nat /\ i \in Nat
      BY <1>1, <1>2, <2>1 DEF CallOK, Closure
    <3>2. call[r].added = 0 /\ i # 0
      BY <1>0, <1>2, <3>1
    <3> QED  BY <3>1, <3>2
  <2> QED  BY <1>1, <1>2, <2>1, <2>2 DEF CallOK, Aimed
<1>3. CASE OnComments(r, t)
  <2>1. PICK list \in InOrder(req[r].rows) :
           /\ Turns(t, tab[t].state, [tab[t].post_list EXCEPT ![i] = [@ EXCEPT !.comments = list]], tab[t].added)
           /\ Waited(r, t, "get_comments") /\ Steady(t) /\ Ends(r)
    BY <1>3, CommentsMoves
  <2> DEFINE e == [p EXCEPT !.comments = list]
  <2>2. list \in Seq(req[r].rows)
    <3>1. IsFiniteSet(req[r].rows)
      BY <1>1 DEF AnswersTyped
    <3> QED  BY <2>1, <3>1, OrderTyped
  <2>3. ASSUME NEW k \in DOMAIN list
        PROVE  /\ list[k].post = Target(req[r].query)
               /\ faults = 0 => Fits(list[k].id, list[k].post)
    <3>1. list[k] \in req[r].rows
      BY <2>2
    <3> QED  BY <1>1, <2>1, <3>1 DEF CommentInv, OwnRows, FitCalls, Target, Waited
  <2>4. i \in DOMAIN tab[t].post_list => e.id = p.id /\ e.thumb = p.thumb /\ e.comments = list
    BY <1>0 DEF Entry
  <2>5. Turns(t, tab[t].state, [tab[t].post_list EXCEPT ![i] = e], tab[t].added)
    BY <2>1
  <2> HIDE DEF e
  <2>6. ASSUME i \in DOMAIN tab[t].post_list, NEW k \in DOMAIN e.comments
        PROVE  /\ tab[t].added = 0 => e.comments[k].post = p.id
               /\ faults = 0 => Fits(e.comments[k].id, e.comments[k].post)
    BY <1>2, <2>3, <2>4, <2>6
  <2>7. Brings(r, t, i, p, e)
    BY <2>1, <2>4, <2>5, <2>6 DEF Brings
  <2> QED  BY <2>7
<1>4. CASE OnCommentSaved(r, t)
  <2>1. /\ Turns(t, tab[t].state, [tab[t].post_list EXCEPT ![i].comments = Append(@, NewShown(r))], tab[t].added)
        /\ Waited(r, t, "insert_comment") /\ Steady(t) /\ Ends(r)
    BY <1>4, SavedMoves
  <2> DEFINE new == NewShown(r)
             e == [p EXCEPT !.comments = Append(p.comments, new)]
  <2>2. new.id = req[r].number /\ new.post = Target(req[r].query) /\ (faults = 0 => Fits(new.id, new.post))
    BY <1>1, <2>1 DEF NewShown, Target, Waited, CommentInv, FitCalls, Ready
  <2> HIDE DEF new
  <2>3. [tab[t].post_list EXCEPT ![i].comments = Append(@, new)] = [tab[t].post_list EXCEPT ![i] = e]
    BY <1>0 DEF Entry
  <2>4. i \in DOMAIN tab[t].post_list =>
           e.id = p.id /\ e.thumb = p.thumb /\ p.comments \in Seq(Shown) /\ e.comments = Append(p.comments, new)
    BY <1>0 DEF Entry
  <2>5. Turns(t, tab[t].state, [tab[t].post_list EXCEPT ![i] = e], tab[t].added)
    BY <2>1, <2>3 DEF new
  <2> HIDE DEF e
  <2>6. ASSUME i \in DOMAIN tab[t].post_list, NEW k \in DOMAIN e.comments
        PROVE  (k \in DOMAIN p.comments /\ e.comments[k] = p.comments[k]) \/ e.comments[k] = new
    <3>1. p.comments \in Seq(Shown) /\ e.comments = Append(p.comments, new)
      BY <2>4, <2>6
    <3> DEFINE old == p.comments
    <3> HIDE DEF old
    <3>2. ASSUME old \in Seq(Shown), NEW j \in DOMAIN Append(old, new)
          PROVE  (j \in DOMAIN old /\ Append(old, new)[j] = old[j]) \/ Append(old, new)[j] = new
      BY <3>2
    <3> QED  BY <2>6, <3>1, <3>2 DEF old
  <2>7. i \in DOMAIN tab[t].post_list /\ tab[t].added = 0 => new.post = p.id
    BY <1>2, <2>2
  <2>8. ASSUME i \in DOMAIN tab[t].post_list, NEW k \in DOMAIN e.comments
        PROVE  \/ k \in DOMAIN p.comments /\ e.comments[k] = p.comments[k]
               \/ /\ tab[t].added = 0 => e.comments[k].post = p.id
                  /\ faults = 0 => Fits(e.comments[k].id, e.comments[k].post)
    BY <2>2, <2>6, <2>7, <2>8
  <2>9. Steady(t) /\ Ends(r)
    BY <2>1
  <2>10. Brings(r, t, i, p, e)
    BY <2>4, <2>5, <2>8, <2>9 DEF Brings
  <2> QED  BY <2>10
<1> QED  BY <1>3, <1>4

\* Comments that come where they belong are there.
LEMMA CommentsCame ==
    ASSUME TypeOK, PagesTyped, AnswersTyped, DriftInv, CommentInv, NEW r \in Req, NEW t \in Tab,
           OnComments(r, t) \/ OnCommentSaved(r, t)
    PROVE  UnderOwn' /\ FitPages'
<1> DEFINE i == call[r].idx
           p == tab[t].post_list[i]
<1>1. PICK e :
         /\ Turns(t, tab[t].state, [tab[t].post_list EXCEPT ![i] = e], tab[t].added) /\ Steady(t) /\ Ends(r)
         /\ i \in DOMAIN tab[t].post_list =>
               /\ e.id = p.id /\ e.thumb = p.thumb
               /\ \A k \in DOMAIN e.comments :
                     \/ k \in DOMAIN p.comments /\ e.comments[k] = p.comments[k]
                     \/ /\ tab[t].added = 0 => e.comments[k].post = p.id
                        /\ faults = 0 => Fits(e.comments[k].id, e.comments[k].post)
  <2> PICK e : Brings(r, t, i, p, e)
    BY CommentsCome
  <2> QED  BY DEF Brings
<1>2. comments' = comments /\ faults' = faults
  BY <1>1 DEF Ends, Issued, tables
<1>3. /\ DOMAIN tab'[t].post_list = DOMAIN tab[t].post_list /\ tab'[t].added = tab[t].added
      /\ \A j \in DOMAIN tab[t].post_list : tab'[t].post_list[j] = IF j = i THEN e ELSE tab[t].post_list[j]
      /\ \A u \in Tab \ {t} : tab'[u] = tab[u]
  BY <1>1 DEF Turns
<1> HIDE DEF i
<1>4. UnderOwn'
  <2> SUFFICES ASSUME NEW u \in Tab, tab'[u].added = 0, NEW j \in DOMAIN tab'[u].post_list,
                      NEW k \in DOMAIN tab'[u].post_list[j].comments
               PROVE  tab'[u].post_list[j].comments[k].post = tab'[u].post_list[j].id
    BY DEF UnderOwn
  <2>1. CASE u = t /\ j = i
    BY <1>1, <1>3, <2>1 DEF CommentInv, UnderOwn
  <2>2. CASE u = t /\ j # i
    BY <1>3, <2>2 DEF CommentInv, UnderOwn
  <2>3. CASE u # t
    BY <1>3, <2>3 DEF CommentInv, UnderOwn
  <2> QED  BY <2>1, <2>2, <2>3
<1>5. FitPages'
  <2> SUFFICES ASSUME faults' = 0, NEW u \in Tab, NEW j \in DOMAIN tab'[u].post_list,
                      NEW k \in DOMAIN tab'[u].post_list[j].comments
               PROVE  Fits(tab'[u].post_list[j].comments[k].id, tab'[u].post_list[j].comments[k].post)
    BY <1>2 DEF FitPages, Fits
  <2>1. CASE u = t /\ j = i
    BY <1>1, <1>2, <1>3, <2>1 DEF CommentInv, FitPages
  <2>2. CASE u = t /\ j # i
    BY <1>2, <1>3, <2>2 DEF CommentInv, FitPages
  <2>3. CASE u # t
    BY <1>2, <1>3, <2>3 DEF CommentInv, FitPages
  <2> QED  BY <2>1, <2>2, <2>3
<1> QED  BY <1>4, <1>5

\* What the pages ask is kept, comes from what they show, or is the count after a vote.
LEMMA PagesGo ==
    ASSUME TypeOK, PagesTyped,
           (\E t \in Tab : UserStep(t)) \/ (\E r \in Req : Ignore(r)) \/ (\E r \in Req, t \in Tab : Callback(r, t))
    PROVE  \A x \in Req : Goes(x) \/ \E t \in Tab : Aims(t, x)
<1>1. ASSUME NEW r \in Req, Ends(r) PROVE \A x \in Req : Goes(x)
  BY <1>1 DEF Ends, Goes, Free
<1>2. CASE \E t \in Tab : UserStep(t)
  <2>1. PICK t \in Tab : UserStep(t)
    BY <1>2
  <2>2. CASE Leave(t)
    BY <2>2 DEF Leave, serverVars, Goes
  <2>3. CASE ~Leave(t)
    BY <2>1, <2>3, UserAims DEF Kept
  <2> QED  BY <2>2, <2>3
<1>3. CASE \E r \in Req : Ignore(r)
  BY <1>1, <1>3, IgnoreMoves
<1>4. CASE \E r \in Req, t \in Tab : Callback(r, t)
  <2>1. PICK r \in Req, t \in Tab : Callback(r, t)
    BY <1>4
  <2>2. CASE OnThumbSet(r, t)
    <3>1. \A x \in Req : Kept(x) \/ call'[x] = NoCall
      <4>1. ~OnPostList(r, t) /\ ~OnPostAdded(r, t)
        BY <2>2 DEF OnThumbSet, OnPostList, OnPostAdded, Answered, At
      <4> QED  BY <2>1, <4>1, CallbackKeeps
    <3>2. call' = call /\ call[r] # NoCall /\ \A x \in Req \ {r} : req'[x] = req[x]
      BY <2>2, ThumbSetMoves DEF Waited
    <3>3. Goes(r)
      BY <3>1, <3>2 DEF Kept
    <3> QED  BY <3>2, <3>3 DEF Goes
  <2>3. CASE ~OnThumbSet(r, t)
    <3>1. EndCall(r)
      BY <2>1, <2>3 DEF Callback, OnLoggedIn, OnPostList, OnPostAdded, OnCount, OnComments, OnCommentSaved
    <3> QED  BY <1>1, <3>1, EndMoves
  <2> QED  BY <2>2, <2>3
<1> QED  BY <1>2, <1>3, <1>4

\* These callbacks change neither comments nor votes on screen.
LEMMA QuietCallbacks ==
    ASSUME TypeOK, PagesTyped, NEW r \in Req, NEW t \in Tab, OnLoggedIn(r, t) \/ OnThumbSet(r, t) \/ OnCount(r, t)
    PROVE  \A u \in Tab : SameShown(u) /\ SameThumbs(u)
<1>1. CASE OnLoggedIn(r, t)
  <2>1. Turns(t, tab[t].state, tab[t].post_list, tab[t].added) /\ Steady(t)
    BY <1>1, LoggedInMoves
  <2> QED  BY <2>1, ListSame DEF Steady, Races
<1>2. CASE OnThumbSet(r, t)
  <2>1. tab' = tab
    BY <1>2, ThumbSetMoves
  <2> QED  BY <2>1 DEF SameShown, SameThumbs, Races
<1>3. CASE OnCount(r, t)
  <2> DEFINE i == call[r].idx
             p == tab[t].post_list[i]
             e == [p EXCEPT !.count = req[r].number]
  <2>1. Turns(t, tab[t].state, [tab[t].post_list EXCEPT ![i] = e], tab[t].added) /\ Steady(t)
    <3>1. i = call[r].idx
      OBVIOUS
    <3> HIDE DEF i
    <3> QED  BY <1>3, <3>1, CountMoves
  <2>2. i \in DOMAIN tab[t].post_list => e.thumb = p.thumb /\ e.comments = p.comments
    <3>1. tab[t].post_list \in Seq(Entry) /\ (i \in DOMAIN tab[t].post_list => p \in Entry)
      BY DEF PagesTyped, PageTyped
    <3> HIDE DEF i, p
    <3> QED  BY <3>1 DEF Entry
  <2> HIDE DEF e, i
  <2> QED  BY <2>1, <2>2, EntryShown, EntryThumbs
<1> QED  BY <1>1, <1>2, <1>3

LEMMA CommentsStep ==
    ASSUME PagesInv, CommentInv, BrowserNext
    PROVE  CommentInv'
<1>1. TypeOK /\ TypeOK' /\ SeenInv /\ PagesTyped /\ PagesTyped' /\ AnswersTyped /\ DriftInv
  BY DrivenStays DEF PagesInv, DrivenInv, ServerInv, UpsertInv
<1>2. CASE \E r \in Req : ServerStep(r)
  <2>1. PICK r \in Req : Step(r) /\ UNCHANGED browserVars
    BY <1>2 DEF ServerStep, Step
  <2> QED  BY <1>1, <2>1, CommentStep DEF browserVars
<1>3. CASE ~\E r \in Req : ServerStep(r)
  <2>1. (\E t \in Tab : UserStep(t)) \/ (\E r \in Req : Ignore(r)) \/ (\E r \in Req, t \in Tab : Callback(r, t))
    BY <1>3 DEF BrowserNext
  <2>2. Drives \/ UNCHANGED serverVars
    BY <1>1, <2>1, UserDrives, IgnoreDrives, CallbackDrives
  <2>3. OwnRows' /\ FitCalls'
    BY <1>1, <2>1, <2>2, PagesGo, CallsFit
  <2>4. (\A u \in Tab : Same(u) /\ SameShown(u)) => CommentInv'
    BY <2>2, <2>3, CommentsKept DEF CommentInv
  <2>5. UNCHANGED <<comments, faults>>
    BY <2>2 DEF Drives, Issued, serverVars, tables
  <2>6. CASE \E t \in Tab : UserStep(t)
    <3>1. PICK t \in Tab : UserStep(t)
      BY <2>6
    <3>2. CASE Leave(t)
      <4>1. Turns(t, "new", <<>>, 0)
        BY <1>1, <3>2, LeaveMoves
      <4>2. (\A u \in Tab \ {t} : tab'[u] = tab[u]) /\ tab'[t].post_list = <<>>
        BY <4>1 DEF Turns
      <4> QED  BY <2>3, <2>5, <4>2, CommentsGone DEF CommentInv
    <3>3. CASE ~Leave(t)
      BY <1>1, <2>4, <3>1, <3>3, UserAims
    <3> QED  BY <3>2, <3>3
  <2>7. CASE \E r \in Req : Ignore(r)
    <3>1. tab' = tab
      BY <1>1, <2>7, IgnoreMoves
    <3> QED  BY <2>4, <3>1 DEF Same, SameShown
  <2>8. CASE \E r \in Req, t \in Tab : Callback(r, t)
    <3>1. PICK r \in Req, t \in Tab : Callback(r, t)
      BY <2>8
    <3>2. CASE OnPostList(r, t)
      <4>1. PICK list \in InOrder(Near(t, req[r].cards)) :
               Turns(t, "loaded", Entries(list), tab[t].added) /\ Waited(r, t, "get_post_list")
        BY <1>1, <3>2, ListMoves
      <4>2. \A i \in DOMAIN Entries(list) : Entries(list)[i].comments = <<>>
        BY DEF Entries
      <4> QED  BY <2>3, <2>5, <4>1, <4>2, CommentsGone DEF CommentInv, Turns
    <3>3. CASE OnPostAdded(r, t)
      <4> DEFINE old == tab[t].post_list
                 new == WithPost(req[r].number, old)
      <4>1. Turns(t, tab[t].state, new, tab[t].added + 1) /\ Waited(r, t, "add_post")
        BY <1>1, <3>3, AddedMoves
      <4>2. \A i \in DOMAIN new : new[i].comments = <<>>
        <5>1. req[r].number \in Nat /\ old \in Seq(Entry)
          BY <1>1, <4>1 DEF AnswersTyped, Waited, Inserts, PagesTyped, PageTyped
        <5> HIDE DEF old, new
        <5>2. /\ DOMAIN new = 1..(Len(old) + 1)
              /\ \A i \in 1..(Len(old) + 1) : new[i].comments = <<>>
          BY <5>1, AddedTyped DEF new
        <5> QED  BY <5>2
      <4> HIDE DEF new
      <4>3. (\A u \in Tab \ {t} : tab'[u] = tab[u]) /\ tab'[t].post_list = new
        BY <4>1 DEF Turns
      <4> QED  BY <2>3, <2>5, <4>2, <4>3, CommentsGone DEF CommentInv
    <3>4. CASE OnComments(r, t) \/ OnCommentSaved(r, t)
      BY <1>1, <2>3, <3>4, CommentsCame DEF CommentInv
    <3>5. CASE OnLoggedIn(r, t) \/ OnThumbSet(r, t) \/ OnCount(r, t)
      <4>1. ~OnPostList(r, t) /\ ~OnPostAdded(r, t)
        BY <3>5 DEF OnLoggedIn, OnThumbSet, OnCount, OnPostList, OnPostAdded, Answered, At
      <4> QED  BY <1>1, <2>4, <3>1, <3>5, <4>1, CallbackKeeps, QuietCallbacks
    <3> QED  BY <3>1, <3>2, <3>3, <3>4, <3>5 DEF Callback
  <2> QED  BY <2>1, <2>6, <2>7, <2>8
<1> QED  BY <1>2, <1>3

LEMMA CommentsStart == BrowserInit => CommentInv
<1> SUFFICES ASSUME BrowserInit PROVE CommentInv
  OBVIOUS
<1>1. /\ \A r \in Req : req[r].pc = "free"
      /\ \A t \in Tab : tab[t].post_list = <<>>
  BY DEF BrowserInit, Init, Free, NewPage
<1> QED  BY <1>1 DEF CommentInv, OwnRows, UnderOwn, FitPages, FitCalls

LEMMA CommentsStayFit == PagesInv /\ CommentInv /\ [BrowserNext]_vars => CommentInv'
<1>1. ASSUME CommentInv, UNCHANGED vars PROVE CommentInv'
  <2>1. tab' = tab /\ req' = req /\ comments' = comments /\ faults' = faults
    BY <1>1 DEF vars, serverVars, browserVars, tables
  <2> QED  BY <1>1, <2>1, SMTT(40) DEF CommentInv, OwnRows, UnderOwn, FitPages, FitCalls, Fits, At, Ready
<1> QED  BY <1>1, CommentsStep

\* As long as no post was added to the page, the comments shown under a post are comments
\* on that post; and rows of the table, as long as no database error hit.
THEOREM CommentsAreUnderTheirPost == BrowserSpec => []CommentsUnderOwnPost
  BY CommentsStart, CommentsStayFit, CommentsEnough, PagesStart, PagesStay, PTL DEF BrowserSpec

-----------------------------------------------------------------------------
(* The votes that pages show. *)

Viewer(t) == SessionUser[TabSession[t]]

\* A vote that a session sent and the server has not stored yet.
Pending(r, s) == req[r].pc \in {"sent", "begun", "half"} /\ req[r].query.op = "set_thumb" /\ req[r].query.sess = s
Votes(r, t, p) == Pending(r, TabSession[t]) /\ req[r].query.id = p

\* Pages call in the session of their browser.
OwnCalls == \A r \in Req : call[r] # NoCall => req[r].query.sess = TabSession[call[r].tab]

\* Posts are shown to users, and only users add them.
KnownInv ==
    /\ \A r \in Req : Added(r) \/ (req[r].pc # "free" /\ req[r].cards # NoCards) => LoggedIn(r)
    /\ \A t \in Tab : tab[t].post_list # <<>> => Viewer(t) \in User

\* While no database error hit, votes are on posts.
VotedInv ==
    faults = 0 =>
        /\ \A r \in Req : req[r].pc # "free" /\ req[r].query.op = "set_thumb" => req[r].query.id \in DOMAIN posts
        /\ \A i \in DOMAIN thumbs : thumbs[i].post \in DOMAIN posts

\* What a page shows that nothing disturbed: its list comes with the votes that the table has
\* until it is there; then a vote on its way is the one on screen, and otherwise the table has
\* that one; and on a post that is to be added there is no vote.
Calm(t) == OneSessionEach /\ OnlyPage(t) /\ ~tab[t].raced /\ ~tab[t].early /\ faults = 0

QuietLoading(t) ==
    tab[t].state = "loading" =>
        /\ \A r \in Req : ~Pending(r, TabSession[t])
        /\ \A r \in Req : call[r] # NoCall /\ call[r].tab = t /\ req[r].query.op = "get_post_list" /\ Ready(r) =>
              \A k \in DOMAIN req[r].cards : req[r].cards[k].thumb = ThumbOf(req[r].cards[k].id, Viewer(t))

QuietEntry(t, id, thumb) ==
    /\ \A r1, r2 \in Req : Votes(r1, t, id) /\ Votes(r2, t, id) => r1 = r2
    /\ \A r \in Req : Votes(r, t, id) => Look(req[r].query.val) = Look(thumb)
    /\ (\A r \in Req : ~Votes(r, t, id)) => Look(thumb) = Look(ThumbOf(id, Viewer(t)))

QuietLoaded(t) ==
    tab[t].state = "loaded" =>
        \A i \in DOMAIN tab[t].post_list : QuietEntry(t, tab[t].post_list[i].id, tab[t].post_list[i].thumb)

QuietAdded(t) ==
    \A r \in Req : Added(r) /\ call[r] # NoCall /\ call[r].tab = t =>
        /\ \A x \in Req : ~Votes(x, t, req[r].number)
        /\ ThumbRows(req[r].number, Viewer(t)) = {}

Quiet(t) == Calm(t) => QuietLoading(t) /\ QuietLoaded(t) /\ QuietAdded(t)

VoteInv == OwnCalls /\ KnownInv /\ VotedInv /\ \A t \in Tab : Quiet(t)

LEMMA VotesEnough == VoteInv => VotesAgree
<1> SUFFICES ASSUME VoteInv, OneSessionEach, NEW t \in Tab, OnlyPage(t), tab[t].state = "loaded",
                    ~tab[t].raced, ~tab[t].early, faults = 0, NEW i \in DOMAIN tab[t].post_list,
                    ~Racing(t, {tab[t].post_list[i].id})
             PROVE  Look(tab[t].post_list[i].thumb)
                      = Look(ThumbOf(tab[t].post_list[i].id, SessionUser[TabSession[t]]))
  BY DEF VotesAgree
<1>1. QuietEntry(t, tab[t].post_list[i].id, tab[t].post_list[i].thumb)
  BY DEF VoteInv, Quiet, Calm, QuietLoaded
<1>2. \A r \in Req : ~Votes(r, t, tab[t].post_list[i].id)
  BY DEF Racing, Unstored, Votes, Pending
<1> QED  BY <1>1, <1>2 DEF QuietEntry, Viewer

LEMMA OwnCallsStep ==
    ASSUME PagesInv, PagesInv', OwnCalls, BrowserNext
    PROVE  OwnCalls'
<1>1. TypeOK /\ PagesTyped /\ DriftInv'
  BY DEF PagesInv, DrivenInv, ServerInv
<1>2. CASE \E r \in Req : ServerStep(r)
  <2>1. PICK r \in Req : Step(r) /\ UNCHANGED browserVars
    BY <1>2 DEF ServerStep, Step
  <2>2. \A x \in Req : req'[x].query = req[x].query
    <3>1. req'[r].query = req[r].query
      BY <1>1, <2>1, StepMoves DEF Moves, TypeOK
    <3> QED  BY <1>1, <2>1, <3>1, OthersStay
  <2> QED  BY <2>1, <2>2 DEF OwnCalls, browserVars
<1>3. CASE ~\E r \in Req : ServerStep(r)
  <2>1. (\E t \in Tab : UserStep(t)) \/ (\E r \in Req : Ignore(r)) \/ (\E r \in Req, t \in Tab : Callback(r, t))
    BY <1>3 DEF BrowserNext
  <2> SUFFICES ASSUME NEW x \in Req, call'[x] # NoCall
               PROVE  req'[x].query.sess = TabSession[call'[x].tab]
    BY DEF OwnCalls
  <2>2. req'[x].pc # "free"
    BY <1>1 DEF DriftInv, CallOK
  <2>3. ASSUME NEW t \in Tab, Aims(t, x) PROVE req'[x].query.sess = TabSession[call'[x].tab]
    BY <2>3 DEF Aims, AsksAt, Sent
  <2>4. call'[x] = call[x] \/ \E t \in Tab : Aims(t, x)
    <3>1. ASSUME NEW t \in Tab, Leave(t) PROVE call'[x] = call[x]
      BY <1>1, <3>1, LeaveMoves
    <3>2. ASSUME NEW t \in Tab, UserStep(t), ~Leave(t) PROVE call'[x] = call[x] \/ Aims(t, x)
      BY <1>1, <3>2, UserAims DEF Kept
    <3>3. ASSUME NEW r \in Req, Ends(r) PROVE call'[x] = call[x]
      BY <3>3 DEF Ends
    <3>4. ASSUME NEW r \in Req, NEW t \in Tab, OnThumbSet(r, t) PROVE call'[x] = call[x]
      BY <1>1, <3>4, ThumbSetMoves
    <3>5. ASSUME NEW r \in Req, NEW t \in Tab, Callback(r, t), ~OnThumbSet(r, t) PROVE EndCall(r)
      BY <3>5 DEF Callback, OnLoggedIn, OnPostList, OnPostAdded, OnCount, OnComments, OnCommentSaved
    <3> QED  BY <1>1, <2>1, <3>1, <3>2, <3>3, <3>4, <3>5, EndMoves, IgnoreMoves
  <2>5. Goes(x) \/ \E t \in Tab : Aims(t, x)
    BY <1>1, <2>1, PagesGo
  <2>6. ASSUME Goes(x), call'[x] = call[x] PROVE req'[x].query.sess = TabSession[call'[x].tab]
    BY <2>2, <2>6 DEF Goes, OwnCalls
  <2> QED  BY <2>3, <2>4, <2>5, <2>6
<1> QED  BY <1>2, <1>3

\* What the server answers to those it does not know.
LEMMA KnownStep ==
    ASSUME TypeOK, SeenInv, KnownInv, NEW r \in Req, Step(r), NEW x \in Req,
           Added(x)' \/ (req'[x].pc # "free" /\ req'[x].cards # NoCards)
    PROVE  LoggedIn(x)'
<1>0. /\ req'[r].query = req[r].query /\ req[r].pc # "free"
      /\ \A y \in Req \ {r} : req'[y] = req[y]
  BY StepMoves, OthersStay DEF Moves, TypeOK
<1>1. ASSUME LoggedIn(x) PROVE LoggedIn(x)'
  BY <1>0, <1>1 DEF LoggedIn, UserOf
<1>2. CASE x # r
  BY <1>0, <1>1, <1>2 DEF KnownInv, Added, Ready
<1>3. CASE x = r /\ req'[r].pc # "done"
  <2>1. /\ req'[r].cards = req[r].cards /\ req'[r].status = req[r].status
        /\ req'[r].pc = "answered" => req[r].pc = "done"
    BY <1>3, KeepsAnswer
  <2> QED  BY <1>0, <1>1, <1>3, <2>1 DEF KnownInv, Added, Ready
<1>4. CASE x = r /\ req'[r].pc = "done" /\ Added(r)'
  <2>1. req[r].query.op = "add_post" /\ req'[r].status = 200
    BY <1>0, <1>4 DEF Added
  <2>2. ~InsertComment(r)
    BY <2>1 DEF InsertComment, At
  <2>3. req[r].query.op \in Inserts
    BY <2>1 DEF Inserts
  <2>4. LoggedIn(r) \/ AddPost(r)
    BY <1>4, <2>1, <2>2, <2>3, InsertAnswers
  <2>5. LoggedIn(r)
    BY <2>4 DEF AddPost
  <2> QED  BY <1>1, <1>4, <2>5
<1>5. CASE x = r /\ req'[r].pc = "done" /\ req'[r].cards # NoCards
  <2>1. SelectThumbs(r)
    BY <1>5, OnlyListsCards
  <2>2. At(r, "half", Lists)
    BY <2>1 DEF SelectThumbs
  <2> QED  BY <1>1, <1>5, <2>2 DEF SeenInv, StillThere, At
<1> QED  BY <1>2, <1>3, <1>4, <1>5

\* A page that comes to show posts shows them to a user.
LEMMA KnownPages ==
    ASSUME PagesInv, PagesInv', OwnCalls, KnownInv, BrowserNext, NEW u \in Tab, tab'[u].post_list # <<>>
    PROVE  Viewer(u) \in User
<1>1. TypeOK /\ PagesTyped /\ PagesTyped' /\ AnswersTyped
  BY DEF PagesInv, DrivenInv, ServerInv
<1>2. CASE Same(u) \/ tab'[u] = tab[u]
  <2>1. tab[u].post_list \in Seq(Entry) /\ tab'[u].post_list \in Seq(Entry)
    BY <1>1 DEF PagesTyped, PageTyped
  <2>2. tab[u].post_list # <<>>
    BY <1>2, <2>1 DEF Same
  <2> QED  BY <2>2 DEF KnownInv
<1>3. ASSUME NEW r \in Req, call[r] # NoCall, call[r].tab = u, LoggedIn(r) PROVE Viewer(u) \in User
  BY <1>3 DEF OwnCalls, LoggedIn, UserOf, Viewer
<1>4. CASE \E t \in Tab : UserStep(t)
  <2>1. PICK t \in Tab : UserStep(t)
    BY <1>4
  <2>2. CASE Leave(t)
    <3>1. Turns(t, "new", <<>>, 0)
      BY <1>1, <2>2, LeaveMoves
    <3> QED  BY <1>2, <3>1 DEF Turns
  <2>3. CASE ~Leave(t)
    BY <1>1, <1>2, <2>1, <2>3, UserAims
  <2> QED  BY <2>2, <2>3
<1>5. CASE \E r \in Req : ServerStep(r) \/ Ignore(r)
  BY <1>2, <1>5 DEF ServerStep, Ignore, browserVars
<1>6. CASE \E r \in Req, t \in Tab : Callback(r, t)
  <2>1. PICK r \in Req, t \in Tab : Callback(r, t)
    BY <1>6
  <2>2. CASE OnPostList(r, t)
    <3>1. PICK list \in InOrder(Near(t, req[r].cards)) :
             Turns(t, "loaded", Entries(list), tab[t].added) /\ Waited(r, t, "get_post_list")
      BY <1>1, <2>2, ListMoves
    <3>2. CASE u # t
      BY <1>2, <3>1, <3>2 DEF Turns
    <3>3. CASE u = t
      <4>1. /\ req[r] \in Request /\ req[r].cards \in Seq(Card) /\ req[r].pc # "free"
            /\ call[r] # NoCall /\ call[r].tab = t
        BY <1>1, <3>1, InRequest DEF Waited, Request
      <4>2. list \in Seq(Card) /\ list \in Seq(Near(t, req[r].cards))
        BY <4>1, NearFinite, OrderTyped
      <4>3. DOMAIN Entries(list) # {}
        <5>1. Entries(list) # <<>> /\ Entries(list) \in Seq(Entry)
          BY <3>1, <3>3, <4>2, EntriesTyped DEF Turns
        <5> DEFINE e == Entries(list)
        <5> HIDE DEF e
        <5>2. e \in Seq(Entry) => DOMAIN e = 1..Len(e) /\ Len(e) \in Nat /\ (Len(e) = 0 => e = <<>>)
          OBVIOUS
        <5>3. e \in Seq(Entry) /\ e # <<>> => 1 \in DOMAIN e
          BY <5>2
        <5> QED  BY <5>1, <5>3 DEF e
      <4>4. \E k \in DOMAIN list : list[k] \in Near(t, req[r].cards)
        BY <4>2, <4>3, EntriesTyped
      <4>5. req[r].cards # NoCards
        BY <4>4 DEF Near, NoCards
      <4> QED  BY <1>3, <3>3, <4>1, <4>5 DEF KnownInv
    <3> QED  BY <3>2, <3>3
  <2>3. CASE OnPostAdded(r, t)
    <3>1. /\ Turns(t, tab[t].state, WithPost(req[r].number, tab[t].post_list), tab[t].added + 1)
          /\ Waited(r, t, "add_post")
      BY <1>1, <2>3, AddedMoves
    <3>2. CASE u # t
      BY <1>2, <3>1, <3>2 DEF Turns
    <3>3. CASE u = t
      BY <1>3, <3>1, <3>3 DEF KnownInv, Added, Ready, Waited
    <3> QED  BY <3>2, <3>3
  <2>4. CASE ~OnPostList(r, t) /\ ~OnPostAdded(r, t)
    BY <1>1, <1>2, <2>1, <2>4, CallbackKeeps
  <2> QED  BY <2>2, <2>3, <2>4
<1> QED  BY <1>4, <1>5, <1>6 DEF BrowserNext

\* The pages find the user known when the server did.
LEMMA KnownKept ==
    ASSUME KnownInv, Drives \/ UNCHANGED serverVars, NEW x \in Req,
           Added(x)' \/ (req'[x].pc # "free" /\ req'[x].cards # NoCards)
    PROVE  LoggedIn(x)'
<1>1. req'[x].pc # "free"
  BY DEF Added, Ready
<1>2. ASSUME NEW query \in Query, req'[x] = Sent(query) PROVE FALSE
  BY <1>2 DEF Sent, Added, Ready
<1>3. req'[x] = Free \/ req'[x] = req[x]
  <2>1. CASE Drives
    BY <1>2, <2>1 DEF Drives
  <2>2. CASE UNCHANGED serverVars
    BY <2>2 DEF serverVars
  <2> QED  BY <2>1, <2>2
<1>4. req'[x] = req[x]
  BY <1>1, <1>3 DEF Free
<1> QED  BY <1>4 DEF KnownInv, Added, Ready, LoggedIn, UserOf

\* A vote that is stored was one for a post, and posts stay.
LEMMA VotedStep ==
    ASSUME TypeOK, SeenInv, VotedInv, NEW r \in Req, Step(r)
    PROVE  VotedInv'
<1> SUFFICES ASSUME faults' = 0
             PROVE  /\ \A x \in Req : req'[x].pc # "free" /\ req'[x].query.op = "set_thumb" => req'[x].query.id \in DOMAIN posts'
                    /\ \A i \in DOMAIN thumbs' : thumbs'[i].post \in DOMAIN posts'
  BY DEF VotedInv
<1>1. faults = 0 /\ DOMAIN posts \subseteq DOMAIN posts'
  BY FaultsGrow, DomainsGrow
<1>2. ASSUME NEW x \in Req, req'[x].pc # "free" PROVE req'[x].query = req[x].query /\ req[x].pc # "free"
  BY <1>2, OthersStay
<1>3. /\ \A x \in Req : req[x].pc # "free" /\ req[x].query.op = "set_thumb" => req[x].query.id \in DOMAIN posts
      /\ \A i \in DOMAIN thumbs : thumbs[i].post \in DOMAIN posts
  BY <1>1 DEF VotedInv
<1>4. ASSUME NEW i \in DOMAIN thumbs' PROVE thumbs'[i].post \in DOMAIN posts'
  <2>1. CASE DOMAIN thumbs' = DOMAIN thumbs /\ RowsKept
    BY <1>1, <1>3, <2>1 DEF RowsKept
  <2>2. CASE /\ At(r, "half", {"set_thumb"})
             /\ thumbs' = Append(thumbs, [post |-> req[r].query.id, user |-> UserOf(r), state |-> req[r].query.val])
    <3>1. req[r].query.id \in DOMAIN posts
      BY <1>3, <2>2 DEF At
    <3>2. i \in DOMAIN thumbs \/ thumbs'[i].post = req[r].query.id
      BY <2>2 DEF TypeOK
    <3>3. i \in DOMAIN thumbs => thumbs'[i] = thumbs[i]
      BY <2>2 DEF TypeOK
    <3> QED  BY <1>1, <1>3, <3>1, <3>2, <3>3
  <2> QED  BY <2>1, <2>2, ThumbsChange
<1> QED  BY <1>1, <1>2, <1>3, <1>4

\* A vote on its way is stored in the end: nothing else takes it off its way.
LEMMA PendingStep ==
    ASSUME TypeOK, VotedInv, NEW r \in Req, Step(r), faults' = 0, NEW s
    PROVE  /\ \A x \in Req : Pending(x, s)' => Pending(x, s)
           /\ \A x \in Req : req'[x].query = req[x].query
           /\ \A x \in Req : Pending(x, s) /\ ~Pending(x, s)' => x = r /\ (StoreThumb(r) \/ ~LoggedIn(r))
           /\ StoreThumb(r) => ~Pending(r, s)'
<1>1. Moves(r, {"sent", "begun", "half", "done"}, {"begun", "half", "done", "answered"})
  BY StepMoves
<1>2. /\ \A x \in Req \ {r} : req'[x] = req[x]
      /\ req'[r].query = req[r].query
      /\ req[r].pc \in {"sent", "begun", "half", "done"} /\ req'[r].pc \in {"begun", "half", "done", "answered"}
  BY <1>1, OthersStay DEF Moves, TypeOK
<1>3. faults = 0 /\ ~Raise(r) /\ ~LoseCommit(r)
  BY FaultsGrow
<1>4. ASSUME req[r].query.op = "set_thumb", req'[r].pc \in {"done", "answered"}, req[r].pc # "done"
      PROVE  StoreThumb(r) \/ ~LoggedIn(r)
  <2>1. ~Connect(r) /\ ~Release(r)
    BY <1>4, ConnectMoves, ReleaseMoves DEF Moves, TypeOK
  <2>2. Serve(r)
    BY <1>3, <2>1 DEF Step
  <2>3. CASE Refuse(r)
    BY <2>3 DEF Refuse
  <2>4. ~Read(r)
    BY <1>4 DEF Read, AskSession, SelectPosts, SelectThumbs, CountLikes, CountDislikes, GetComments, GetImage, At, Lists
  <2>5. ~Invalid(r)
    <3>1. req[r].pc # "free"
      BY <1>2
    <3>2. req[r].query.id \in DOMAIN posts
      BY <1>3, <1>4, <3>1 DEF VotedInv
    <3> QED  BY <1>4, <3>2 DEF Invalid, BadWrite, At
  <2>6. CASE Write(r)
    <3>0. req \in [Req -> {Free} \cup Request] /\ req[r] \in Request
      BY <1>1 DEF Moves, TypeOK
    <3>1. ~FindRecord(r)
      <4>1. ASSUME NEW seen, Keep(r, seen) PROVE FALSE
        BY <1>4, <3>0, <4>1 DEF Keep, Request
      <4> QED  BY <1>4, <4>1 DEF FindRecord, At
    <3>2. ~AddPost(r) /\ ~InsertComment(r) /\ ~StoreContent(r) /\ ~StoreComment(r) /\ ~StoreImage(r)
      BY <1>4 DEF AddPost, InsertComment, StoreContent, StoreComment, StoreImage, At
    <3> QED  BY <2>6, <3>1, <3>2 DEF Write
  <2> QED  BY <2>2, <2>3, <2>4, <2>5, <2>6 DEF Serve
<1>5. ASSUME StoreThumb(r) PROVE req'[r].pc = "done"
  <2>1. AnswerDone(r) /\ req \in [Req -> {Free} \cup Request]
    BY <1>5 DEF StoreThumb, TypeOK
  <2>2. ASSUME NEW x, req' = [req EXCEPT ![r] = x] PROVE req'[r] = x
    BY <2>1, <2>2
  <2> QED  BY <2>1, <2>2 DEF AnswerDone, Finish
<1>6. ASSUME NEW x \in Req, Pending(x, s)' PROVE Pending(x, s)
  <2>1. ASSUME req[r].pc = "done" PROVE req'[r].pc = "answered"
    <3>1. ~Connect(r) /\ ~Serve(r)
      BY <2>1, ConnectMoves, ServeMoves DEF Moves
    <3>2. Release(r)
      BY <1>3, <3>1 DEF Step
    <3> QED  BY <3>2, ReleaseMoves DEF Moves, TypeOK
  <2>2. req[x].query = req'[x].query
    BY <1>2
  <2>3. x # r => req[x].pc = req'[x].pc
    BY <1>2
  <2> QED  BY <1>2, <1>6, <2>1, <2>2, <2>3 DEF Pending
<1>7. ASSUME NEW x \in Req, Pending(x, s), ~Pending(x, s)' PROVE x = r /\ (StoreThumb(r) \/ ~LoggedIn(r))
  BY <1>2, <1>4, <1>7 DEF Pending
<1> QED  BY <1>2, <1>5, <1>6, <1>7 DEF Pending

\* A viewer's vote on a post changes only when one of the viewer's page is stored.
LEMMA VotesKept ==
    ASSUME TypeOK, SeenInv, OneSessionEach, NEW r \in Req, Step(r), NEW t \in Tab, Viewer(t) \in User,
           NEW p, ~Votes(r, t, p)
    PROVE  ThumbRows(p, Viewer(t))' = ThumbRows(p, Viewer(t)) /\ ThumbOf(p, Viewer(t))' = ThumbOf(p, Viewer(t))
<1> DEFINE u == Viewer(t)
<1>1. ASSUME StoreThumb(r), u = UserOf(r), p = req[r].query.id PROVE FALSE
  <2>1. At(r, "half", {"set_thumb"})
    BY <1>1 DEF StoreThumb
  <2>2. req[r].pc # "free" /\ req[r].query.sess \in Session /\ TabSession[t] \in Session
    BY <2>1, InRequest, QueryTyped, TabAssumption DEF At
  <2>3. req[r].query.sess = TabSession[t]
    BY <1>1, <2>2 DEF OneSessionEach, UserOf, Viewer
  <2> QED  BY <1>1, <2>1, <2>3 DEF Votes, Pending, At
<1> HIDE DEF u
<1>2. ThumbRows(p, u)' = ThumbRows(p, u) /\ ThumbOf(p, u)' = ThumbOf(p, u)
  BY <1>1, OthersVotes
<1> QED  BY <1>2 DEF u

\* The server answers and stores, and the page is as it was.
LEMMA ListsVotes ==
    ASSUME TypeOK, NEW r \in Req, Step(r), Ready(r)', NEW k \in DOMAIN req'[r].cards
    PROVE  \/ UNCHANGED thumbs /\ Ready(r) /\ req'[r].cards = req[r].cards
           \/ UNCHANGED thumbs /\ req'[r].cards[k].thumb = ThumbOf(req'[r].cards[k].id, UserOf(r))
<1>1. CASE req'[r].pc # "done"
  <2>1. UNCHANGED tables /\ req'[r].cards = req[r].cards /\ (Ready(r)' => req[r].pc = "done")
    BY <1>1, KeepsAnswer DEF Ready
  <2> QED  BY <2>1 DEF Ready, tables
<1>2. CASE req'[r].pc = "done" /\ ~SelectThumbs(r)
  <2>1. req'[r].cards = NoCards
    BY <1>2, OnlyListsCards
  <2> QED  BY <2>1 DEF NoCards
<1>3. CASE req'[r].pc = "done" /\ SelectThumbs(r)
  <2> DEFINE cards == Cards(req[r].seen, UserOf(r))
  <2>1. UNCHANGED thumbs /\ AnswerCards(r, cards) /\ req \in [Req -> {Free} \cup Request]
    BY <1>3 DEF SelectThumbs, tables, TypeOK
  <2>2. \A i \in DOMAIN cards : cards[i].thumb = ThumbOf(cards[i].id, UserOf(r))
    BY DEF Cards
  <2> HIDE DEF cards
  <2>3. ASSUME NEW x, req' = [req EXCEPT ![r] = x] PROVE req'[r] = x
    BY <2>1, <2>3
  <2>4. req'[r].cards = cards
    BY <2>1, <2>3 DEF AnswerCards, Finish
  <2> QED  BY <2>1, <2>2, <2>4
<1> QED  BY <1>1, <1>2, <1>3

LEMMA QuietLoadingStep ==
    ASSUME PagesInv, OwnCalls, KnownInv, VotedInv, NEW r \in Req, Step(r), UNCHANGED browserVars,
           NEW t \in Tab, Calm(t), faults' = 0, QuietLoading(t)
    PROVE  QuietLoading(t)'
<1>0. TypeOK /\ SeenInv /\ tab' = tab /\ call' = call
  BY DEF PagesInv, DrivenInv, ServerInv, UpsertInv, browserVars
<1> SUFFICES ASSUME tab[t].state = "loading"
             PROVE  /\ \A x \in Req : ~Pending(x, TabSession[t])'
                    /\ \A x \in Req : call[x] # NoCall /\ call[x].tab = t /\ req'[x].query.op = "get_post_list" /\ Ready(x)' =>
                          \A k \in DOMAIN req'[x].cards : \A id :
                              id = req'[x].cards[k].id => req'[x].cards[k].thumb = ThumbOf(id, Viewer(t))'
  BY <1>0 DEF QuietLoading
<1>1. \A x \in Req : ~Pending(x, TabSession[t])
  BY DEF QuietLoading
<1>2. \A x \in Req : ~Pending(x, TabSession[t])'
  BY <1>0, <1>1, PendingStep
<1>3. ASSUME NEW x \in Req, call[x] # NoCall, call[x].tab = t, req'[x].query.op = "get_post_list", Ready(x)',
             NEW k \in DOMAIN req'[x].cards, NEW id, id = req'[x].cards[k].id
      PROVE  req'[x].cards[k].thumb = ThumbOf(id, Viewer(t))'
  <2>1. req'[x].query = req[x].query /\ req[x].pc # "free" /\ UserOf(x) = Viewer(t)
    <3>1. req'[x].query = req[x].query /\ (req'[x].pc # "free" => req[x].pc # "free")
      BY <1>0, OthersStay
    <3>2. req'[x].pc # "free"
      BY <1>3 DEF Ready
    <3> QED  BY <1>3, <3>1, <3>2 DEF OwnCalls, UserOf, Viewer
  <2>2. ASSUME Ready(x), req'[x].cards = req[x].cards PROVE req'[x].cards[k].thumb = ThumbOf(id, Viewer(t))
    BY <1>3, <2>1, <2>2 DEF QuietLoading
  <2>3. ASSUME UNCHANGED thumbs PROVE ThumbOf(id, Viewer(t))' = ThumbOf(id, Viewer(t))
    BY <2>3 DEF ThumbOf, ThumbRows, Viewer
  <2>4. CASE x = r
    <3>1. \/ UNCHANGED thumbs /\ Ready(r) /\ req'[r].cards = req[r].cards
          \/ UNCHANGED thumbs /\ req'[r].cards[k].thumb = ThumbOf(id, UserOf(r))
      BY <1>0, <1>3, <2>4, ListsVotes
    <3> QED  BY <2>1, <2>2, <2>3, <2>4, <3>1
  <2>5. CASE x # r
    <3>1. req'[x] = req[x] /\ Ready(x)
      BY <1>0, <1>3, <2>5, OthersStay DEF Ready
    <3>2. Viewer(t) \in User
      <4>1. req[x].cards # NoCards
        BY <1>3, <3>1 DEF NoCards
      <4> QED  BY <2>1, <4>1 DEF KnownInv, LoggedIn
    <3>3. ~Votes(r, t, id)
      BY <1>1 DEF Votes
    <3>4. ThumbOf(id, Viewer(t))' = ThumbOf(id, Viewer(t))
      BY <1>0, <3>2, <3>3, VotesKept DEF Calm
    <3> QED  BY <2>2, <3>1, <3>4
  <2> QED  BY <2>4, <2>5
<1> QED  BY <1>2, <1>3

LEMMA QuietEntryStep ==
    ASSUME TypeOK, TypeOK', SeenInv, OneThumbPerUser', VotedInv, NEW r \in Req, Step(r), faults' = 0,
           NEW t \in Tab, OneSessionEach, Viewer(t) \in User, NEW id, NEW thumb, QuietEntry(t, id, thumb)
    PROVE  /\ \A r1, r2 \in Req : Votes(r1, t, id)' /\ Votes(r2, t, id)' => r1 = r2
           /\ \A x \in Req : Votes(x, t, id)' => Look(req'[x].query.val) = Look(thumb)
           /\ (\A x \in Req : ~Votes(x, t, id)') => Look(thumb) = Look(ThumbOf(id, Viewer(t))')
<1>1. /\ \A x \in Req : Pending(x, TabSession[t])' => Pending(x, TabSession[t])
      /\ \A x \in Req : req'[x].query = req[x].query
      /\ \A x \in Req : Pending(x, TabSession[t]) /\ ~Pending(x, TabSession[t])' => x = r /\ (StoreThumb(r) \/ ~LoggedIn(r))
      /\ StoreThumb(r) => ~Pending(r, TabSession[t])'
  BY PendingStep
<1>2. \A x \in Req : Votes(x, t, id)' => Votes(x, t, id)
  BY <1>1 DEF Votes
<1>3. \A r1, r2 \in Req : Votes(r1, t, id)' /\ Votes(r2, t, id)' => r1 = r2
  BY <1>2 DEF QuietEntry
<1>4. \A x \in Req : Votes(x, t, id)' => Look(req'[x].query.val) = Look(thumb)
  BY <1>1, <1>2 DEF QuietEntry
<1>5. ASSUME \A x \in Req : ~Votes(x, t, id)' PROVE Look(thumb) = Look(ThumbOf(id, Viewer(t))')
  <2>1. CASE Votes(r, t, id)
    <3>1. Pending(r, TabSession[t]) /\ req[r].query.id = id /\ ~Pending(r, TabSession[t])'
      BY <1>1, <1>5, <2>1 DEF Votes
    <3>2. UserOf(r) = Viewer(t)
      BY <3>1 DEF Pending, UserOf, Viewer
    <3>3. StoreThumb(r)
      BY <1>1, <3>1, <3>2 DEF LoggedIn
    <3>4. ThumbOf(id, Viewer(t))' = req[r].query.val
      <4> DEFINE u == Viewer(t)
      <4>1. u = UserOf(r)
        BY <3>2
      <4> HIDE DEF u
      <4>2. ThumbOf(id, u)' = req[r].query.val
        BY <3>1, <3>3, <4>1, StoredVote
      <4> QED  BY <4>2 DEF u
    <3> QED  BY <2>1, <3>4 DEF QuietEntry
  <2>2. CASE ~Votes(r, t, id)
    <3>1. \A x \in Req : ~Votes(x, t, id)
      <4>1. ASSUME NEW x \in Req, Votes(x, t, id) PROVE FALSE
        <5>1. Pending(x, TabSession[t]) /\ req[x].query.id = id
          BY <4>1 DEF Votes
        <5>2. ~Pending(x, TabSession[t])'
          BY <1>1, <1>5, <5>1 DEF Votes
        <5> QED  BY <1>1, <2>2, <4>1, <5>1, <5>2
      <4> QED  BY <4>1
    <3>2. ThumbOf(id, Viewer(t))' = ThumbOf(id, Viewer(t))
      BY <2>2, VotesKept
    <3> QED  BY <3>1, <3>2 DEF QuietEntry
  <2> QED  BY <2>1, <2>2
<1> QED  BY <1>3, <1>4, <1>5

LEMMA QuietStep ==
    ASSUME PagesInv, PagesInv', OwnCalls, KnownInv, VotedInv, NEW r \in Req, Step(r), UNCHANGED browserVars,
           NEW t \in Tab, Quiet(t)
    PROVE  Quiet(t)'
<1>0. /\ TypeOK /\ SeenInv /\ TypeOK' /\ OneThumbPerUser' /\ PagesTyped
      /\ tab' = tab /\ call' = call
  BY DEF PagesInv, DrivenInv, ServerInv, UpsertInv, browserVars
<1> SUFFICES ASSUME Calm(t)' PROVE QuietLoading(t)' /\ QuietLoaded(t)' /\ QuietAdded(t)'
  BY DEF Quiet
<1>1. Calm(t) /\ faults' = 0
  BY <1>0, FaultsGrow DEF Calm, OneSessionEach, OnlyPage
<1>2. QuietLoading(t) /\ QuietLoaded(t) /\ QuietAdded(t)
  BY <1>1 DEF Quiet
<1>3. QuietLoading(t)'
  BY <1>1, <1>2, QuietLoadingStep
<1>4. QuietLoaded(t)'
  <2> SUFFICES ASSUME tab[t].state = "loaded", NEW i \in DOMAIN tab[t].post_list
               PROVE  QuietEntry(t, tab[t].post_list[i].id, tab[t].post_list[i].thumb)'
    BY <1>0 DEF QuietLoaded
  <2>1. Viewer(t) \in User
    <3>1. tab[t].post_list # <<>>
      OBVIOUS
    <3> QED  BY <3>1 DEF KnownInv
  <2>2. ASSUME NEW id, id = tab[t].post_list[i].id, NEW thumb, thumb = tab[t].post_list[i].thumb
        PROVE  /\ \A r1, r2 \in Req : Votes(r1, t, id)' /\ Votes(r2, t, id)' => r1 = r2
               /\ \A x \in Req : Votes(x, t, id)' => Look(req'[x].query.val) = Look(thumb)
               /\ (\A x \in Req : ~Votes(x, t, id)') => Look(thumb) = Look(ThumbOf(id, Viewer(t))')
    <3>1. OneSessionEach
      BY <1>1 DEF Calm
    <3>2. QuietEntry(t, id, thumb)
      BY <1>2, <2>2 DEF QuietLoaded
    <3> QED  BY <1>0, <1>1, <2>1, <3>1, <3>2, QuietEntryStep
  <2> QED  BY <1>0, <2>2 DEF QuietEntry
<1>5. QuietAdded(t)'
  <2> SUFFICES ASSUME NEW x \in Req, Added(x)', call[x] # NoCall, call[x].tab = t, NEW n, n = req'[x].number
               PROVE  (\A y \in Req : ~Votes(y, t, n)') /\ ThumbRows(n, Viewer(t))' = {}
    BY <1>0 DEF QuietAdded
  <2>1. \A y \in Req : Votes(y, t, n)' => Votes(y, t, n)
    BY <1>0, <1>1, PendingStep DEF Votes
  <2>2. CASE Added(x) /\ n = req[x].number
    <3>1. (\A y \in Req : ~Votes(y, t, n)) /\ ThumbRows(n, Viewer(t)) = {}
      BY <1>2, <2>2 DEF QuietAdded
    <3>2. Viewer(t) \in User
      BY <2>2 DEF KnownInv, OwnCalls, LoggedIn, UserOf, Viewer
    <3>3. ThumbRows(n, Viewer(t))' = ThumbRows(n, Viewer(t))
      BY <1>0, <1>1, <3>1, <3>2, VotesKept DEF Calm
    <3> QED  BY <2>1, <3>1, <3>3
  <2>3. CASE AddPost(r) /\ n = Len(posts) + 1
    <3>1. n \notin DOMAIN posts /\ thumbs' = thumbs
      BY <1>0, <2>3 DEF TypeOK, AddPost
    <3>2. /\ \A y \in Req : req[y].pc # "free" /\ req[y].query.op = "set_thumb" => req[y].query.id # n
          /\ \A i \in DOMAIN thumbs : thumbs[i].post # n
      BY <1>1, <3>1 DEF VotedInv, Calm
    <3>3. \A y \in Req : ~Votes(y, t, n)
      BY <3>2 DEF Votes, Pending
    <3>4. ThumbRows(n, Viewer(t))' = {}
      BY <3>1, <3>2 DEF ThumbRows
    <3> QED  BY <2>1, <3>3, <3>4
  <2> QED  BY <1>0, <1>1, <2>2, <2>3, NewlyAdded
<1> QED  BY <1>3, <1>4, <1>5

-----------------------------------------------------------------------------
(* The pages' own steps. *)

\* The votes on their way are the same, and the answers that wait for a page are.
StillPending(t) ==
    \A x \in Req :
        Pending(x, TabSession[t])' \/ Pending(x, TabSession[t]) =>
            Pending(x, TabSession[t]) /\ Pending(x, TabSession[t])' /\ req'[x].query = req[x].query
StillReady == \A x \in Req : Ready(x)' /\ call'[x] # NoCall => req'[x] = req[x] /\ call'[x] = call[x]

LEMMA PendingKept ==
    ASSUME Drives \/ UNCHANGED serverVars, NEW t \in Tab, OnlyPage(t),
           \A x \in Req : Goes(x) \/ \E u \in Tab : Aims(u, x) /\ (Clicks(u) => u # t)
    PROVE  StillPending(t)
<1>1. ASSUME NEW x \in Req, Pending(x, TabSession[t]) PROVE req'[x] = req[x]
  <2>1. req[x].pc \in {"sent", "begun", "half"}
    BY <1>1 DEF Pending
  <2> QED  BY <2>1 DEF Drives, serverVars
<1>2. ASSUME NEW x \in Req, Pending(x, TabSession[t])' PROVE req'[x] = req[x]
  <2>1. req'[x].pc \in {"sent", "begun", "half"} /\ req'[x].query.op = "set_thumb" /\ req'[x].query.sess = TabSession[t]
    BY <1>2 DEF Pending
  <2>2. CASE Goes(x)
    <3>1. req'[x].pc = "sent" => req'[x] = req[x]
      BY <2>1, <2>2 DEF Goes
    <3>2. ASSUME NEW query, req'[x] = Sent(query) PROVE req'[x].pc = "sent"
      BY <3>2 DEF Sent
    <3>3. req'[x] # Free
      BY <2>1 DEF Free
    <3> QED  BY <3>1, <3>2, <3>3 DEF Drives, serverVars
  <2>3. ASSUME NEW u \in Tab, Aims(u, x), Clicks(u) => u # t PROVE FALSE
    <3>1. PICK query \in Query, idx \in Nat :
             /\ AsksAt(u, x, query, idx)
             /\ query.sess = TabSession[u]
             /\ query.op = "set_thumb" => Clicks(u)
      BY <2>3 DEF Aims
    <3>2. req'[x].query = query
      BY <3>1 DEF AsksAt, Sent
    <3> QED  BY <2>1, <2>3, <3>1, <3>2 DEF OnlyPage
  <2> QED  BY <2>2, <2>3
<1> QED  BY <1>1, <1>2 DEF StillPending, Pending

LEMMA ReadyKept ==
    ASSUME Drives \/ UNCHANGED serverVars,
           \A x \in Req : Kept(x) \/ call'[x] = NoCall \/ \E u \in Tab : Aims(u, x)
    PROVE  StillReady
<1> SUFFICES ASSUME NEW x \in Req, Ready(x)', call'[x] # NoCall PROVE req'[x] = req[x] /\ call'[x] = call[x]
  BY DEF StillReady
<1>1. req'[x] # Free
  BY DEF Ready, Free
<1>2. ASSUME NEW query, req'[x] = Sent(query) PROVE FALSE
  BY <1>2 DEF Ready, Sent
<1>3. req'[x] = req[x]
  BY <1>1, <1>2 DEF Drives, serverVars
<1>4. ASSUME NEW u \in Tab, Aims(u, x) PROVE FALSE
  BY <1>2, <1>4 DEF Aims, AsksAt
<1> QED  BY <1>3, <1>4 DEF Kept

\* What the table and the votes on their way say of a post is the same.
LEMMA EntryKept ==
    ASSUME NEW t \in Tab, StillPending(t), thumbs' = thumbs, NEW id, NEW thumb, QuietEntry(t, id, thumb)
    PROVE  QuietEntry(t, id, thumb)'
<1>1. \A x \in Req : /\ Votes(x, t, id)' <=> Votes(x, t, id)
                     /\ Votes(x, t, id)' => req'[x].query = req[x].query
  BY DEF StillPending, Votes
<1>2. ThumbOf(id, Viewer(t))' = ThumbOf(id, Viewer(t))
  BY DEF ThumbOf, ThumbRows, Viewer
<1>3. \A r1, r2 \in Req : Votes(r1, t, id)' /\ Votes(r2, t, id)' => r1 = r2
  BY <1>1 DEF QuietEntry
<1>4. \A x \in Req : Votes(x, t, id)' => Look(req'[x].query.val) = Look(thumb)
  BY <1>1 DEF QuietEntry
<1>5. (\A x \in Req : ~Votes(x, t, id)') => Look(thumb) = Look(ThumbOf(id, Viewer(t))')
  BY <1>1, <1>2 DEF QuietEntry
<1> QED  BY <1>3, <1>4, <1>5 DEF QuietEntry

\* Posts that are to be added are ones that were, and nobody voted on them meanwhile.
LEMMA AddedKept ==
    ASSUME NEW t \in Tab, StillPending(t), StillReady, thumbs' = thumbs, QuietAdded(t)
    PROVE  QuietAdded(t)'
<1> SUFFICES ASSUME NEW x \in Req, Added(x)', call'[x] # NoCall, call'[x].tab = t, NEW n, n = req'[x].number
             PROVE  (\A y \in Req : ~Votes(y, t, n)') /\ ThumbRows(n, Viewer(t))' = {}
  BY DEF QuietAdded
<1>1. req'[x] = req[x] /\ call'[x] = call[x]
  BY DEF StillReady, Added
<1>2. (\A y \in Req : ~Votes(y, t, n)) /\ ThumbRows(n, Viewer(t)) = {}
  BY <1>1 DEF QuietAdded, Added, Ready
<1>3. ThumbRows(n, Viewer(t))' = ThumbRows(n, Viewer(t))
  BY DEF ThumbRows, Viewer
<1> QED  BY <1>2, <1>3 DEF StillPending, Votes

\* A page that goes on showing what it showed, or starts to wait for its list.
LEMMA QuietSame ==
    ASSUME PagesTyped, DriftInv, VotedInv, NEW t \in Tab, Quiet(t), Same(t), SameThumbs(t),
           StillPending(t), StillReady, UNCHANGED <<posts, thumbs, faults>>
    PROVE  Quiet(t)'
<1> SUFFICES ASSUME Calm(t)' PROVE QuietLoading(t)' /\ QuietLoaded(t)' /\ QuietAdded(t)'
  BY DEF Quiet
<1>1. OneSessionEach /\ OnlyPage(t) /\ ~tab'[t].raced /\ ~tab[t].early /\ faults = 0
  BY DEF Calm, Same, OneSessionEach, OnlyPage
<1>2. CASE tab'[t].raced = tab[t].raced /\ (tab'[t].state = "loading" => tab[t].state = "loading")
  <2>1. QuietLoading(t) /\ QuietLoaded(t) /\ QuietAdded(t)
    BY <1>1, <1>2 DEF Quiet, Calm
  <2>2. QuietLoading(t)'
    <3> SUFFICES ASSUME tab'[t].state = "loading"
                 PROVE  /\ \A x \in Req : ~Pending(x, TabSession[t])'
                        /\ \A x \in Req : call'[x] # NoCall /\ call'[x].tab = t /\ req'[x].query.op = "get_post_list" /\ Ready(x)' =>
                              \A k \in DOMAIN req'[x].cards : \A id :
                                  id = req'[x].cards[k].id => req'[x].cards[k].thumb = ThumbOf(id, Viewer(t))'
      BY DEF QuietLoading
    <3>1. \A x \in Req : ~Pending(x, TabSession[t])'
      BY <1>2, <2>1 DEF QuietLoading, StillPending
    <3>2. \A id : ThumbOf(id, Viewer(t))' = ThumbOf(id, Viewer(t))
      BY DEF ThumbOf, ThumbRows, Viewer
    <3>3. ASSUME NEW x \in Req, call'[x] # NoCall, call'[x].tab = t, req'[x].query.op = "get_post_list", Ready(x)',
                 NEW k \in DOMAIN req'[x].cards
          PROVE  req'[x].cards[k].thumb = ThumbOf(req'[x].cards[k].id, Viewer(t))
      <4>1. req'[x] = req[x] /\ call'[x] = call[x]
        BY <3>3 DEF StillReady
      <4>2. Ready(x)
        BY <3>3, <4>1 DEF Ready
      <4> QED  BY <1>2, <2>1, <3>3, <4>1, <4>2 DEF QuietLoading
    <3> QED  BY <3>1, <3>2, <3>3
  <2>3. QuietLoaded(t)'
    <3> SUFFICES ASSUME tab'[t].state = "loaded", NEW i \in DOMAIN tab'[t].post_list,
                        NEW id, id = tab'[t].post_list[i].id, NEW thumb, thumb = tab'[t].post_list[i].thumb
                 PROVE  QuietEntry(t, id, thumb)'
      <4>1. ASSUME NEW id, NEW thumb, QuietEntry(t, id, thumb)'
            PROVE  /\ \A r1, r2 \in Req : Votes(r1, t, id)' /\ Votes(r2, t, id)' => r1 = r2
                   /\ \A r \in Req : Votes(r, t, id)' => Look(req'[r].query.val) = Look(thumb)
                   /\ (\A r \in Req : ~Votes(r, t, id)') => Look(thumb) = Look(ThumbOf(id, Viewer(t))')
        BY <4>1 DEF QuietEntry
      <4> QED  BY <4>1 DEF QuietLoaded, QuietEntry
    <3>1. tab[t].state = "loaded"
      BY DEF Same
    <3>2. i \in DOMAIN tab[t].post_list /\ tab[t].post_list[i].id = id /\ tab[t].post_list[i].thumb = thumb
      BY DEF Same, SameThumbs
    <3>3. QuietEntry(t, id, thumb)
      BY <2>1, <3>1, <3>2 DEF QuietLoaded
    <3> QED  BY <3>3, EntryKept
  <2> QED  BY <2>1, <2>2, <2>3, AddedKept
<1>3. CASE tab[t].state = "open" /\ tab'[t].state = "loading" /\ (~tab'[t].raced => ~Racing(t, DOMAIN posts))
  <2>1. \A x \in Req : ~Pending(x, TabSession[t])
    <3>1. \A x \in Req : Pending(x, TabSession[t]) => req[x].query.id \in DOMAIN posts
      BY <1>1 DEF VotedInv, Pending
    <3> QED  BY <1>1, <1>3, <3>1 DEF Racing, Unstored, Pending
  <2>2. ASSUME NEW x \in Req, Ready(x)', call'[x] # NoCall, call'[x].tab = t
        PROVE  req'[x].query.op \notin {"get_post_list", "add_post"}
    <3>1. req'[x] = req[x] /\ call'[x] = call[x]
      BY <2>2 DEF StillReady
    <3>2. CallOK(x)
      BY DEF DriftInv
    <3> QED  BY <1>1, <1>3, <2>2, <3>1, <3>2 DEF CallOK
  <2>3. QuietLoading(t)'
    BY <2>1, <2>2 DEF QuietLoading, StillPending
  <2>4. QuietLoaded(t)'
    BY <1>3 DEF QuietLoaded
  <2>5. QuietAdded(t)'
    BY <2>2 DEF QuietAdded, Added
  <2> QED  BY <2>3, <2>4, <2>5
<1> QED  BY <1>2, <1>3 DEF SameThumbs, Races

\* The user clicks on the post i of the page t, and the vote takes the place r.
Clicked(t, i, r, thumb) ==
    /\ Turns(t, tab[t].state, [tab[t].post_list EXCEPT ![i] = [tab[t].post_list[i] EXCEPT !.thumb = thumb]],
             tab[t].added)
    /\ tab'[t].early = tab[t].early
    /\ ~tab'[t].raced => ~tab[t].raced /\ ~Racing(t, {tab[t].post_list[i].id})
    /\ Issued
    /\ req[r] = Free /\ req'[r].pc = "sent" /\ req'[r].query.op = "set_thumb"
    /\ req'[r].query.sess = TabSession[t] /\ req'[r].query.id = tab[t].post_list[i].id
    /\ Look(req'[r].query.val) = Look(thumb)
    /\ \A x \in Req \ {r} : req'[x] = req[x] /\ call'[x] = call[x]

LEMMA ClickVotes ==
    ASSUME PagesTyped, NEW t \in Tab, Clicks(t)
    PROVE  \E i \in DOMAIN tab[t].post_list, r \in Req, thumb \in Vote \cup {NoVote} : Clicked(t, i, r, thumb)
<1>1. PICK i \in DOMAIN tab[t].post_list, v \in Thumbs : ClickThumb(t, i, v)
  BY DEF Clicks
<1> DEFINE p == tab[t].post_list[i]
<1>2. p.id \in Nat /\ TabSession[t] \in Session
  <2>1. p \in Entry
    BY DEF PagesTyped, PageTyped
  <2> QED  BY <2>1, TabAssumption DEF Entry
<1> HIDE DEF p
<1>3. PICK thumb \in Vote \cup {NoVote}, val \in Vote :
         /\ Look(val) = Look(thumb)
         /\ Turns(t, tab[t].state, [tab[t].post_list EXCEPT ![i] = [p EXCEPT !.thumb = thumb]], tab[t].added)
         /\ tab'[t].early = tab[t].early
         /\ ~tab'[t].raced => ~tab[t].raced /\ ~Racing(t, {p.id})
         /\ Issued /\ Asks(t, Call("set_thumb", TabSession[t], [id |-> p.id, val |-> val]), i)
  BY <1>1, ClickMoves DEF p
<1> DEFINE query == Call("set_thumb", TabSession[t], [id |-> p.id, val |-> val])
<1>4. query.op = "set_thumb" /\ query.sess = TabSession[t] /\ query.id = p.id /\ query.val = val
  <2> DEFINE fields == [id |-> p.id, val |-> val]
  <2>1. /\ FieldsTyped(fields) /\ "id" \in DOMAIN fields /\ "val" \in DOMAIN fields
        /\ fields["id"] = p.id /\ fields["val"] = val
    BY <1>2, SomeFields
  <2>2. "set_thumb" \in Op
    BY DEF Op, Upserts
  <2> HIDE DEF fields
  <2>3. /\ Call("set_thumb", TabSession[t], fields).op = "set_thumb"
        /\ Call("set_thumb", TabSession[t], fields).sess = TabSession[t]
        /\ Call("set_thumb", TabSession[t], fields).id = p.id
        /\ Call("set_thumb", TabSession[t], fields).val = val
    BY <1>2, <2>1, <2>2, CallTyped
  <2> QED  BY <2>3 DEF fields
<1> HIDE DEF query
<1>5. PICK r \in Req : AsksAt(t, r, query, i) /\ \A x \in Req \ {r} : req'[x] = req[x] /\ call'[x] = call[x]
  BY <1>3 DEF Asks, query
<1>6. req[r] = Free /\ req'[r].pc = "sent" /\ req'[r].query = query
  BY <1>5 DEF AsksAt, Sent
<1>7. Clicked(t, i, r, thumb)
  BY <1>3, <1>4, <1>5, <1>6 DEF Clicked, p
<1> QED  BY <1>7

\* Votes that pages send are on posts that they show.
LEMMA VotedPages ==
    ASSUME PagesTyped, NewInv, VotedInv, Drives \/ UNCHANGED serverVars,
           \A x \in Req : Goes(x) \/ \E u \in Tab : Aims(u, x)
    PROVE  VotedInv'
<1> SUFFICES ASSUME faults' = 0, NEW x \in Req, req'[x].pc # "free", req'[x].query.op = "set_thumb"
             PROVE  req'[x].query.id \in DOMAIN posts
  <2>1. UNCHANGED <<posts, thumbs, faults>>
    BY DEF Drives, Issued, serverVars, tables
  <2> QED  BY <2>1 DEF VotedInv
<1>1. faults = 0
  BY DEF Drives, Issued, serverVars, tables
<1>2. CASE Goes(x)
  BY <1>1, <1>2 DEF Goes, VotedInv
<1>3. ASSUME NEW u \in Tab, Aims(u, x) PROVE req'[x].query.id \in DOMAIN posts
  <2>1. req[x] = Free /\ Clicks(u) /\ req'[x].pc = "sent"
    BY <1>3 DEF Aims, AsksAt, Sent
  <2>2. PICK i \in DOMAIN tab[u].post_list, r \in Req, thumb \in Vote \cup {NoVote} : Clicked(u, i, r, thumb)
    BY <2>1, ClickVotes
  <2>3. x = r
    BY <2>1, <2>2 DEF Clicked, Free
  <2> QED  BY <1>1, <2>2, <2>3 DEF Clicked, NewInv
<1> QED  BY <1>2, <1>3

\* The page that was clicked on shows the vote that it sent.
LEMMA QuietClick ==
    ASSUME PagesInv, NEW t \in Tab, Quiet(t), NEW i \in DOMAIN tab[t].post_list, NEW r \in Req, NEW thumb,
           Clicked(t, i, r, thumb)
    PROVE  Quiet(t)'
<1> SUFFICES ASSUME Calm(t)' PROVE QuietLoading(t)' /\ QuietLoaded(t)' /\ QuietAdded(t)'
  BY DEF Quiet
<1>0. PagesTyped /\ DriftInv /\ NewInv /\ PostsOnce /\ UNCHANGED <<posts, thumbs, faults>>
  BY DEF PagesInv, PostsInv, DrivenInv, Clicked, Issued, tables
<1> DEFINE id == tab[t].post_list[i].id
<1>1. /\ OneSessionEach /\ OnlyPage(t) /\ ~tab[t].raced /\ ~tab[t].early /\ faults = 0
      /\ ~Racing(t, {id}) /\ tab'[t].state = tab[t].state
  BY <1>0 DEF Calm, OneSessionEach, OnlyPage, Clicked, Turns
<1>2. tab[t].state = "loaded"
  <2>1. tab[t].state # "loaded" => tab[t].post_list = <<>>
    BY <1>0, <1>1 DEF DriftInv, PageOK
  <2> QED  BY <2>1
<1>3. QuietLoaded(t) /\ QuietAdded(t)
  BY <1>1 DEF Quiet, Calm
<1>4. \A x \in Req : ~Votes(x, t, id)
  BY <1>1 DEF Racing, Unstored, Votes, Pending
<1>5. /\ req[r].pc = "free" /\ req'[r].pc = "sent" /\ req'[r].query.id = id
      /\ Look(req'[r].query.val) = Look(thumb)
      /\ \A x \in Req \ {r} : req'[x] = req[x] /\ call'[x] = call[x]
  BY DEF Clicked, Free
<1>6. /\ tab[t].post_list \in Seq(Entry)
      /\ DOMAIN tab'[t].post_list = DOMAIN tab[t].post_list
      /\ \A j \in DOMAIN tab[t].post_list :
            /\ tab'[t].post_list[j].id = tab[t].post_list[j].id
            /\ tab'[t].post_list[j].thumb = IF j = i THEN thumb ELSE tab[t].post_list[j].thumb
  <2>1. tab[t].post_list \in Seq(Entry) /\ tab[t].post_list[i] \in Entry
    BY <1>0 DEF PagesTyped, PageTyped
  <2> DEFINE list == tab[t].post_list
             e == [list[i] EXCEPT !.thumb = thumb]
  <2>2. e.id = list[i].id /\ e.thumb = thumb
    BY <2>1 DEF Entry
  <2>3. tab'[t].post_list = [list EXCEPT ![i] = e]
    BY DEF Clicked, Turns
  <2> HIDE DEF e
  <2>4. DOMAIN tab'[t].post_list = DOMAIN list /\ \A j \in DOMAIN list : tab'[t].post_list[j] = IF j = i THEN e ELSE list[j]
    BY <2>1, <2>3
  <2> QED  BY <2>1, <2>2, <2>4
<1> HIDE DEF id
<1>7. \A n : \A x \in Req \ {r} : Votes(x, t, n)' <=> Votes(x, t, n)
  BY <1>5 DEF Votes, Pending
<1>8. \A n : n # id => ~Votes(r, t, n)' /\ ~Votes(r, t, n)
  BY <1>5 DEF Votes, Pending
<1>9. \A n : ThumbOf(n, Viewer(t))' = ThumbOf(n, Viewer(t)) /\ ThumbRows(n, Viewer(t))' = ThumbRows(n, Viewer(t))
  BY <1>0 DEF ThumbOf, ThumbRows, Viewer
<1>10. QuietLoading(t)'
  BY <1>1, <1>2 DEF QuietLoading
<1>11. QuietLoaded(t)'
  <2> SUFFICES ASSUME NEW j \in DOMAIN tab[t].post_list,
                      NEW n, n = tab'[t].post_list[j].id, NEW shown, shown = tab'[t].post_list[j].thumb
               PROVE  /\ \A r1, r2 \in Req : Votes(r1, t, n)' /\ Votes(r2, t, n)' => r1 = r2
                      /\ \A x \in Req : Votes(x, t, n)' => Look(req'[x].query.val) = Look(shown)
                      /\ (\A x \in Req : ~Votes(x, t, n)') => Look(shown) = Look(ThumbOf(n, Viewer(t))')
    BY <1>6 DEF QuietLoaded, QuietEntry
  <2>1. CASE j = i
    <3>1. n = id /\ shown = thumb
      BY <1>6, <2>1 DEF id
    <3>2. \A x \in Req : Votes(x, t, n)' => x = r
      BY <1>4, <1>7, <3>1
    <3>3. Votes(r, t, n)'
      <4>1. req'[r].query.op = "set_thumb" /\ req'[r].query.sess = TabSession[t]
        BY DEF Clicked
      <4> QED  BY <1>5, <3>1, <4>1 DEF Votes, Pending
    <3> QED  BY <1>5, <3>1, <3>2, <3>3
  <2>2. CASE j # i
    <3>1. n = tab[t].post_list[j].id /\ shown = tab[t].post_list[j].thumb /\ n # id
      BY <1>0, <1>1, <1>6, <2>2 DEF PostsOnce, id
    <3>2. QuietEntry(t, n, shown)
      BY <1>2, <1>3, <3>1 DEF QuietLoaded
    <3>3. \A x \in Req : Votes(x, t, n)' <=> Votes(x, t, n)
      BY <1>7, <1>8, <3>1
    <3>4. \A x \in Req : Votes(x, t, n)' => req'[x] = req[x]
      BY <1>5, <1>8, <3>1
    <3> QED  BY <1>9, <3>2, <3>3, <3>4 DEF QuietEntry
  <2> QED  BY <2>1, <2>2
<1>12. QuietAdded(t)'
  <2> SUFFICES ASSUME NEW x \in Req, Added(x)', call'[x] # NoCall, call'[x].tab = t, NEW n, n = req'[x].number
               PROVE  (\A y \in Req : ~Votes(y, t, n)') /\ ThumbRows(n, Viewer(t))' = {}
    BY DEF QuietAdded
  <2>1. req'[x] = req[x] /\ call'[x] = call[x] /\ Added(x)
    BY <1>5 DEF Added, Ready
  <2>2. (\A y \in Req : ~Votes(y, t, n)) /\ ThumbRows(n, Viewer(t)) = {}
    BY <1>3, <2>1 DEF QuietAdded
  <2>3. n # id
    BY <1>0, <1>1, <2>1 DEF NewInv, id
  <2> QED  BY <1>7, <1>8, <1>9, <2>2, <2>3
<1> QED  BY <1>10, <1>11, <1>12

\* The page that is left.
LEMMA QuietLeave ==
    ASSUME PagesTyped, NEW t \in Tab, Leave(t)
    PROVE  Quiet(t)'
<1>1. /\ Turns(t, "new", <<>>, 0)
      /\ \A r \in Req : call'[r] = NoCall \/ (call'[r] = call[r] /\ call[r].tab # t)
  BY LeaveMoves
<1>2. tab'[t].state = "new" /\ \A r \in Req : ~(call'[r] # NoCall /\ call'[r].tab = t)
  BY <1>1 DEF Turns
<1> QED  BY <1>2 DEF Quiet, QuietLoading, QuietLoaded, QuietAdded

\* An answer comes: its call is over, and the others go on.
LEMMA EndsStill ==
    ASSUME NEW r \in Req, Ends(r)
    PROVE  /\ Drives
           /\ \A x \in Req : Goes(x) /\ (Kept(x) \/ call'[x] = NoCall)
<1>1. ASSUME NEW x \in Req, req'[x] = req[x] PROVE Goes(x)
  BY <1>1 DEF Goes
<1>2. ASSUME NEW x \in Req, req'[x] = req[x], call'[x] = call[x] PROVE Kept(x)
  BY <1>1, <1>2 DEF Kept
<1>3. req'[r].pc = "free" /\ call'[r] = NoCall
  BY DEF Ends, Free
<1>4. Goes(r)
  BY <1>3 DEF Goes
<1> QED  BY <1>1, <1>2, <1>3, <1>4, EndsDrives DEF Ends

LEMMA CallbackStill ==
    ASSUME TypeOK, PagesTyped, AnswersTyped, NEW r \in Req, NEW t \in Tab, Callback(r, t)
    PROVE  /\ Drives
           /\ \A x \in Req : Goes(x) /\ (Kept(x) \/ call'[x] = NoCall)
<1>1. CASE OnThumbSet(r, t)
  <2>1. ~OnPostList(r, t) /\ ~OnPostAdded(r, t)
    BY <1>1 DEF OnThumbSet, OnPostList, OnPostAdded, Answered, At
  <2>2. Drives /\ \A x \in Req : Kept(x) \/ call'[x] = NoCall
    BY <2>1, CallbackKeeps, CallbackDrives
  <2>3. ASSUME NEW x \in Req PROVE Goes(x)
    <3>1. x # r => req'[x] = req[x]
      BY <1>1, ThumbSetMoves
    <3>2. Goes(r)
      <4>1. call'[r] = call[r] /\ call[r] # NoCall
        BY <1>1, ThumbSetMoves DEF Waited
      <4> QED  BY <2>2, <4>1 DEF Kept
    <3> QED  BY <3>1, <3>2 DEF Goes
  <2> QED  BY <2>2, <2>3
<1>2. CASE ~OnThumbSet(r, t)
  <2>1. EndCall(r)
    BY <1>2 DEF Callback, OnLoggedIn, OnPostList, OnPostAdded, OnCount, OnComments, OnCommentSaved
  <2> QED  BY <2>1, EndMoves, EndsStill
<1> QED  BY <1>1, <1>2

\* The list comes as the table is.
LEMMA QuietList ==
    ASSUME PagesInv, NEW t \in Tab, Quiet(t), NEW r \in Req, OnPostList(r, t)
    PROVE  Quiet(t)'
<1> SUFFICES ASSUME Calm(t)' PROVE QuietLoading(t)' /\ QuietLoaded(t)' /\ QuietAdded(t)'
  BY DEF Quiet
<1>0. TypeOK /\ PagesTyped /\ AnswersTyped /\ DriftInv
  BY DEF PagesInv, DrivenInv, ServerInv
<1>1. PICK list \in InOrder(Near(t, req[r].cards)) :
         /\ Turns(t, "loaded", Entries(list), tab[t].added) /\ Steady(t)
         /\ Waited(r, t, "get_post_list") /\ Ends(r)
  BY <1>0, ListMoves
<1>2. /\ Drives /\ UNCHANGED <<thumbs, faults>>
      /\ \A x \in Req : Goes(x) /\ (Kept(x) \/ call'[x] = NoCall)
  BY <1>1, EndsStill DEF Ends, Issued, tables
<1>3. Calm(t)
  BY <1>1, <1>2 DEF Calm, Steady, OneSessionEach, OnlyPage
<1>4. /\ req[r].query.op = "get_post_list" /\ req[r].pc = "answered" /\ call[r] # NoCall /\ call[r].tab = t
      /\ tab'[t].state = "loaded" /\ tab'[t].post_list = Entries(list)
  BY <1>1 DEF Waited, Turns
<1>5. tab[t].state = "loading"
  BY <1>0, <1>4 DEF DriftInv, CallOK
<1>6. /\ \A x \in Req : ~Pending(x, TabSession[t])
      /\ \A k \in DOMAIN req[r].cards : req[r].cards[k].thumb = ThumbOf(req[r].cards[k].id, Viewer(t))
  BY <1>3, <1>4, <1>5 DEF Quiet, QuietLoading, Ready
<1>7. StillPending(t)
  BY <1>2, <1>3, PendingKept DEF Calm
<1>8. StillReady
  BY <1>2, ReadyKept
<1>9. QuietLoading(t)'
  BY <1>4 DEF QuietLoading
<1>10. QuietLoaded(t)'
  <2>1. req[r].cards \in Seq(Card)
    <3>1. req[r] \in Request
      BY <1>0, <1>4, InRequest
    <3> QED  BY <3>1 DEF Request
  <2>2. list \in Seq(Card) /\ list \in Seq(Near(t, req[r].cards))
    BY <2>1, NearFinite, OrderTyped
  <2>3. \A n : \A x \in Req : ~Votes(x, t, n)'
    BY <1>6, <1>7 DEF StillPending, Votes
  <2> SUFFICES ASSUME NEW i \in DOMAIN Entries(list),
                      NEW n, n = Entries(list)[i].id, NEW shown, shown = Entries(list)[i].thumb
               PROVE  shown = ThumbOf(n, Viewer(t))'
    BY <1>4, <2>3 DEF QuietLoaded, QuietEntry
  <2>4. i \in DOMAIN list /\ n = list[i].id /\ shown = list[i].thumb
    BY <2>2, EntriesTyped
  <2>5. list[i] \in Near(t, req[r].cards)
    BY <2>2, <2>4
  <2>6. PICK k \in DOMAIN req[r].cards : list[i] = req[r].cards[k]
    BY <2>5 DEF Near
  <2>7. shown = ThumbOf(n, Viewer(t))
    BY <1>6, <2>4, <2>6
  <2> QED  BY <1>2, <2>7 DEF ThumbOf, ThumbRows, Viewer
<1>11. QuietAdded(t)'
  <2>1. ASSUME NEW x \in Req, Added(x)', call'[x] # NoCall, call'[x].tab = t PROVE FALSE
    <3>1. req'[x] = req[x] /\ call'[x] = call[x]
      BY <1>8, <2>1 DEF StillReady, Added
    <3>2. CallOK(x)
      BY <1>0 DEF DriftInv
    <3> QED  BY <1>3, <1>5, <2>1, <3>1, <3>2 DEF CallOK, Added, Calm
  <2> QED  BY <2>1 DEF QuietAdded
<1> QED  BY <1>9, <1>10, <1>11

\* The post that comes is one on which nobody voted.
LEMMA QuietNew ==
    ASSUME PagesInv, NEW t \in Tab, Quiet(t), NEW r \in Req, OnPostAdded(r, t)
    PROVE  Quiet(t)'
<1> SUFFICES ASSUME Calm(t)' PROVE QuietLoading(t)' /\ QuietLoaded(t)' /\ QuietAdded(t)'
  BY DEF Quiet
<1>0. TypeOK /\ PagesTyped /\ AnswersTyped /\ DriftInv
  BY DEF PagesInv, DrivenInv, ServerInv
<1> DEFINE new == WithPost(req[r].number, tab[t].post_list)
<1>1. /\ Turns(t, tab[t].state, new, tab[t].added + 1)
      /\ Steady(t) /\ Waited(r, t, "add_post") /\ Ends(r)
  BY <1>0, AddedMoves
<1>2. /\ Drives /\ UNCHANGED <<thumbs, faults>>
      /\ \A x \in Req : Goes(x) /\ (Kept(x) \/ call'[x] = NoCall)
  BY <1>1, EndsStill DEF Ends, Issued, tables
<1>3. Calm(t)
  BY <1>1, <1>2 DEF Calm, Steady, OneSessionEach, OnlyPage
<1>4. /\ req[r].query.op = "add_post" /\ Added(r) /\ call[r] # NoCall /\ call[r].tab = t
      /\ req[r].number \in Nat
      /\ tab'[t].state = tab[t].state /\ tab'[t].post_list = new
  BY <1>0, <1>1 DEF Waited, Turns, Added, Ready, AnswersTyped, Inserts
<1>5. tab[t].state = "loaded"
  BY <1>0, <1>3, <1>4 DEF DriftInv, CallOK, Calm
<1>6. QuietLoaded(t) /\ QuietAdded(t)
  BY <1>3 DEF Quiet
<1>7. StillPending(t)
  BY <1>2, <1>3, PendingKept DEF Calm
<1>8. StillReady
  BY <1>2, ReadyKept
<1>9. QuietLoading(t)'
  BY <1>4, <1>5 DEF QuietLoading
<1>10. QuietLoaded(t)'
  <2> DEFINE list == tab[t].post_list
  <2>1. list \in Seq(Entry)
    BY <1>0 DEF PagesTyped, PageTyped
  <2>2. /\ DOMAIN new = 1..(Len(list) + 1)
        /\ new[1].id = req[r].number /\ new[1].thumb = NoVote
        /\ \A j \in DOMAIN list : new[j + 1].id = list[j].id /\ new[j + 1].thumb = list[j].thumb
    BY <1>4, <2>1, AddedTyped
  <2>3. \A i \in DOMAIN new : i = 1 \/ \E j \in DOMAIN list : i = j + 1
    <3>1. DOMAIN list = 1..Len(list) /\ Len(list) \in Nat
      BY <2>1
    <3>2. ASSUME NEW i \in DOMAIN new, i # 1 PROVE i - 1 \in DOMAIN list /\ i = (i - 1) + 1
      BY <2>2, <3>1, <3>2
    <3> QED  BY <3>2
  <2> HIDE DEF new, list
  <2>4. ASSUME NEW i \in DOMAIN new, NEW n, n = new[i].id, NEW shown, shown = new[i].thumb
        PROVE  QuietEntry(t, n, shown)
    <3>1. CASE i = 1
      <4>1. (\A x \in Req : ~Votes(x, t, n)) /\ ThumbRows(n, Viewer(t)) = {} /\ shown = NoVote
        BY <1>4, <1>6, <2>2, <2>4, <3>1 DEF QuietAdded
      <4>2. ThumbOf(n, Viewer(t)) = NoVote
        BY <4>1 DEF ThumbOf
      <4> QED  BY <4>1, <4>2 DEF QuietEntry
    <3>2. ASSUME NEW j \in DOMAIN list, i = j + 1 PROVE QuietEntry(t, n, shown)
      BY <1>5, <1>6, <2>2, <2>4, <3>2 DEF QuietLoaded, list
    <3> QED  BY <2>3, <3>1, <3>2
  <2>5. ASSUME NEW i \in DOMAIN new, NEW n, n = new[i].id, NEW shown, shown = new[i].thumb
        PROVE  QuietEntry(t, n, shown)'
    BY <1>2, <1>7, <2>4, <2>5, EntryKept
  <2>6. ASSUME NEW i \in DOMAIN tab'[t].post_list,
               NEW n, n = tab'[t].post_list[i].id, NEW shown, shown = tab'[t].post_list[i].thumb
        PROVE  /\ \A r1, r2 \in Req : Votes(r1, t, n)' /\ Votes(r2, t, n)' => r1 = r2
               /\ \A x \in Req : Votes(x, t, n)' => Look(req'[x].query.val) = Look(shown)
               /\ (\A x \in Req : ~Votes(x, t, n)') => Look(shown) = Look(ThumbOf(n, Viewer(t))')
    <3>1. QuietEntry(t, n, shown)'
      BY <1>4, <2>5, <2>6
    <3> QED  BY <3>1 DEF QuietEntry
  <2> QED  BY <2>6 DEF QuietLoaded, QuietEntry
<1>11. QuietAdded(t)'
  BY <1>2, <1>6, <1>7, <1>8, AddedKept
<1> QED  BY <1>9, <1>10, <1>11

\* What comes to the other pages, and what comes that is neither a list nor a post.
LEMMA QuietOn ==
    ASSUME PagesTyped, DriftInv, VotedInv, NEW t \in Tab, Quiet(t), Same(t), SameThumbs(t),
           Drives \/ UNCHANGED serverVars,
           \A x \in Req : Goes(x) \/ \E u \in Tab : Aims(u, x) /\ (Clicks(u) => u # t),
           \A x \in Req : Kept(x) \/ call'[x] = NoCall \/ \E u \in Tab : Aims(u, x)
    PROVE  Quiet(t)'
<1> SUFFICES ASSUME OnlyPage(t) PROVE Quiet(t)'
  BY DEF Quiet, Calm, OnlyPage
<1>1. StillPending(t) /\ StillReady
  BY PendingKept, ReadyKept
<1>2. UNCHANGED <<posts, thumbs, faults>>
  BY DEF Drives, Issued, serverVars, tables
<1> QED  BY <1>1, <1>2, QuietSame

LEMMA Elsewhere ==
    ASSUME NEW t \in Tab, tab'[t] = tab[t]
    PROVE  Same(t) /\ SameThumbs(t)
  BY DEF Same, SameThumbs, Races

LEMMA QuietUser ==
    ASSUME PagesInv, VotedInv, NEW t \in Tab, Quiet(t), NEW u \in Tab, UserStep(u)
    PROVE  Quiet(t)'
<1>0. TypeOK /\ PagesTyped /\ DriftInv /\ (Drives \/ UNCHANGED serverVars)
  BY UserDrives DEF PagesInv, DrivenInv, ServerInv
<1>1. CASE Leave(u)
  <2>1. CASE u = t
    BY <1>0, <1>1, <2>1, QuietLeave
  <2>2. CASE u # t
    <3>1. /\ Turns(u, "new", <<>>, 0) /\ UNCHANGED serverVars
          /\ \A r \in Req : call'[r] = NoCall \/ (call'[r] = call[r] /\ call[r].tab # u)
      BY <1>0, <1>1, LeaveMoves
    <3>2. req' = req /\ tab'[t] = tab[t]
      BY <2>2, <3>1 DEF serverVars, Turns
    <3>3. \A x \in Req : Goes(x) /\ (call'[x] = call[x] => Kept(x))
      BY <3>2 DEF Goes, Kept
    <3> QED  BY <1>0, <3>1, <3>2, <3>3, Elsewhere, QuietOn
  <2> QED  BY <2>1, <2>2
<1>2. CASE ~Leave(u) /\ Clicks(u) /\ u = t
  <2>1. PICK i \in DOMAIN tab[t].post_list, r \in Req, thumb \in Vote \cup {NoVote} : Clicked(t, i, r, thumb)
    BY <1>0, <1>2, ClickVotes
  <2> QED  BY <2>1, QuietClick
<1>3. CASE ~Leave(u) /\ (Clicks(u) => u # t)
  <2>1. /\ \A x \in Tab : Same(x) /\ SameShown(x)
        /\ (\A x \in Tab : SameThumbs(x)) \/ Clicks(u)
        /\ \A r \in Req : Kept(r) \/ Aims(u, r)
    BY <1>0, <1>3, UserAims
  <2>2. SameThumbs(t)
    <3>1. CASE Clicks(u)
      <4>1. PICK i \in DOMAIN tab[u].post_list, r \in Req, thumb \in Vote \cup {NoVote} : Clicked(u, i, r, thumb)
        BY <1>0, <3>1, ClickVotes
      <4>2. tab'[t] = tab[t]
        BY <1>3, <3>1, <4>1 DEF Clicked, Turns
      <4> QED  BY <4>2, Elsewhere
    <3> QED  BY <2>1, <3>1
  <2>3. \A x \in Req : Goes(x) \/ \E w \in Tab : Aims(w, x) /\ (Clicks(w) => w # t)
    BY <1>3, <2>1 DEF Kept
  <2>4. \A x \in Req : Kept(x) \/ call'[x] = NoCall \/ \E w \in Tab : Aims(w, x)
    BY <2>1
  <2> QED  BY <1>0, <2>1, <2>2, <2>3, <2>4, QuietOn
<1> QED  BY <1>1, <1>2, <1>3

LEMMA QuietCallback ==
    ASSUME PagesInv, CommentInv, VotedInv, NEW t \in Tab, Quiet(t), NEW r \in Req, NEW u \in Tab, Callback(r, u)
    PROVE  Quiet(t)'
<1>0. TypeOK /\ PagesTyped /\ AnswersTyped /\ DriftInv
  BY DEF PagesInv, DrivenInv, ServerInv
<1>1. /\ Drives
      /\ \A x \in Req : Goes(x) /\ (Kept(x) \/ call'[x] = NoCall)
  BY <1>0, CallbackStill
<1>2. ASSUME Same(t), SameThumbs(t) PROVE Quiet(t)'
  BY <1>0, <1>1, <1>2, QuietOn
<1>3. CASE OnPostList(r, u)
  <2>1. CASE u = t
    BY <1>3, <2>1, QuietList
  <2>2. CASE u # t
    <3>1. tab'[t] = tab[t]
      BY <1>0, <1>3, <2>2, ListMoves DEF Turns
    <3> QED  BY <1>2, <3>1, Elsewhere
  <2> QED  BY <2>1, <2>2
<1>4. CASE OnPostAdded(r, u)
  <2>1. CASE u = t
    BY <1>4, <2>1, QuietNew
  <2>2. CASE u # t
    <3>1. tab'[t] = tab[t]
      BY <1>0, <1>4, <2>2, AddedMoves DEF Turns
    <3> QED  BY <1>2, <3>1, Elsewhere
  <2> QED  BY <2>1, <2>2
<1>5. CASE ~OnPostList(r, u) /\ ~OnPostAdded(r, u)
  <2>1. Same(t)
    BY <1>0, <1>5, CallbackKeeps
  <2>2. CASE OnLoggedIn(r, u) \/ OnThumbSet(r, u) \/ OnCount(r, u)
    BY <1>0, <1>2, <2>1, <2>2, QuietCallbacks
  <2>3. CASE OnComments(r, u) \/ OnCommentSaved(r, u)
    <3>1. PICK e : Brings(r, u, call[r].idx, tab[u].post_list[call[r].idx], e)
      BY <1>0, <2>3, CommentsCome
    <3> DEFINE i == call[r].idx
    <3>2. /\ Turns(u, tab[u].state, [tab[u].post_list EXCEPT ![i] = e], tab[u].added) /\ Steady(u)
          /\ i \in DOMAIN tab[u].post_list => e.thumb = tab[u].post_list[i].thumb
      BY <3>1 DEF Brings
    <3> HIDE DEF i
    <3>3. SameThumbs(t)
      BY <3>2, EntryThumbs
    <3> QED  BY <1>2, <2>1, <3>3
  <2> QED  BY <1>5, <2>2, <2>3 DEF Callback
<1> QED  BY <1>3, <1>4, <1>5

LEMMA VotesStart == BrowserInit => VoteInv
<1> SUFFICES ASSUME BrowserInit PROVE VoteInv
  OBVIOUS
<1>1. /\ \A r \in Req : req[r].pc = "free" /\ call[r] = NoCall
      /\ \A t \in Tab : tab[t].state = "new" /\ tab[t].post_list = <<>>
      /\ thumbs = <<>>
  BY DEF BrowserInit, Init, Free, NewPage
<1>2. OwnCalls /\ KnownInv
  BY <1>1 DEF OwnCalls, KnownInv, Added, Ready
<1>3. VotedInv
  BY <1>1 DEF VotedInv
<1>4. \A t \in Tab : Quiet(t)
  BY <1>1 DEF Quiet, QuietLoading, QuietLoaded, QuietAdded
<1> QED  BY <1>2, <1>3, <1>4 DEF VoteInv

LEMMA VotesStep ==
    ASSUME PagesInv, PagesInv', CommentInv, VoteInv, BrowserNext
    PROVE  VoteInv'
<1>0. /\ TypeOK /\ SeenInv /\ PagesTyped /\ DrivenInv /\ DriftInv /\ NewInv
      /\ OwnCalls /\ KnownInv /\ VotedInv /\ \A t \in Tab : Quiet(t)
  BY DEF PagesInv, DrivenInv, ServerInv, UpsertInv, PostsInv, VoteInv
<1>1. OwnCalls'
  BY <1>0, OwnCallsStep
<1>2. KnownInv'
  <2>1. ASSUME NEW x \in Req, Added(x)' \/ (req'[x].pc # "free" /\ req'[x].cards # NoCards) PROVE LoggedIn(x)'
    <3>1. (Drives \/ UNCHANGED serverVars) \/ \E r \in Req : Step(r)
      BY <1>0, PagesStep
    <3> QED  BY <1>0, <2>1, <3>1, KnownKept, KnownStep
  <2>2. \A t \in Tab : tab'[t].post_list # <<>> => Viewer(t) \in User
    BY <1>0, KnownPages
  <2> QED  BY <2>1, <2>2 DEF KnownInv, Viewer
<1>3. CASE \E r \in Req : ServerStep(r)
  <2>1. PICK r \in Req : Step(r) /\ UNCHANGED browserVars
    BY <1>3 DEF ServerStep, Step
  <2>2. VotedInv'
    BY <1>0, <2>1, VotedStep
  <2>3. \A t \in Tab : Quiet(t)'
    BY <1>0, <2>1, QuietStep
  <2> QED  BY <1>1, <1>2, <2>2, <2>3 DEF VoteInv
<1>4. CASE (\E t \in Tab : UserStep(t)) \/ (\E r \in Req : Ignore(r)) \/ (\E r \in Req, t \in Tab : Callback(r, t))
  <2>1. VotedInv'
    <3>1. \A x \in Req : Goes(x) \/ \E t \in Tab : Aims(t, x)
      BY <1>0, <1>4, PagesGo
    <3>2. Drives \/ UNCHANGED serverVars
      BY <1>0, <1>4, UserDrives, IgnoreDrives, CallbackDrives DEF DrivenInv
    <3> QED  BY <1>0, <3>1, <3>2, VotedPages
  <2>2. ASSUME NEW t \in Tab PROVE Quiet(t)'
    <3>1. ASSUME NEW u \in Tab, UserStep(u) PROVE Quiet(t)'
      BY <1>0, <3>1, QuietUser
    <3>2. ASSUME NEW r \in Req, Ignore(r) PROVE Quiet(t)'
      <4>1. tab' = tab /\ Ends(r)
        BY <1>0, <3>2, IgnoreMoves
      <4>2. Drives /\ \A x \in Req : Goes(x) /\ (Kept(x) \/ call'[x] = NoCall)
        BY <4>1, EndsStill
      <4> QED  BY <1>0, <4>1, <4>2, Elsewhere, QuietOn
    <3>3. ASSUME NEW r \in Req, NEW u \in Tab, Callback(r, u) PROVE Quiet(t)'
      BY <1>0, <3>3, QuietCallback
    <3> QED  BY <1>4, <3>1, <3>2, <3>3
  <2> QED  BY <1>1, <1>2, <2>1, <2>2 DEF VoteInv
<1> QED  BY <1>3, <1>4 DEF BrowserNext

\* As long as a user's votes are not overtaken by others of the same user (another page, a
\* second click, a reload while one is on its way), by a post submitted too early or by a
\* database error, a page on which none is on its way shows the votes that the table has.
THEOREM PagesAgreeOnVotes == BrowserSpec => []VotesAgree
<1>1. BrowserInit => VoteInv
  BY VotesStart
<1>2. PagesInv /\ PagesInv' /\ CommentInv /\ VoteInv /\ [BrowserNext]_vars => VoteInv'
  <2>1. ASSUME PagesInv, VoteInv, UNCHANGED vars PROVE VoteInv'
    <3>1. /\ tab' = tab /\ req' = req /\ call' = call
          /\ UNCHANGED <<posts, thumbs, faults>>
      BY <2>1 DEF vars, serverVars, browserVars, tables
    <3>2. OwnCalls' /\ KnownInv' /\ VotedInv'
      BY <2>1, <3>1 DEF VoteInv, OwnCalls, KnownInv, VotedInv, Added, Ready, LoggedIn, UserOf, Viewer
    <3>3. ASSUME NEW t \in Tab PROVE Quiet(t)'
      <4>1. StillPending(t) /\ StillReady
        BY <3>1 DEF StillPending, StillReady, Pending
      <4>2. Same(t) /\ SameThumbs(t)
        BY <3>1, Elsewhere
      <4>3. PagesTyped /\ DriftInv /\ VotedInv /\ Quiet(t)
        BY <2>1 DEF PagesInv, DrivenInv, VoteInv
      <4> QED  BY <3>1, <4>1, <4>2, <4>3, QuietSame
    <3> QED  BY <3>2, <3>3 DEF VoteInv
  <2> QED  BY <2>1, VotesStep
<1> QED  BY <1>1, <1>2, VotesEnough, CommentsStart, CommentsStayFit, PagesStart, PagesStay, PTL DEF BrowserSpec

=============================================================================
