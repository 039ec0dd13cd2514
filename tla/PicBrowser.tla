----------------------------- MODULE PicBrowser -----------------------------
(***************************************************************************)
(* The pages that run static/js/default_index.js (Vue and jQuery) against  *)
(* PicServer.  A page keeps a list of posts and changes it in the          *)
(* callbacks of its Ajax calls.  A callback finds its post by the position *)
(* the post had when the call was made, the calls of a page travel over    *)
(* several connections and are answered in any order, and no call has an   *)
(* error callback.                                                         *)
(*                                                                         *)
(* Left out: hovering (_thumb_state), isMine and the calls of is_author    *)
(* that set it (the index page shows nothing of it), the open or closed    *)
(* editors of comments, which are local to the page.                       *)
(***************************************************************************)
EXTENDS PicServer

CONSTANTS
    Tab,          \* pages
    TabSession,   \* the session of a page's browser
    Far,          \* the posts that are over 10 km away from a page's position
    NoCall,       \* the answer will find no page
    NoCount,      \* the undefined thumb_count of a post that was just added
    Gestures,     \* what the users of this instance do: u, d (votes), post, comment, edit
    MaxLoads      \* bound on how often a page is opened

ASSUME TabAssumption == TabSession \in [Tab -> Session] /\ Far \in [Tab -> SUBSET Nat]

VARIABLES
    tab,    \* the pages
    call,   \* per request, what its callback closes over
    loads   \* how often each page was opened

browserVars == <<tab, call, loads>>
vars == <<serverVars, browserVars>>

-----------------------------------------------------------------------------

\* A page: state is new, open, loading or loaded; added counts the posts unshifted into the
\* list, early tells that one was submitted before the list came, and raced that the network
\* had a chance to reorder the user's votes; these three are only for the properties.
NewPage == [state |-> "new", post_list |-> <<>>, loggedIn |-> FALSE, showForm |-> FALSE,
            button |-> TRUE, draft |-> NoText, added |-> 0, early |-> FALSE, raced |-> FALSE]

\* The flag mine of a comment that the page itself inserted.
Undefined == 2

-----------------------------------------------------------------------------
(* Making calls.  asks gives some free places a query and a position each. *)

Ask(t, asks) ==
    /\ Issue([r \in DOMAIN asks |-> asks[r].query])
    /\ call' = [r \in Req |->
                  IF r \in DOMAIN asks
                  THEN [tab |-> t, idx |-> asks[r].idx, added |-> tab[t].added]
                  ELSE call[r]]

Ask1(t, op, fields, idx) ==
    \E r \in Req : Ask(t, [x \in {r} |-> [query |-> Call(op, TabSession[t], fields), idx |-> idx]])

\* enumerate: every process_posts resets what the page knows beyond the list itself.
Enumerate(list) == [i \in DOMAIN list |-> [list[i] EXCEPT !.showComments = FALSE, !.comments = <<>>]]

Entries(cards) ==
    [i \in DOMAIN cards |-> [id |-> cards[i].id, thumb |-> cards[i].thumb, count |-> cards[i].count,
                             showComments |-> FALSE, comments |-> <<>>]]

-----------------------------------------------------------------------------
(* What the user and the page do. *)

\* What the page offers: two thumbs under each post, its comments while they are open, and
\* the editor for the comments that are marked with mine = 0.
Thumbs == {"u", "d"}
CommentsOpen(t, i) == tab[t].post_list[i].showComments
Editable(c) == c.mine = 0

\* The rows of a table in the order of their ids, in which SQLite returns them.
InOrder(rows) ==
    {list \in [1..Cardinality(rows) -> rows] :
        \A i, j \in DOMAIN list : i < j => list[i].id < list[j].id}

\* inRange: the posts within 10 km.
Near(t, cards) == {cards[i] : i \in {k \in DOMAIN cards : cards[k].id \notin Far[t]}}

\* Votes on a post that a session sent and the server has not stored yet.
Unstored(s, posted) ==
    {r \in Req : /\ req[r].pc \in {"sent", "begun", "half"}
                 /\ req[r].query.op = "set_thumb"
                 /\ req[r].query.sess = s
                 /\ req[r].query.id \in posted}

Racing(t, posted) == Unstored(TabSession[t], posted) # {}

\* The script starts: isLoggedIn() asks who the user is.
Open(t) ==
    /\ tab[t].state = "new"
    /\ loads[t] < MaxLoads
    /\ loads' = [loads EXCEPT ![t] = @ + 1]
    /\ tab' = [tab EXCEPT ![t].state = "open"]
    /\ Ask1(t, "logged_in", <<>>, 0)

\* The position is known: get_posts().
Locate(t) ==
    /\ tab[t].state = "open"
    /\ tab' = [tab EXCEPT ![t].state = "loading", ![t].raced = Racing(t, DOMAIN posts)]
    /\ Ask1(t, "get_post_list", <<>>, 0)
    /\ UNCHANGED loads

\* The page is left or loaded again: no callback of it will run.
Leave(t) ==
    /\ tab[t].state # "new"
    /\ loads[t] < MaxLoads
    /\ tab' = [tab EXCEPT ![t] = NewPage]
    /\ call' = [r \in Req |-> IF call[r] # NoCall /\ call[r].tab = t THEN NoCall ELSE call[r]]
    /\ UNCHANGED <<serverVars, loads>>

\* v-if creates the form and its button anew.
ToggleForm(t) ==
    /\ "post" \in Gestures
    /\ tab[t].state # "new"
    /\ tab' = [tab EXCEPT ![t].showForm = ~@, ![t].button = TRUE]
    /\ UNCHANGED <<serverVars, call, loads>>

FormVisible(t) == tab[t].loggedIn /\ tab[t].showForm

Type(t, x) ==
    /\ FormVisible(t)
    /\ x # tab[t].draft
    /\ tab' = [tab EXCEPT ![t].draft = x]
    /\ UNCHANGED <<serverVars, call, loads>>

\* The button's handler: add_post() disables the button and posts, toggle_form() follows.
Submit(t) ==
    /\ FormVisible(t)
    /\ tab[t].button
    /\ tab[t].draft # NoText
    /\ Ask1(t, "add_post", [text |-> tab[t].draft], 0)
    /\ tab' = [tab EXCEPT ![t].button = FALSE, ![t].showForm = FALSE,
                          ![t].early = @ \/ tab[t].state # "loaded"]
    /\ UNCHANGED loads

\* Slip: a cleared vote is sent as JSON's null, which set_thumb would store.
ClickThumbNull(t, i, v) ==
    LET p == tab[t].post_list[i]
        next == IF p.thumb = v THEN NoVote ELSE v
    IN  /\ v \in Gestures
        /\ tab' = [tab EXCEPT ![t].post_list[i].thumb = next,
                              ![t].raced = @ \/ Racing(t, {p.id})]
        /\ Ask1(t, "set_thumb", [id |-> p.id, val |-> next], i)
        /\ UNCHANGED loads

\* Slip: the state clicked is sent, not the state that results.
ClickThumbRaw(t, i, v) ==
    LET p == tab[t].post_list[i]
    IN  /\ v \in Gestures
        /\ tab' = [tab EXCEPT ![t].post_list[i].thumb = IF p.thumb = v THEN NoVote ELSE v,
                              ![t].raced = @ \/ Racing(t, {p.id})]
        /\ Ask1(t, "set_thumb", [id |-> p.id, val |-> v], i)
        /\ UNCHANGED loads

\* set_thumbclick: the list changes at once; a second click on a thumb clears it.
ClickThumb(t, i, v) ==
    LET p == tab[t].post_list[i]
        off == p.thumb = v
    IN  /\ v \in Gestures
        /\ tab' = [tab EXCEPT ![t].post_list[i].thumb = IF off THEN NoVote ELSE v,
                              ![t].raced = @ \/ Racing(t, {p.id})]
        /\ Ask1(t, "set_thumb", [id |-> p.id, val |-> IF off THEN "" ELSE v], i)
        /\ UNCHANGED loads

\* showComments asks for the comments and, while the old ones are still in the list, tells
\* the server of each whether this user wrote it.
ShowComments(t, i) ==
    LET p == tab[t].post_list[i]
        s == TabSession[t]
        asked(k) == IF k = 0 THEN Call("get_comments", s, [id |-> p.id])
                    ELSE Call("my_comment", s, [id |-> p.comments[k].id,
                                                author |-> p.comments[k].author])
    IN  /\ "comment" \in Gestures
        /\ ~CommentsOpen(t, i)
        /\ \E place \in [0..Len(p.comments) -> Req] :
              /\ \A j, k \in DOMAIN place : place[j] = place[k] => j = k
              /\ Ask(t, [r \in {place[k] : k \in DOMAIN place} |->
                           LET k == CHOOSE j \in DOMAIN place : place[j] = r
                           IN  [query |-> asked(k), idx |-> IF k = 0 THEN i ELSE 0]])
        /\ tab' = [tab EXCEPT ![t].post_list[i].showComments = TRUE]
        /\ UNCHANGED loads

HideComments(t, i) ==
    /\ CommentsOpen(t, i)
    /\ tab' = [tab EXCEPT ![t].post_list[i].showComments = FALSE]
    /\ UNCHANGED <<serverVars, call, loads>>

\* Slip: the position is sent for the id.
SaveCommentAt(t, i, x) ==
    /\ CommentsOpen(t, i)
    /\ Ask1(t, "insert_comment", [post |-> i, text |-> x], i)
    /\ UNCHANGED <<tab, loads>>

SaveComment(t, i, x) ==
    /\ CommentsOpen(t, i)
    /\ Ask1(t, "insert_comment", [post |-> tab[t].post_list[i].id, text |-> x], i)
    /\ UNCHANGED <<tab, loads>>

\* The editor writes into the comment on screen, and Save sends it.
EditComment(t, i, k, x) ==
    LET c == tab[t].post_list[i].comments[k]
    IN  /\ "edit" \in Gestures
        /\ CommentsOpen(t, i)
        /\ Editable(c)
        /\ x # c.body
        /\ tab' = [tab EXCEPT ![t].post_list[i].comments[k].body = x]
        /\ Ask1(t, "edit_comment", [id |-> c.id, post |-> c.post, text |-> x], 0)
        /\ UNCHANGED loads

-----------------------------------------------------------------------------
(* The callbacks of successful calls. *)

\* The answer to r has come to the page that asked, with status 200.
Answered(r, t, ops) ==
    /\ At(r, "answered", ops)
    /\ call[r] # NoCall
    /\ call[r].tab = t
    /\ req[r].status = 200

EndCall(r) == Receive(r) /\ call' = [call EXCEPT ![r] = NoCall] /\ UNCHANGED loads

OnLoggedIn(r, t) ==
    /\ Answered(r, t, {"logged_in"})
    /\ tab' = [tab EXCEPT ![t].loggedIn = req[r].number = 1]
    /\ EndCall(r)

\* The posts within 10 km replace the list, in the order they came in.
OnPostList(r, t) ==
    /\ Answered(r, t, {"get_post_list"})
    /\ \E list \in InOrder(Near(t, req[r].cards)) :
          tab' = [tab EXCEPT ![t].state = "loaded", ![t].post_list = Entries(list)]
    /\ EndCall(r)

\* Slip: push instead of unshift.
OnPostAddedLast(r, t) ==
    LET new == [id |-> req[r].number, thumb |-> NoVote, count |-> NoCount,
                showComments |-> FALSE, comments |-> <<>>]
    IN  /\ Answered(r, t, {"add_post"})
        /\ tab' = [tab EXCEPT ![t].button = TRUE, ![t].draft = NoText, ![t].added = @ + 1,
                              ![t].post_list = Enumerate(Append(@, new))]
        /\ EndCall(r)

\* The button is enabled, the form cleared and the post put in front of the others.
OnPostAdded(r, t) ==
    LET new == [id |-> req[r].number, thumb |-> NoVote, count |-> NoCount,
                showComments |-> FALSE, comments |-> <<>>]
    IN  /\ Answered(r, t, {"add_post"})
        /\ tab' = [tab EXCEPT ![t].button = TRUE, ![t].draft = NoText, ![t].added = @ + 1,
                              ![t].post_list = Enumerate(<<new>> \o @)]
        /\ EndCall(r)

\* The vote is stored: ask for the new count of the post.
OnThumbSet(r, t) ==
    /\ Answered(r, t, {"set_thumb"})
    /\ req' = [req EXCEPT ![r] =
                 Sent(Call("get_thumb_count_on_post", TabSession[t], [id |-> req[r].query.id]))]
    /\ UNCHANGED <<tables, lock, faults, browserVars>>

\* These write into whatever post is at the captured position by now (nothing, when the
\* list became shorter: the callback raises).
OnCount(r, t) ==
    /\ Answered(r, t, {"get_thumb_count_on_post"})
    /\ tab' = [tab EXCEPT ![t].post_list[call[r].idx].count = req[r].number]
    /\ EndCall(r)

OnComments(r, t) ==
    /\ Answered(r, t, {"get_comments"})
    /\ \E list \in InOrder(req[r].rows) :
          tab' = [tab EXCEPT ![t].post_list[call[r].idx].comments = list]
    /\ EndCall(r)

OnCommentSaved(r, t) ==
    LET q == req[r].query
        new == [id |-> req[r].number, post |-> q.post, author |-> UserOf(r), body |-> q.text,
                mine |-> Undefined]
    IN  /\ Answered(r, t, {"insert_comment"})
        /\ tab' = [tab EXCEPT ![t].post_list[call[r].idx].comments = Append(@, new)]
        /\ EndCall(r)

\* No callback, or one that only logs; an error; a page that is gone.
Ignore(r) ==
    /\ req[r].pc = "answered"
    /\ call[r] = NoCall \/ req[r].status # 200 \/ req[r].query.op \in {"edit_comment", "my_comment"}
    /\ EndCall(r)
    /\ UNCHANGED tab

-----------------------------------------------------------------------------

BrowserInit ==
    /\ Init
    /\ tab = [t \in Tab |-> NewPage]
    /\ call = [r \in Req |-> NoCall]
    /\ loads = [t \in Tab |-> 0]

UserStep(t) ==
    \/ Open(t)
    \/ Locate(t)
    \/ Leave(t)
    \/ ToggleForm(t)
    \/ \E x \in Text : Type(t, x)
    \/ Submit(t)
    \/ \E i \in DOMAIN tab[t].post_list :
          \/ \E v \in Thumbs : ClickThumb(t, i, v)
          \/ ShowComments(t, i)
          \/ HideComments(t, i)
          \/ \E x \in Text : SaveComment(t, i, x)
          \/ \E k \in DOMAIN tab[t].post_list[i].comments, x \in Text : EditComment(t, i, k, x)

Callback(r, t) ==
    \/ OnLoggedIn(r, t)
    \/ OnPostList(r, t)
    \/ OnPostAdded(r, t)
    \/ OnThumbSet(r, t)
    \/ OnCount(r, t)
    \/ OnComments(r, t)
    \/ OnCommentSaved(r, t)

ServerStep(r) ==
    /\ Connect(r) \/ Serve(r) \/ Raise(r) \/ LoseCommit(r) \/ Release(r)
    /\ UNCHANGED browserVars

BrowserNext ==
    \/ \E t \in Tab : UserStep(t)
    \/ \E r \in Req : ServerStep(r) \/ Ignore(r) \/ \E t \in Tab : Callback(r, t)

BrowserSpec == BrowserInit /\ [][BrowserNext]_vars

-----------------------------------------------------------------------------
(* Properties. *)

\* A callback finds its post as many places after the captured position as posts were
\* added to the page since the call: what is on its way lands on its own post if, and only
\* if, none was added meanwhile.  (A page that submitted a post before its list came may
\* have shown it in a list that was then replaced: there all positions are lost.)
CallbackDrift ==
    \A r \in Req : call[r] # NoCall /\ call[r].idx # 0 /\ ~tab[call[r].tab].early =>
        LET page == tab[call[r].tab]
            place == call[r].idx + page.added - call[r].added
            q == req[r].query
        IN  /\ place \in DOMAIN page.post_list
            /\ page.post_list[place].id = IF q.op = "insert_comment" THEN q.post ELSE q.id

\* As long as no post was added to the page, the comments shown under a post are comments
\* on that post.
CommentsUnderOwnPost ==
    \A t \in Tab : tab[t].added = 0 =>
        \A i \in DOMAIN tab[t].post_list :
            LET p == tab[t].post_list[i]
            IN  \A k \in DOMAIN p.comments :
                    /\ p.comments[k].post = p.id
                    /\ faults = 0 => /\ p.comments[k].id \in DOMAIN comments
                                     /\ comments[p.comments[k].id].post = p.id

\* A page that did not submit a post before its list came shows no post twice, and shows
\* each post it added.
PostsOnce ==
    \A t \in Tab : ~tab[t].early /\ faults = 0 =>
        \A i, j \in DOMAIN tab[t].post_list :
            tab[t].post_list[i].id = tab[t].post_list[j].id => i = j

\* The empty string of a cleared vote and null look the same.
Look(v) == IF v = "" THEN NoVote ELSE v

\* The user has this page only.
OnlyPage(t) == \A x \in Tab : TabSession[x] = TabSession[t] => x = t

\* A page shows a click before the server knows of it and never checks.  Still, when its
\* votes on a post are stored, the page and the table agree on the user's vote, provided
\* that the user has this page only, that it was neither loaded nor clicked on again while
\* a vote was on its way, that it submitted no post before its list came (it may show that
\* one twice, and a click changes one of them), and that no database error hit: there is no
\* error callback.
VotesAgree ==
    OneSessionEach =>
        \A t \in Tab :
            /\ OnlyPage(t) /\ tab[t].state = "loaded"
            /\ ~tab[t].raced /\ ~tab[t].early /\ faults = 0
            => \A i \in DOMAIN tab[t].post_list :
                  LET p == tab[t].post_list[i]
                  IN  ~Racing(t, {p.id}) =>
                          Look(p.thumb) = Look(ThumbOf(p.id, SessionUser[TabSession[t]]))

\* "We disable the button, to prevent double submission" (default_index.js:65): while a
\* post is on its way, its page does not send the same post again.
NoDoubleSubmission ==
    \A r1, r2 \in Req :
        /\ call[r1] # NoCall /\ call[r2] # NoCall
        /\ call[r1].tab = call[r2].tab
        /\ req[r1].query.op = "add_post" /\ req[r2].query.op = "add_post"
        /\ req[r1].query.text = req[r2].query.text
        => r1 = r2

\* The pages drive the server only in ways that PicServer allows, so that what holds of
\* PicServer holds with the pages.
ServerSpec == Spec

=============================================================================
