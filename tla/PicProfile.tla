----------------------------- MODULE PicProfile -----------------------------
(***************************************************************************)
(* The page of static/js/profile.js against PicServer: it loads the list   *)
(* of posts once, asks the server of each post at once whether its viewer  *)
(* wrote it, counts the posts of the viewer as the answers come, in any    *)
(* order, and shows those posts and the number.  The page is served to     *)
(* logged-in users only (default.py, requires_login).                      *)
(*                                                                         *)
(* Left out: the methods of the page that profile.html has no control for  *)
(* (add_post, edit_post, edit_comment, the uploads).                       *)
(***************************************************************************)
EXTENDS PicServer

CONSTANTS
    Tab,          \* pages
    TabSession,   \* the session of a page's browser
    NoCall,       \* the answer will find no page
    Others,       \* calls that other pages make meanwhile
    MaxLoads      \* bound on how often a page is opened

ASSUME TabAssumption == TabSession \in [Tab -> Session]
ASSUME CallAssumption == NoCall \notin [tab : Tab, post : Nat]
ASSUME OthersAssumption == Others \subseteq Query
ASSUME LoginAssumption == \A t \in Tab : SessionUser[TabSession[t]] \in User

VARIABLES
    page,   \* the pages
    call,   \* per request, the page and the post its callback closes over
    loads   \* how often each page was opened

profileVars == <<page, call, loads>>
vars == <<serverVars, profileVars>>

Page == [state : {"new", "open", "loading", "loaded"},
         post_list : Seq([author : User, isMine : BOOLEAN]), num_posts : Nat]

NewPage == [state |-> "new", post_list |-> <<>>, num_posts |-> 0]

-----------------------------------------------------------------------------

Viewer(t) == SessionUser[TabSession[t]]

\* The script starts and waits for the position.
Open(t) ==
    /\ page[t].state = "new"
    /\ loads[t] < MaxLoads
    /\ loads' = [loads EXCEPT ![t] = @ + 1]
    /\ page' = [page EXCEPT ![t].state = "open"]
    /\ UNCHANGED <<serverVars, call>>

\* The position is known: get_posts().
Locate(t) ==
    /\ page[t].state = "open"
    /\ page' = [page EXCEPT ![t].state = "loading"]
    /\ \E r \in Req :
          /\ Issue([x \in {r} |-> Call("get_post_list", TabSession[t], <<>>)])
          /\ call' = [call EXCEPT ![r] = [tab |-> t, post |-> 0]]
    /\ UNCHANGED loads

\* The page is left or loaded again: no callback of it will run.
Leave(t) ==
    /\ page[t].state # "new"
    /\ loads[t] < MaxLoads
    /\ page' = [page EXCEPT ![t] = NewPage]
    /\ call' = [r \in Req |-> IF call[r] # NoCall /\ call[r].tab = t THEN NoCall ELSE call[r]]
    /\ UNCHANGED <<serverVars, loads>>

Answered(r, t, op) ==
    /\ At(r, "answered", {op})
    /\ call[r] # NoCall
    /\ call[r].tab = t
    /\ req[r].status = 200

\* get_posts: the list is shown, and isAuthor asks about each of its posts.  (The answer
\* carries the authors; PicServer leaves them out, since they never change.)
OnPostList(r, t) ==
    LET cards == req[r].cards
        author(i) == posts[cards[i].id].author
    IN  /\ Answered(r, t, "get_post_list")
        /\ page' = [page EXCEPT ![t].state = "loaded",
                                ![t].post_list = [i \in DOMAIN cards |->
                                                    [author |-> author(i), isMine |-> FALSE]]]
        /\ \E place \in [DOMAIN cards -> {x \in Req : x = r \/ req[x] = Free}] :
              LET asked == {place[i] : i \in DOMAIN cards}
                  post(x) == CHOOSE i \in DOMAIN cards : place[i] = x
              IN  /\ \A i, j \in DOMAIN cards : place[i] = place[j] => i = j
                  /\ req' = [x \in Req |->
                               IF x \in asked
                               THEN Sent(Call("is_author", TabSession[t], [author |-> author(post(x))]))
                               ELSE IF x = r THEN Free
                               ELSE req[x]]
                  /\ call' = [x \in Req |->
                               IF x \in asked THEN [tab |-> t, post |-> post(x)]
                               ELSE IF x = r THEN NoCall
                               ELSE call[x]]
        /\ UNCHANGED <<tables, lock, faults, loads>>

\* Slip: every answer counts.
OnAuthorAlways(r, t) ==
    /\ Answered(r, t, "is_author")
    /\ page' = [page EXCEPT ![t].post_list[call[r].post].isMine = req[r].number = 1,
                            ![t].num_posts = @ + 1]
    /\ Receive(r)
    /\ call' = [call EXCEPT ![r] = NoCall]
    /\ UNCHANGED loads

\* The callback of isAuthor has the post itself, not its position.
OnAuthor(r, t) ==
    /\ Answered(r, t, "is_author")
    /\ page' = [page EXCEPT ![t].post_list[call[r].post].isMine = req[r].number = 1,
                            ![t].num_posts = @ + req[r].number]
    /\ Receive(r)
    /\ call' = [call EXCEPT ![r] = NoCall]
    /\ UNCHANGED loads

\* An answer for a page that is gone, or for another page.
Ignore(r) ==
    /\ call[r] = NoCall
    /\ Receive(r)
    /\ UNCHANGED profileVars

\* Other pages post meanwhile, one after the other.
Other(r) ==
    /\ \A x \in Req : req[x] # Free => req[x].query \notin Others
    /\ \E q \in Others : Issue([x \in {r} |-> q])
    /\ UNCHANGED profileVars

ServerStep(r) == Step(r) /\ UNCHANGED profileVars

-----------------------------------------------------------------------------

ProfileInit ==
    /\ Init
    /\ page = [t \in Tab |-> NewPage]
    /\ call = [r \in Req |-> NoCall]
    /\ loads = [t \in Tab |-> 0]

Callback(r, t) == OnPostList(r, t) \/ OnAuthor(r, t)

ProfileNext ==
    \/ \E t \in Tab : Open(t) \/ Locate(t) \/ Leave(t)
    \/ \E r \in Req : Ignore(r) \/ Other(r) \/ ServerStep(r) \/ \E t \in Tab : Callback(r, t)

ProfileSpec == ProfileInit /\ [][ProfileNext]_vars

\* A thread of the server that can run runs, a session's waiters take its lock in turn,
\* and answers arrive.
ProfileFairness ==
    \A r \in Req :
        /\ WF_vars(Serve(r) /\ UNCHANGED profileVars)
        /\ WF_vars(Release(r) /\ UNCHANGED profileVars)
        /\ SF_vars(Connect(r) /\ UNCHANGED profileVars)
        /\ WF_vars(Ignore(r))
        /\ SF_vars(\E t \in Tab : Callback(r, t))

FairProfileSpec == ProfileSpec /\ ProfileFairness

-----------------------------------------------------------------------------
(* Properties. *)

Own(t) == {i \in DOMAIN page[t].post_list : page[t].post_list[i].author = Viewer(t)}

\* The posts that the page shows: those it knows to be the viewer's.
Gallery(t) == {i \in DOMAIN page[t].post_list : page[t].post_list[i].isMine}

\* The number a page shows is the number of posts it shows, these are the viewer's, and what
\* is missing is on its way: each missing post has its own call, which a reload makes void.
CountsOwn ==
    \A t \in Tab :
        LET asked == {r \in Req : call[r] # NoCall /\ call[r].tab = t /\ call[r].post \in Own(t)}
        IN  /\ page[t].num_posts = Cardinality(Gallery(t))
            /\ Gallery(t) \subseteq Own(t)
            /\ Own(t) \ Gallery(t) = {call[r].post : r \in asked}
            /\ Cardinality(asked) = Cardinality(Own(t) \ Gallery(t))

\* A page that asked for its list comes to show all posts of its viewer in it, however its
\* calls queue up at the lock of the session, unless it is left.
ShowsOwn ==
    \A t \in Tab :
        page[t].state = "loading" ~>
            page[t].state = "new" \/ (page[t].state = "loaded" /\ Gallery(t) = Own(t))

=============================================================================
