------------------------------ MODULE PicServer ------------------------------
(***************************************************************************)
(* The PicLocal application server: the tables of models/tables.py and the *)
(* functions of controllers/api.py, each run by a thread of the web server *)
(* between Session.connect, which takes the lock of the caller's session   *)
(* file, and Session._close, which gives it back after the commit          *)
(* (gluon/main.py, wsgibase).                                              *)
(*                                                                         *)
(* A function that runs more than one SQL statement takes more than one    *)
(* step.  The database is SQLite through a pool of connections, one per    *)
(* thread: a SELECT opens no transaction, so that two SELECTs of a request *)
(* may see two states; what a request writes it writes in its last         *)
(* statement, and it becomes visible when the request commits.             *)
(***************************************************************************)
EXTENDS Integers, Sequences, FiniteSets

CONSTANTS
    User,         \* e-mail addresses of the registered users
    NoUser,       \* auth.user is None
    Session,      \* sessions that have a file under sessions/
    SessionUser,  \* who a session is logged in as
    Req,          \* places for a request under way: bounds concurrency
    NoReq,        \* no request
    Text,         \* captions and comment bodies, as positive numbers
    InitPosts,    \* the table post at the start
    MaxPosts,     \* bound on the rows of the table post
    MaxComments,  \* bound on the rows of the table comments
    MaxFaults     \* bound on the database errors of a behaviour

ASSUME UserAssumption == NoUser \notin User
ASSUME SessionAssumption ==
    SessionUser \in [Session -> User \cup {NoUser}] /\ IsFiniteSet(Session)
ASSUME ReqAssumption == NoReq \notin Req
ASSUME TextAssumption == Text \subseteq Nat \ {0}
ASSUME BoundAssumption == MaxPosts \in Nat /\ MaxComments \in Nat /\ MaxFaults \in Nat

VARIABLES
    posts,     \* table post: the row with id i is posts[i]
    thumbs,    \* table thumb
    comments,  \* table comments
    images,    \* table my_images
    lock,      \* the request that holds the lock of a session file
    req,       \* the requests under way
    faults     \* database errors so far

tables == <<posts, thumbs, comments, images>>
serverVars == <<tables, lock, req, faults>>

(***************************************************************************)
(* Data.  A vote switched off by its owner is stored as the empty string   *)
(* (jQuery sends an undefined value so); no row at all is JSON's null.     *)
(***************************************************************************)
Vote == {"u", "d", ""}
NoVote == "null"
NoText == 0

Post == [author : User, text : Text \cup {NoText}]
Thumb == [post : Nat, user : User, state : Vote]
Comment == [post : Nat, author : User, body : Text \cup {NoText}, mine : 0..1]
Image == [post : Nat, text : Text \cup {NoText}]

ASSUME PostsAssumption == InitPosts \in Seq(Post)

\* The functions of api.py that end in a write, in one statement or after a SELECT.
Inserts == {"add_post", "insert_comment"}
Upserts == {"set_thumb", "edit_content", "edit_comment", "my_comment", "post_image"}
Lists == {"get_post_list", "get_user_post_list"}
Reads == Lists \cup {"get_thumb_count_on_post", "get_comments", "get_image", "is_author", "logged_in"}
Op == Inserts \cup Upserts \cup Reads

\* A signed URL, or auth.user.email in the body: an anonymous call is refused or fails.
NeedsUser == (Inserts \cup Upserts \cup {"get_user_post_list", "get_image", "is_author"}) \ {"post_image"}

\* What the client sends: the id of the row meant, the id of a comment's post, a value,
\* a body or a picture, and the author it claims.
Query == [op : Op, sess : Session, id : Nat, post : Nat, val : Vote,
          text : Text \cup {NoText}, author : User \cup {NoUser}]

\* The query of a call, with the fields that its function reads.
Call(op, s, fields) ==
    [f \in {"op", "sess", "id", "post", "val", "text", "author"} |->
        IF f \in DOMAIN fields THEN fields[f]
        ELSE CASE f = "op" -> op
               [] f = "sess" -> s
               [] f = "val" -> ""
               [] f = "author" -> NoUser
               [] OTHER -> 0]

Card == [id : Nat, thumb : Vote \cup {NoVote}, count : Int]
Row == [id : Nat, post : Nat, author : User, body : Text \cup {NoText}, mine : 0..1]

Free == [pc |-> "free"]

-----------------------------------------------------------------------------
(* Reading the tables. *)

UserOf(r) == SessionUser[req[r].query.sess]

ThumbRows(p, u) == {i \in DOMAIN thumbs : thumbs[i].post = p /\ thumbs[i].user = u}
RowsWith(p, v) == {i \in DOMAIN thumbs : thumbs[i].post = p /\ thumbs[i].state = v}
Count(p) == Cardinality(RowsWith(p, "u")) - Cardinality(RowsWith(p, "d"))

\* table(query): the first row that matches, 0 for none.
FirstRow(S) == IF S = {} THEN 0 ELSE CHOOSE i \in S : \A j \in S : i <= j
\* The loop over the thumbs keeps the last one of the viewer.
LastRow(S) == CHOOSE i \in S : \A j \in S : i >= j

ThumbOf(p, u) == IF ThumbRows(p, u) = {} THEN NoVote ELSE thumbs[LastRow(ThumbRows(p, u))].state

Cards(n, u) == [i \in 1..n |-> [id |-> i, thumb |-> ThumbOf(i, u), count |-> Count(i)]]

CommentIds(p) == {i \in DOMAIN comments : comments[i].post = p}
ImageRows(p) == {i \in DOMAIN images : images[i].post = p}
Rows(p) == {[id |-> i, post |-> p, author |-> comments[i].author, body |-> comments[i].body,
             mine |-> comments[i].mine] : i \in CommentIds(p)}

-----------------------------------------------------------------------------
(* The life of a request. *)

At(r, pc, ops) == req[r].pc = pc /\ req[r].query.op \in ops
LoggedIn(r) == UserOf(r) \in User
Allowed(r) == req[r].query.op \in NeedsUser => LoggedIn(r)

\* A response with status 200 carries a number, cards, rows or nothing; status 500 and the
\* redirect of a refused call carry nothing that the pages read.
NoCards == <<>>
NoRows == {}
Finish(r, status, number, cards, rows) ==
    req' = [req EXCEPT ![r] = [pc |-> "done", query |-> req[r].query, seen |-> req[r].seen,
                               status |-> status, number |-> number, cards |-> cards, rows |-> rows]]
Answer(r, number) == Finish(r, 200, number, NoCards, NoRows)
AnswerCards(r, cards) == Finish(r, 200, 0, cards, NoRows)
AnswerRows(r, rows) == Finish(r, 200, 0, NoCards, rows)
AnswerDone(r) == Finish(r, 200, 0, NoCards, NoRows)
AnswerError(r) == Finish(r, 500, 0, NoCards, NoRows)
Keep(r, seen) == req' = [req EXCEPT ![r].pc = "half", ![r].seen = seen]

\* A request on its way to the server.
Sent(query) ==
    [pc |-> "sent", query |-> query, seen |-> 0, status |-> 200, number |-> 0,
     cards |-> NoCards, rows |-> NoRows]

\* How many calls of an insertion are still to run (for the bounds on the tables).
Unserved(op) == Cardinality({r \in Req : At(r, "sent", {op}) \/ At(r, "begun", {op})})

\* Clients open connections: batch gives some free places their queries.
Issue(batch) ==
    /\ \A r \in DOMAIN batch : req[r] = Free
    /\ req' = [r \in Req |->
                 IF r \in DOMAIN batch
                 THEN Sent(batch[r])
                 ELSE req[r]]
    /\ Unserved("add_post")' \in 0..(MaxPosts - Len(posts)) \cup {Unserved("add_post")}
    /\ Unserved("insert_comment")' \in
            0..(MaxComments - Len(comments)) \cup {Unserved("insert_comment")}
    /\ UNCHANGED <<tables, lock, faults>>

\* Slip: the lock is waited for but not kept, as after session.forget(response).
ConnectAndForget(r) ==
    /\ req[r].pc = "sent"
    /\ lock[req[r].query.sess] = NoReq
    /\ req' = [req EXCEPT ![r].pc = "begun"]
    /\ UNCHANGED <<tables, lock, faults>>

\* Session.connect: LOCK_EX on the session's file, and the session is loaded.
Connect(r) ==
    /\ req[r].pc = "sent"
    /\ lock[req[r].query.sess] = NoReq
    /\ lock' = [lock EXCEPT ![req[r].query.sess] = r]
    /\ req' = [req EXCEPT ![r].pc = "begun"]
    /\ UNCHANGED <<tables, faults>>

\* requires_signature redirects, or auth.user.email raises on None.
Refuse(r) ==
    /\ At(r, "begun", NeedsUser)
    /\ ~LoggedIn(r)
    /\ AnswerError(r)
    /\ UNCHANGED <<tables, lock, faults>>

\* Slip: an unchanged session is not closed, so that a request that only reads keeps it.
ReleaseChanged(r) ==
    /\ req[r].pc = "done"
    /\ lock' = IF req[r].query.op \in Reads THEN lock
               ELSE [lock EXCEPT ![req[r].query.sess] = NoReq]
    /\ req' = [req EXCEPT ![r].pc = "answered"]
    /\ UNCHANGED <<tables, faults>>

\* After the commit or the rollback: Session._close unlocks, and the response is sent.
Release(r) ==
    /\ req[r].pc = "done"
    /\ lock' = [lock EXCEPT ![req[r].query.sess] = NoReq]
    /\ req' = [req EXCEPT ![r].pc = "answered"]
    /\ UNCHANGED <<tables, faults>>

\* A response reaches the browser and the place is free again.
Receive(r) ==
    /\ req[r].pc = "answered"
    /\ req' = [req EXCEPT ![r] = Free]
    /\ UNCHANGED <<tables, lock, faults>>

-----------------------------------------------------------------------------
(* The functions of api.py that read. *)

\* logged_in and is_author look at the session and the arguments only.
AskSession(r) ==
    /\ \/ At(r, "begun", {"logged_in"}) /\ Answer(r, IF LoggedIn(r) THEN 1 ELSE 0)
       \/ /\ At(r, "begun", {"is_author"})
          /\ LoggedIn(r)
          /\ Answer(r, IF UserOf(r) = req[r].query.author THEN 1 ELSE 0)
    /\ UNCHANGED <<tables, lock, faults>>

\* get_post_list: select the posts, then select the thumbs and build the cards.  Its twin
\* get_user_post_list compares the user with the column post_author, which makes a query,
\* and a query counts as true: it lists the posts of all users.
SelectPosts(r) ==
    /\ At(r, "begun", Lists)
    /\ \/ LoggedIn(r) /\ Keep(r, Len(posts))
       \/ ~LoggedIn(r) /\ req[r].query.op = "get_post_list" /\ AnswerCards(r, NoCards)
    /\ UNCHANGED <<tables, lock, faults>>

SelectThumbs(r) ==
    /\ At(r, "half", Lists)
    /\ AnswerCards(r, Cards(req[r].seen, UserOf(r)))
    /\ UNCHANGED <<tables, lock, faults>>

\* Slip: the condition on thumb_state is lost.
CountAll(r) ==
    /\ At(r, "begun", {"get_thumb_count_on_post"})
    /\ Keep(r, Cardinality({i \in DOMAIN thumbs : thumbs[i].post = req[r].query.id}))
    /\ UNCHANGED <<tables, lock, faults>>

\* get_thumb_count_on_post: count the likes, then count the dislikes.
CountLikes(r) ==
    /\ At(r, "begun", {"get_thumb_count_on_post"})
    /\ Keep(r, Cardinality(RowsWith(req[r].query.id, "u")))
    /\ UNCHANGED <<tables, lock, faults>>

CountDislikes(r) ==
    /\ At(r, "half", {"get_thumb_count_on_post"})
    /\ Answer(r, req[r].seen - Cardinality(RowsWith(req[r].query.id, "d")))
    /\ UNCHANGED <<tables, lock, faults>>

GetComments(r) ==
    /\ At(r, "begun", {"get_comments"})
    /\ AnswerRows(r, Rows(req[r].query.id))
    /\ UNCHANGED <<tables, lock, faults>>

GetImage(r) ==
    LET i == FirstRow(ImageRows(req[r].query.id))
    IN  /\ At(r, "begun", {"get_image"})
        /\ LoggedIn(r)
        /\ Answer(r, IF i = 0 THEN NoText ELSE images[i].text)
        /\ UNCHANGED <<tables, lock, faults>>

-----------------------------------------------------------------------------
(* The functions that write. *)

\* Slip: the id is taken before the insertion.
AddPostOldId(r) ==
    /\ At(r, "begun", {"add_post"})
    /\ LoggedIn(r)
    /\ posts' = Append(posts, [author |-> UserOf(r), text |-> req[r].query.text])
    /\ Answer(r, Len(posts))
    /\ UNCHANGED <<thumbs, comments, images, lock, faults>>

AddPost(r) ==
    /\ At(r, "begun", {"add_post"})
    /\ LoggedIn(r)
    /\ posts' = Append(posts, [author |-> UserOf(r), text |-> req[r].query.text])
    /\ Answer(r, Len(posts) + 1)
    /\ UNCHANGED <<thumbs, comments, images, lock, faults>>

\* The author is the default of the column; mine starts at 0.
InsertComment(r) ==
    /\ At(r, "begun", {"insert_comment"})
    /\ LoggedIn(r)
    /\ req[r].query.post \in DOMAIN posts
    /\ comments' = Append(comments, [post |-> req[r].query.post, author |-> UserOf(r),
                                     body |-> req[r].query.text, mine |-> 0])
    /\ Answer(r, Len(comments) + 1)
    /\ UNCHANGED <<posts, thumbs, images, lock, faults>>

\* Slip: the key of the upsert lacks the user.
FindRecordOfPost(r) ==
    /\ At(r, "begun", {"set_thumb"})
    /\ LoggedIn(r)
    /\ Keep(r, FirstRow({i \in DOMAIN thumbs : thumbs[i].post = req[r].query.id}))
    /\ UNCHANGED <<tables, lock, faults>>

\* Slip: a picture is inserted, as comments are, and never looked for.
FindNoRecord(r) ==
    /\ At(r, "begun", {"post_image"})
    /\ Keep(r, 0)
    /\ UNCHANGED <<tables, lock, faults>>

\* Table.update_or_insert, first half: record = self(_key).
FindRecord(r) ==
    LET q == req[r].query
    IN  /\ \/ At(r, "begun", {"set_thumb"}) /\ Keep(r, FirstRow(ThumbRows(q.id, UserOf(r))))
           \/ /\ At(r, "begun", {"edit_content"})
              /\ IF UserOf(r) = q.author
                 THEN Keep(r, FirstRow({i \in DOMAIN posts : i = q.id}))
                 ELSE AnswerDone(r)      \* "not authorized", with status 200
           \/ /\ At(r, "begun", {"edit_comment", "my_comment"})
              /\ Keep(r, FirstRow({i \in DOMAIN comments : i = q.id}))
           \/ At(r, "begun", {"post_image"}) /\ Keep(r, FirstRow(ImageRows(q.id)))
        /\ Allowed(r)
        /\ UNCHANGED <<tables, lock, faults>>

\* Slip: a cleared vote is stored as NULL, which the type of the table's rows excludes.
StoreThumbNull(r) ==
    LET q == req[r].query
        row == [post |-> q.id, user |-> UserOf(r), state |-> IF q.val = "" THEN NoVote ELSE q.val]
    IN  /\ At(r, "half", {"set_thumb"})
        /\ \/ req[r].seen # 0 /\ thumbs' = [thumbs EXCEPT ![req[r].seen] = row]
           \/ req[r].seen = 0 /\ q.id \in DOMAIN posts /\ thumbs' = Append(thumbs, row)
        /\ AnswerDone(r)
        /\ UNCHANGED <<posts, comments, images, lock, faults>>

\* Second half: record.update_record(**values), or insert(**values).
StoreThumb(r) ==
    LET q == req[r].query
        row == [post |-> q.id, user |-> UserOf(r), state |-> q.val]
    IN  /\ At(r, "half", {"set_thumb"})
        /\ \/ req[r].seen # 0 /\ thumbs' = [thumbs EXCEPT ![req[r].seen] = row]
           \/ req[r].seen = 0 /\ q.id \in DOMAIN posts /\ thumbs' = Append(thumbs, row)
        /\ AnswerDone(r)
        /\ UNCHANGED <<posts, comments, images, lock, faults>>

StoreContent(r) ==
    /\ At(r, "half", {"edit_content"})
    /\ req[r].seen # 0
    /\ posts' = [posts EXCEPT ![req[r].seen].text = req[r].query.text]
    /\ AnswerDone(r)
    /\ UNCHANGED <<thumbs, comments, images, lock, faults>>

\* edit_comment sets the post and the body; my_comment the flag all viewers share.
StoreComment(r) ==
    LET q == req[r].query
        mine == IF UserOf(r) = q.author THEN 0 ELSE 1
        new == [post |-> 0, author |-> UserOf(r), body |-> NoText, mine |-> 0]
        old == IF req[r].seen = 0 THEN new ELSE comments[req[r].seen]
        row == IF q.op = "my_comment" THEN [old EXCEPT !.mine = mine]
               ELSE [old EXCEPT !.post = q.post, !.body = q.text]
    IN  /\ At(r, "half", {"edit_comment", "my_comment"})
        /\ row.post \in DOMAIN posts \cup {0}
        /\ comments' = IF req[r].seen = 0 THEN Append(comments, row)
                       ELSE [comments EXCEPT ![req[r].seen] = row]
        /\ AnswerDone(r)
        /\ UNCHANGED <<posts, thumbs, images, lock, faults>>

\* post_image answers the id of a new row, and None for an update.
StoreImage(r) ==
    LET q == req[r].query
        row == [post |-> q.id, text |-> q.text]
    IN  /\ At(r, "half", {"post_image"})
        /\ images' = IF req[r].seen = 0 THEN Append(images, row)
                     ELSE [images EXCEPT ![req[r].seen] = row]
        /\ Answer(r, IF req[r].seen = 0 THEN Len(images) + 1 ELSE 0)
        /\ UNCHANGED <<posts, thumbs, comments, lock, faults>>

\* The statement would refer to a post that is not there, or insert into the table post
\* with the column post_id that it does not have.
BadWrite(r) ==
    LET q == req[r].query
        orphan == q.post \notin DOMAIN posts
    IN  \/ At(r, "begun", {"insert_comment"}) /\ orphan
        \/ At(r, "half", {"set_thumb"}) /\ req[r].seen = 0 /\ q.id \notin DOMAIN posts
        \/ At(r, "half", {"edit_content"}) /\ req[r].seen = 0
        \/ At(r, "half", {"edit_comment"}) /\ orphan

\* The statement raises and the request is rolled back.
Invalid(r) ==
    /\ BadWrite(r)
    /\ LoggedIn(r)
    /\ AnswerError(r)
    /\ UNCHANGED <<tables, lock, faults>>

-----------------------------------------------------------------------------
(* Database errors. *)

Writing(r) == (At(r, "begun", Inserts) \/ At(r, "half", Upserts)) /\ Allowed(r)
Fault == faults < MaxFaults /\ faults' = faults + 1

\* "database is locked": the statement raises, wsgibase rolls back and answers 500.
Raise(r) ==
    /\ Writing(r)
    /\ Fault
    /\ AnswerError(r)
    /\ UNCHANGED <<tables, lock>>

\* The commit raises: ConnectionPool.close drops the connection and swallows the error,
\* and the client gets the answer of a success.
LoseCommit(r) ==
    /\ Writing(r)
    /\ ~BadWrite(r)
    /\ Fault
    /\ Answer(r, CASE req[r].query.op = "add_post" -> Len(posts) + 1
                   [] req[r].query.op = "insert_comment" -> Len(comments) + 1
                   [] At(r, "half", {"post_image"}) /\ req[r].seen = 0 -> Len(images) + 1
                   [] OTHER -> 0)
    /\ UNCHANGED <<tables, lock>>

-----------------------------------------------------------------------------

Init ==
    /\ posts = InitPosts
    /\ thumbs = <<>>
    /\ comments = <<>>
    /\ images = <<>>
    /\ lock = [s \in Session |-> NoReq]
    /\ req = [r \in Req |-> Free]
    /\ faults = 0

\* What a thread does for a request once it has the lock.
Read(r) ==
    \/ AskSession(r)
    \/ SelectPosts(r)
    \/ SelectThumbs(r)
    \/ CountLikes(r)
    \/ CountDislikes(r)
    \/ GetComments(r)
    \/ GetImage(r)

Write(r) ==
    \/ AddPost(r)
    \/ InsertComment(r)
    \/ FindRecord(r)
    \/ StoreThumb(r)
    \/ StoreContent(r)
    \/ StoreComment(r)
    \/ StoreImage(r)

Serve(r) == Refuse(r) \/ Read(r) \/ Write(r) \/ Invalid(r)

Step(r) == Connect(r) \/ Serve(r) \/ Raise(r) \/ LoseCommit(r) \/ Release(r)

\* Clients take answers and send queries as they like: what the pages send, and when, is
\* the matter of PicBrowser.
Clients ==
    /\ \A r \in Req :
          \/ req'[r] = req[r]
          \/ /\ req[r].pc \in {"free", "answered"}
             /\ req'[r] = Free \/ (req'[r].query \in Query /\ req'[r] = Sent(req'[r].query))
    /\ req' = [r \in Req |-> req'[r]]
    /\ UNCHANGED <<tables, lock, faults>>

Next == Clients \/ \E r \in Req : Step(r)

Spec == Init /\ [][Next]_serverVars

-----------------------------------------------------------------------------
(* Properties. *)

Running(r) == req[r].pc \in {"begun", "half", "done"}

Request == [pc : {"sent", "begun", "half", "done", "answered"}, query : Query, seen : Nat,
            status : {200, 500}, number : Int, cards : Seq(Card), rows : SUBSET Row]

\* The tables hold rows of their types and every request is free or well formed.
TypeOK ==
    /\ posts \in Seq(Post)
    /\ thumbs \in Seq(Thumb)
    /\ comments \in Seq(Comment)
    /\ images \in Seq(Image)
    /\ lock \in [Session -> Req \cup {NoReq}]
    /\ req \in [Req -> {Free} \cup Request]
    /\ faults \in Nat

\* The session file's lock serialises the requests of a session from connect to _close:
\* no two of them run api functions at once, whatever fails on the way.
SessionsInTurn ==
    \A r1, r2 \in Req :
        /\ Running(r1)
        /\ Running(r2)
        /\ req[r1].query.sess = req[r2].query.sess
        => r1 = r2

\* Every user is logged in from one browser at most.
OneSessionEach ==
    \A s1, s2 \in Session : SessionUser[s1] = SessionUser[s2] /\ SessionUser[s1] \in User => s1 = s2

\* set_thumb looks a row up and then updates or inserts, in two statements and no
\* transaction: the session's lock alone keeps a user at one row per post, as long as the
\* user has one session.
OneThumbPerUser ==
    OneSessionEach =>
        \A i, j \in DOMAIN thumbs :
            thumbs[i].post = thumbs[j].post /\ thumbs[i].user = thumbs[j].user => i = j

\* get_post_list and its twin read two tables one after the other while others vote; what it tells the
\* viewer of the viewer's own votes is still what the table says when the answer leaves.
OwnVotesExact ==
    OneSessionEach =>
        \A r \in Req : At(r, "done", Lists) =>
                \A k \in DOMAIN req[r].cards :
                    req[r].cards[k].thumb = ThumbOf(req[r].cards[k].id, UserOf(r))

RowsKept ==
    /\ \A i \in DOMAIN posts : i \in DOMAIN posts' /\ posts'[i].author = posts[i].author
    /\ \A i \in DOMAIN thumbs :
          /\ i \in DOMAIN thumbs'
          /\ thumbs'[i].post = thumbs[i].post
          /\ thumbs'[i].user = thumbs[i].user
    /\ \A i \in DOMAIN comments :
          i \in DOMAIN comments' /\ comments'[i].author = comments[i].author
    /\ \A i \in DOMAIN images : i \in DOMAIN images' /\ images'[i].post = images[i].post

\* No row of a table is ever lost, and a vote never moves to another post or user: what
\* update_record writes into the row found earlier is the row's own key.
RowsStay == [][RowsKept]_serverVars

-----------------------------------------------------------------------------
(* The inductive invariant behind these. *)

\* The holder of a session's lock is the one request of the session that is running.
LockInv ==
    \A s \in Session, r \in Req : lock[s] = r <=> Running(r) /\ req[r].query.sess = s

\* What the first statement of an update_or_insert found is still such a row.
StillThere(r) ==
    LET q == req[r].query
        i == req[r].seen
    IN  /\ q.op \in NeedsUser \cup Lists => LoggedIn(r)
        /\ q.op = "set_thumb" => i \in ThumbRows(q.id, UserOf(r)) \cup {0}
        /\ q.op = "edit_content" => i \in DOMAIN posts \cup {0}
        /\ q.op \in {"edit_comment", "my_comment"} => i \in DOMAIN comments \cup {0}
        /\ q.op = "post_image" => i \in ImageRows(q.id) \cup {0}

SeenInv == \A r \in Req : req[r].pc = "half" => StillThere(r)

\* And where it found none there is still none, when a user has one session.
NoneInv ==
    OneSessionEach =>
        \A r \in Req : At(r, "half", {"set_thumb"}) /\ req[r].seen = 0 =>
            ThumbRows(req[r].query.id, UserOf(r)) = {}

\* Between the two statements of an update_or_insert, what the first one found stays true.
UpsertInv == LockInv /\ SeenInv /\ NoneInv

\* The calls of post_image that are about to insert a row for p.
Inserting(p) == {r \in Req : /\ At(r, "half", {"post_image"})
                             /\ req[r].seen = 0
                             /\ req[r].query.id = p}

\* Nothing makes the image of a post unique: whoever posts one for a post without image
\* may be about to insert when another does.  But those are of different sessions, and
\* once there is a row all later calls find it: a post gets one row per session at most,
\* counting those on their way, over any number of calls.
ImagesPerPost ==
    \A p \in {images[i].post : i \in DOMAIN images} :
        Cardinality(ImageRows(p)) + Cardinality(Inserting(p)) <= Cardinality(Session)

-----------------------------------------------------------------------------

\* Every request is answered: no lock is kept by a request that was refused, was rolled
\* back or lost its commit.
EveryoneAnswered == \A r \in Req : req[r].pc = "sent" ~> req[r].pc = "answered"

=============================================================================
