--------------------------- MODULE PicServerProof ---------------------------
(***************************************************************************)
(* Theorems of PicServer, for any number of users, sessions, concurrent    *)
(* requests and rows.                                                      *)
(***************************************************************************)
EXTENDS PicServer, TLAPS, FiniteSetTheorems, SequenceTheorems, WellFoundedInduction

-----------------------------------------------------------------------------
(* The first and the last row of a query. *)

\* The less-than relation on the naturals has no infinite descent.
LEMMA NatOrder == IsWellFoundedOn({ss \in Nat \X Nat : ss[1] < ss[2]}, Nat)
BY NatLessThanWellFounded DEF OpToRel

\* What table(query) returns is one of the rows that match, if there is one.
LEMMA FirstMatches ==
    ASSUME NEW S, S \subseteq Nat, S # {}
    PROVE  FirstRow(S) \in S
<1> DEFINE R == {ss \in Nat \X Nat : ss[1] < ss[2]}
<1>1. PICK i \in S : \A j \in S : ~(<<j, i>> \in R)
    <2> HIDE DEF R
    <2> QED
        BY NatOrder, WFMin DEF R
<1>2. ASSUME NEW j \in S PROVE i <= j
    <2>1. <<j, i>> \in Nat \X Nat /\ <<j, i>> \notin R
        BY <1>1
    <2>2. ~(<<j, i>>[1] < <<j, i>>[2])
        BY <2>1
    <2> QED
        BY <2>2
<1> QED
    BY <1>2 DEF FirstRow

\* The loop of get_post_list over the thumbs of a post ends with one of them.
LEMMA LastMatches ==
    ASSUME NEW n \in Nat, NEW S, S \subseteq 1..n, S # {}
    PROVE  LastRow(S) \in S
<1> DEFINE R == {ss \in Nat \X Nat : ss[1] < ss[2]}
           T == {n - i : i \in S}
<1>1. T \subseteq Nat /\ T # {}
    <2>1. \A i \in S : n - i \in Nat
        OBVIOUS
    <2>2. PICK i \in S : TRUE
        OBVIOUS
    <2>3. n - i \in T
        OBVIOUS
    <2> QED
        BY <2>1, <2>3
<1>2. PICK k \in T : \A j \in T : ~(<<j, k>> \in R)
    <2> HIDE DEF R, T
    <2> QED
        BY <1>1, NatOrder, WFMin DEF R
<1>3. PICK i \in S : k = n - i
    OBVIOUS
<1>4. ASSUME NEW j \in S PROVE i >= j
    <2>1. <<n - j, k>> \in Nat \X Nat /\ <<n - j, k>> \notin R
        BY <1>1, <1>2
    <2>2. ~(<<n - j, k>>[1] < <<n - j, k>>[2])
        BY <2>1
    <2> QED
        BY <1>3, <2>2
<1> QED
    BY <1>4 DEF LastRow

-----------------------------------------------------------------------------
(* Types of what the functions compute. *)

LEMMA InRequest ==
    ASSUME TypeOK, NEW r \in Req, req[r].pc # "free"
    PROVE  req[r] \in Request
BY DEF TypeOK, Free

LEMMA QueryTyped ==
    ASSUME NEW x \in Request
    PROVE  /\ x.pc \in {"sent", "begun", "half", "done", "answered"}
           /\ x.query \in Query
           /\ x.seen \in Nat /\ x.status \in {200, 500} /\ x.number \in Int
           /\ x.cards \in Seq(Card) /\ x.rows \subseteq Row
           /\ x.query.op \in Op /\ x.query.sess \in Session
           /\ x.query.id \in Nat /\ x.query.post \in Nat
           /\ x.query.val \in Vote /\ x.query.text \in Text \cup {NoText}
BY DEF Request, Query

\* The rows of a table are finitely many, so that counting them gives a number.
LEMMA CountTyped ==
    ASSUME TypeOK, NEW p, NEW v
    PROVE  Cardinality(RowsWith(p, v)) \in Nat
<1>1. IsFiniteSet(1..Len(thumbs))
    BY FS_Interval DEF TypeOK
<1>2. RowsWith(p, v) \subseteq 1..Len(thumbs)
    BY DEF TypeOK, RowsWith
<1>3. IsFiniteSet(RowsWith(p, v))
    BY <1>1, <1>2, FS_Subset
<1> QED
    BY <1>3, FS_CardinalityType

LEMMA ThumbOfTyped ==
    ASSUME TypeOK, NEW p, NEW u
    PROVE  ThumbOf(p, u) \in Vote \cup {NoVote}
<1>1. CASE ThumbRows(p, u) = {}
    BY <1>1 DEF ThumbOf
<1>2. CASE ThumbRows(p, u) # {}
    <2>1. ThumbRows(p, u) \subseteq 1..Len(thumbs) /\ Len(thumbs) \in Nat
        BY DEF TypeOK, ThumbRows
    <2>2. LastRow(ThumbRows(p, u)) \in 1..Len(thumbs)
        BY <1>2, <2>1, LastMatches
    <2>3. thumbs[LastRow(ThumbRows(p, u))] \in Thumb
        BY <2>2 DEF TypeOK
    <2> QED
        BY <1>2, <2>3 DEF ThumbOf, Thumb
<1> QED
    BY <1>1, <1>2

LEMMA CardsTyped ==
    ASSUME TypeOK, NEW n \in Nat, NEW u
    PROVE  Cards(n, u) \in Seq(Card)
<1>1. ASSUME NEW i \in 1..n
      PROVE  [id |-> i, thumb |-> ThumbOf(i, u), count |-> Count(i)] \in Card
    <2>1. Count(i) \in Int
        BY CountTyped DEF Count
    <2> QED
        BY <2>1, ThumbOfTyped DEF Card
<1>2. Cards(n, u) \in [1..n -> Card]
    BY <1>1 DEF Cards
<1> QED
    BY <1>2, IsASeq

LEMMA RowsTyped ==
    ASSUME TypeOK, NEW p \in Nat
    PROVE  Rows(p) \subseteq Row
<1>1. ASSUME NEW i \in CommentIds(p)
      PROVE  [id |-> i, post |-> p, author |-> comments[i].author, body |-> comments[i].body,
              mine |-> comments[i].mine] \in Row
    <2>1. i \in Nat /\ comments[i] \in Comment
        BY DEF TypeOK, CommentIds
    <2> QED
        BY <2>1 DEF Comment, Row
<1> QED
    BY <1>1 DEF Rows

-----------------------------------------------------------------------------
(* What a step does to the requests. *)

\* r goes from one of the places in from to one of those in to, and keeps its query; no
\* other request moves.
Moves(r, from, to) ==
    /\ req[r] \in Request
    /\ req[r].pc \in from
    /\ \E x \in Request :
          /\ x.query = req[r].query
          /\ x.pc \in to
          /\ req' = [req EXCEPT ![r] = x]

LEMMA NothingTyped == NoCards \in Seq(Card) /\ NoRows \subseteq Row
BY DEF NoCards, NoRows

LEMMA FinishMoves ==
    ASSUME TypeOK, NEW r \in Req, req[r].pc \in {"begun", "half"},
           NEW status, NEW number, NEW cards, NEW rows,
           status \in {200, 500}, number \in Int, cards \in Seq(Card), rows \subseteq Row,
           Finish(r, status, number, cards, rows)
    PROVE  Moves(r, {"begun", "half"}, {"done"})
<1>1. req[r] \in Request
    BY InRequest
<1> DEFINE x == [pc |-> "done", query |-> req[r].query, seen |-> req[r].seen, status |-> status,
                 number |-> number, cards |-> cards, rows |-> rows]
<1>2. x \in Request /\ x.query = req[r].query /\ x.pc = "done"
    BY <1>1 DEF Request
<1>3. req' = [req EXCEPT ![r] = x]
    BY DEF Finish, TypeOK
<1> QED
    BY <1>1, <1>2, <1>3 DEF Moves

LEMMA AnswerMoves ==
    ASSUME TypeOK, NEW r \in Req, req[r].pc \in {"begun", "half"},
           NEW number \in Int,
           Answer(r, number) \/ AnswerDone(r) \/ AnswerError(r)
    PROVE  Moves(r, {"begun", "half"}, {"done"})
BY NothingTyped, FinishMoves DEF Answer, AnswerDone, AnswerError

LEMMA KeepMoves ==
    ASSUME TypeOK, NEW r \in Req, req[r].pc = "begun", NEW seen \in Nat, Keep(r, seen)
    PROVE  /\ Moves(r, {"begun"}, {"half"})
           /\ req'[r].seen = seen /\ req'[r].query = req[r].query
<1>1. req[r] \in Request
    BY InRequest
<1> DEFINE x == [req[r] EXCEPT !.pc = "half", !.seen = seen]
<1>2. x \in Request /\ x.query = req[r].query /\ x.pc = "half" /\ x.seen = seen
    BY <1>1 DEF Request
<1>3. req' = [req EXCEPT ![r] = x]
    BY DEF Keep, TypeOK
<1> HIDE DEF x
<1> QED
    BY <1>1, <1>2, <1>3 DEF Moves, TypeOK

\* A thread that serves a request moves it on, and touches no lock.
LEMMA ServeMoves ==
    ASSUME TypeOK, NEW r \in Req, Serve(r) \/ Raise(r) \/ LoseCommit(r)
    PROVE  /\ Moves(r, {"begun", "half"}, {"half", "done"})
           /\ lock' = lock
<1>a. Moves(r, {"begun", "half"}, {"done"}) => Moves(r, {"begun", "half"}, {"half", "done"})
    BY DEF Moves
<1>b. Moves(r, {"begun"}, {"half"}) => Moves(r, {"begun", "half"}, {"half", "done"})
    BY DEF Moves
<1>1. CASE Refuse(r)
    BY <1>1, <1>a, AnswerMoves DEF Refuse, At
<1>2. CASE Read(r)
    <2>1. CASE AskSession(r)
        <3>1. req[r].pc = "begun" /\ \E n \in Int : Answer(r, n)
            BY <2>1 DEF AskSession, At
        <3> QED
            BY <3>1, <1>a, <2>1, AnswerMoves DEF AskSession
    <2>2. CASE SelectPosts(r)
        <3>1. Len(posts) \in Nat
            BY DEF TypeOK
        <3>2. CASE Keep(r, Len(posts))
            BY <2>2, <3>1, <3>2, <1>b, KeepMoves DEF SelectPosts, At
        <3>3. CASE AnswerCards(r, NoCards)
            <4>1. Finish(r, 200, 0, NoCards, NoRows) /\ lock' = lock /\ req[r].pc \in {"begun", "half"}
                BY <2>2, <3>3 DEF SelectPosts, At, AnswerCards
            <4> QED
                BY <4>1, <1>a, NothingTyped, FinishMoves
        <3> QED
            BY <2>2, <3>2, <3>3 DEF SelectPosts
    <2>3. CASE SelectThumbs(r)
        <3>1. req[r].pc = "half" /\ req[r].seen \in Nat
            BY <2>3, InRequest, QueryTyped DEF SelectThumbs, At
        <3>2. Cards(req[r].seen, UserOf(r)) \in Seq(Card)
            BY <3>1, CardsTyped
        <3> QED
            <4>1. Finish(r, 200, 0, Cards(req[r].seen, UserOf(r)), NoRows) /\ lock' = lock
                BY <2>3 DEF SelectThumbs, AnswerCards
            <4> QED
                BY <3>1, <3>2, <4>1, <1>a, NothingTyped, FinishMoves
    <2>4. CASE CountLikes(r)
        BY <2>4, <1>b, CountTyped, KeepMoves DEF CountLikes, At
    <2>5. CASE CountDislikes(r)
        <3>1. req[r].pc = "half" /\ req[r].seen \in Nat
            BY <2>5, InRequest, QueryTyped DEF CountDislikes, At
        <3>2. req[r].seen - Cardinality(RowsWith(req[r].query.id, "d")) \in Int
            BY <3>1, CountTyped
        <3> QED
            BY <2>5, <3>1, <3>2, <1>a, AnswerMoves DEF CountDislikes
    <2>6. CASE GetComments(r)
        <3>1. req[r].pc = "begun" /\ req[r].query.id \in Nat
            BY <2>6, InRequest, QueryTyped DEF GetComments, At
        <3>2. Rows(req[r].query.id) \subseteq Row
            BY <3>1, RowsTyped
        <3> QED
            <4>1. Finish(r, 200, 0, NoCards, Rows(req[r].query.id)) /\ lock' = lock
                BY <2>6 DEF GetComments, AnswerRows
            <4> QED
                BY <3>1, <3>2, <4>1, <1>a, NothingTyped, FinishMoves
    <2>7. CASE GetImage(r)
        <3> DEFINE i == FirstRow(ImageRows(req[r].query.id))
        <3>1. (IF i = 0 THEN NoText ELSE images[i].text) \in Int
            <4>1. CASE ImageRows(req[r].query.id) = {}
                BY <4>1 DEF FirstRow, NoText
            <4>2. CASE ImageRows(req[r].query.id) # {}
                <5>1. ImageRows(req[r].query.id) \subseteq Nat
                    BY DEF TypeOK, ImageRows
                <5>2. i \in DOMAIN images
                    BY <4>2, <5>1, FirstMatches DEF ImageRows
                <5>3. images[i] \in Image
                    BY <5>2 DEF TypeOK
                <5>4. images[i].text \in Text \cup {NoText}
                    BY <5>3 DEF Image
                <5>5. \A x \in Text \cup {NoText} : x \in Int
                    BY TextAssumption DEF NoText
                <5> HIDE DEF i
                <5>6. images[i].text \in Int /\ NoText \in Int
                    BY <5>4, <5>5
                <5> QED
                    BY <5>6
            <4> QED
                BY <4>1, <4>2
        <3> HIDE DEF i
        <3> QED
            BY <2>7, <3>1, <1>a, AnswerMoves DEF GetImage, At, i
    <2> QED
        BY <1>2, <2>1, <2>2, <2>3, <2>4, <2>5, <2>6, <2>7 DEF Read
<1>3. CASE Write(r)
    <2>1. CASE AddPost(r)
        <3>1. Len(posts) + 1 \in Int
            BY DEF TypeOK
        <3> QED
            BY <2>1, <3>1, <1>a, AnswerMoves DEF AddPost, At
    <2>2. CASE InsertComment(r)
        <3>1. Len(comments) + 1 \in Int
            BY DEF TypeOK
        <3> QED
            BY <2>2, <3>1, <1>a, AnswerMoves DEF InsertComment, At
    <2>3. CASE FindRecord(r)
        <3>1. \/ AnswerDone(r)
              \/ \E S \in SUBSET Nat : Keep(r, FirstRow(S))
            <4>1. /\ ThumbRows(req[r].query.id, UserOf(r)) \in SUBSET Nat
                  /\ {i \in DOMAIN posts : i = req[r].query.id} \in SUBSET Nat
                  /\ {i \in DOMAIN comments : i = req[r].query.id} \in SUBSET Nat
                  /\ ImageRows(req[r].query.id) \in SUBSET Nat
                BY DEF TypeOK, ThumbRows, ImageRows
            <4> QED
                BY <2>3, <4>1 DEF FindRecord
        <3>2. req[r].pc = "begun"
            BY <2>3 DEF FindRecord, At
        <3>3. ASSUME NEW S \in SUBSET Nat PROVE FirstRow(S) \in Nat
            BY FirstMatches DEF FirstRow
        <3>4. lock' = lock
            BY <2>3 DEF FindRecord
        <3>5. CASE AnswerDone(r)
            BY <3>2, <3>4, <3>5, <1>a, AnswerMoves
        <3>6. CASE \E S \in SUBSET Nat : Keep(r, FirstRow(S))
            BY <3>2, <3>3, <3>4, <3>6, <1>b, KeepMoves
        <3> QED
            BY <3>1, <3>4, <3>5, <3>6
    <2>4. CASE StoreThumb(r)
        BY <2>4, <1>a, AnswerMoves DEF StoreThumb, At
    <2>5. CASE StoreContent(r)
        BY <2>5, <1>a, AnswerMoves DEF StoreContent, At
    <2>6. CASE StoreComment(r)
        <3>1. AnswerDone(r) /\ lock' = lock /\ req[r].pc = "half"
            BY <2>6 DEF StoreComment, At
        <3> QED
            BY <3>1, <1>a, AnswerMoves
    <2>7. CASE StoreImage(r)
        <3>1. (IF req[r].seen = 0 THEN Len(images) + 1 ELSE 0) \in Int
            BY DEF TypeOK
        <3> QED
            BY <2>7, <3>1, <1>a, AnswerMoves DEF StoreImage, At
    <2> QED
        BY <1>3, <2>1, <2>2, <2>3, <2>4, <2>5, <2>6, <2>7 DEF Write
<1>4. CASE Invalid(r)
    BY <1>4, <1>a, AnswerMoves DEF Invalid, BadWrite, At
<1>5. CASE Raise(r)
    BY <1>5, <1>a, AnswerMoves DEF Raise, Writing, At
<1>6. CASE LoseCommit(r)
    <2> DEFINE n == CASE req[r].query.op = "add_post" -> Len(posts) + 1
                      [] req[r].query.op = "insert_comment" -> Len(comments) + 1
                      [] At(r, "half", {"post_image"}) /\ req[r].seen = 0 -> Len(images) + 1
                      [] OTHER -> 0
    <2>1. n \in Int
        BY DEF TypeOK
    <2>2. Answer(r, n) /\ lock' = lock /\ (req[r].pc = "begun" \/ req[r].pc = "half")
        BY <1>6 DEF LoseCommit, Writing, At
    <2> HIDE DEF n
    <2> QED
        BY <2>1, <2>2, <1>a, AnswerMoves
<1> QED
    BY <1>1, <1>2, <1>3, <1>4, <1>5, <1>6 DEF Serve

-----------------------------------------------------------------------------
(* The tables. *)

\* A row that a thread stores is of its table's type, and a row that it updates is one
\* that the first statement of its update_or_insert found.
LEMMA TablesTyped ==
    ASSUME TypeOK, SeenInv, NEW r \in Req, Write(r)
    PROVE  /\ posts' \in Seq(Post) /\ thumbs' \in Seq(Thumb)
           /\ comments' \in Seq(Comment) /\ images' \in Seq(Image)
<1> DEFINE q == req[r].query
<1>0. /\ posts \in Seq(Post) /\ thumbs \in Seq(Thumb)
      /\ comments \in Seq(Comment) /\ images \in Seq(Image)
    BY DEF TypeOK
<1>1. CASE AddPost(r)
    <2>1. req[r] \in Request
        BY <1>1, InRequest DEF AddPost, At
    <2> QED
        BY <1>0, <1>1, <2>1, QueryTyped DEF AddPost, LoggedIn, Post
<1>2. CASE InsertComment(r)
    <2>1. req[r] \in Request
        BY <1>2, InRequest DEF InsertComment, At
    <2>2. q.post \in Nat /\ q.text \in Text \cup {NoText} /\ UserOf(r) \in User
        BY <1>2, <2>1, QueryTyped DEF InsertComment, LoggedIn
    <2>3. [post |-> q.post, author |-> UserOf(r), body |-> q.text, mine |-> 0] \in Comment
        BY <2>2 DEF Comment
    <2> QED
        BY <1>0, <1>2, <2>3 DEF InsertComment
<1>3. CASE FindRecord(r)
    BY <1>0, <1>3 DEF FindRecord, tables
<1>4. CASE StoreThumb(r)
    <2>1. req[r] \in Request /\ LoggedIn(r)
        BY <1>4, InRequest DEF StoreThumb, At, SeenInv, StillThere, NeedsUser, Upserts
    <2> DEFINE row == [post |-> q.id, user |-> UserOf(r), state |-> q.val]
    <2>2. row \in Thumb
        BY <2>1, QueryTyped DEF Thumb, LoggedIn
    <2>3. req[r].seen # 0 => req[r].seen \in 1..Len(thumbs)
        BY <1>0, <1>4 DEF StoreThumb, At, SeenInv, StillThere, ThumbRows
    <2>4. /\ thumbs' = IF req[r].seen = 0 THEN Append(thumbs, row)
                       ELSE [thumbs EXCEPT ![req[r].seen] = row]
          /\ posts' = posts /\ comments' = comments /\ images' = images
        BY <1>4 DEF StoreThumb
    <2> HIDE DEF row
    <2> QED
        BY <1>0, <2>2, <2>3, <2>4, ExceptSeq
<1>5. CASE StoreContent(r)
    <2>1. req[r] \in Request
        BY <1>5, InRequest DEF StoreContent, At
    <2>2. req[r].seen \in 1..Len(posts)
        BY <1>0, <1>5 DEF StoreContent, At, SeenInv, StillThere
    <2> DEFINE row == [posts[req[r].seen] EXCEPT !.text = q.text]
    <2>3. row \in Post
        <3>1. q.text \in Text \cup {NoText} /\ posts[req[r].seen] \in Post
            BY <1>0, <2>1, <2>2, QueryTyped
        <3> QED
            BY <3>1 DEF Post
    <2>4. posts' = [posts EXCEPT ![req[r].seen] = row] /\ thumbs' = thumbs /\ comments' = comments /\ images' = images
        BY <1>5 DEF StoreContent
    <2> HIDE DEF row
    <2> QED
        BY <1>0, <2>2, <2>3, <2>4, ExceptSeq
<1>6. CASE StoreComment(r)
    <2>1. req[r] \in Request /\ LoggedIn(r)
        BY <1>6, InRequest DEF StoreComment, At, SeenInv, StillThere, NeedsUser, Upserts
    <2> DEFINE mine == IF UserOf(r) = q.author THEN 0 ELSE 1
               new == [post |-> 0, author |-> UserOf(r), body |-> NoText, mine |-> 0]
               old == IF req[r].seen = 0 THEN new ELSE comments[req[r].seen]
               row == IF q.op = "my_comment" THEN [old EXCEPT !.mine = mine]
                      ELSE [old EXCEPT !.post = q.post, !.body = q.text]
    <2>2. old \in Comment
        <3>1. new \in Comment
            BY <2>1 DEF LoggedIn, Comment
        <3>2. req[r].seen # 0 => req[r].seen \in DOMAIN comments
            BY <1>6 DEF StoreComment, At, SeenInv, StillThere
        <3> QED
            BY <1>0, <3>1, <3>2
    <2>3. row \in Comment
        <3>1. mine \in 0..1 /\ q.post \in Nat /\ q.text \in Text \cup {NoText}
            BY <2>1, QueryTyped
        <3> HIDE DEF old, mine
        <3> QED
            BY <2>2, <3>1 DEF Comment
    <2>4. /\ comments' = IF req[r].seen = 0 THEN Append(comments, row)
                         ELSE [comments EXCEPT ![req[r].seen] = row]
          /\ posts' = posts /\ thumbs' = thumbs /\ images' = images
        BY <1>6 DEF StoreComment
    <2>5. req[r].seen # 0 => req[r].seen \in 1..Len(comments)
        BY <1>0, <1>6 DEF StoreComment, At, SeenInv, StillThere
    <2> HIDE DEF row
    <2> QED
        BY <1>0, <2>3, <2>4, <2>5, ExceptSeq
<1>7. CASE StoreImage(r)
    <2>1. req[r] \in Request
        BY <1>7, InRequest DEF StoreImage, At
    <2> DEFINE row == [post |-> q.id, text |-> q.text]
    <2>2. row \in Image
        BY <2>1, QueryTyped DEF Image
    <2>3. req[r].seen # 0 => req[r].seen \in 1..Len(images)
        BY <1>0, <1>7 DEF StoreImage, At, SeenInv, StillThere, ImageRows
    <2>4. /\ images' = IF req[r].seen = 0 THEN Append(images, row)
                       ELSE [images EXCEPT ![req[r].seen] = row]
          /\ posts' = posts /\ thumbs' = thumbs /\ comments' = comments
        BY <1>7 DEF StoreImage
    <2> HIDE DEF row
    <2> QED
        BY <1>0, <2>2, <2>3, <2>4, ExceptSeq
<1> QED
    BY <1>1, <1>2, <1>3, <1>4, <1>5, <1>6, <1>7 DEF Write

\* All other steps leave the tables alone.
LEMMA TablesKept ==
    ASSUME NEW r \in Req,
           \/ Connect(r) \/ Refuse(r) \/ Read(r) \/ Invalid(r)
           \/ Raise(r) \/ LoseCommit(r) \/ Release(r)
    PROVE  UNCHANGED tables
BY DEF Connect, Refuse, Read, AskSession, SelectPosts, SelectThumbs, CountLikes, CountDislikes,
       GetComments, GetImage, Invalid, Raise, LoseCommit, Release, tables

\* No step loses a row or gives it to somebody else.
LEMMA StepKeepsRows ==
    ASSUME TypeOK, SeenInv, NEW r \in Req, Step(r)
    PROVE  RowsKept
<1> DEFINE q == req[r].query
<1>0. /\ posts \in Seq(Post) /\ thumbs \in Seq(Thumb)
      /\ comments \in Seq(Comment) /\ images \in Seq(Image)
    BY DEF TypeOK
<1>1. CASE UNCHANGED tables
    BY <1>1 DEF RowsKept, tables
<1>2. CASE AddPost(r)
    <2>1. posts' = Append(posts, [author |-> UserOf(r), text |-> q.text])
          /\ thumbs' = thumbs /\ comments' = comments /\ images' = images
        BY <1>2 DEF AddPost
    <2> QED
        BY <1>0, <2>1 DEF RowsKept
<1>3. CASE InsertComment(r)
    <2>1. \E row : comments' = Append(comments, row) /\ posts' = posts /\ thumbs' = thumbs /\ images' = images
        BY <1>3 DEF InsertComment
    <2> QED
        BY <1>0, <2>1 DEF RowsKept
<1>4. CASE StoreThumb(r)
    <2> DEFINE row == [post |-> q.id, user |-> UserOf(r), state |-> q.val]
    <2>1. req[r].seen # 0 => /\ req[r].seen \in 1..Len(thumbs)
                             /\ thumbs[req[r].seen].post = row.post
                             /\ thumbs[req[r].seen].user = row.user
        BY <1>0, <1>4 DEF StoreThumb, At, SeenInv, StillThere, ThumbRows
    <2>2. /\ thumbs' = IF req[r].seen = 0 THEN Append(thumbs, row)
                       ELSE [thumbs EXCEPT ![req[r].seen] = row]
          /\ posts' = posts /\ comments' = comments /\ images' = images
        BY <1>4 DEF StoreThumb
    <2> HIDE DEF row
    <2> QED
        BY <1>0, <2>1, <2>2 DEF RowsKept
<1>5. CASE StoreContent(r)
    <2>1. req[r].seen \in 1..Len(posts)
        BY <1>0, <1>5 DEF StoreContent, At, SeenInv, StillThere
    <2> DEFINE row == [posts[req[r].seen] EXCEPT !.text = q.text]
    <2>2. row.author = posts[req[r].seen].author
        BY <1>0, <2>1 DEF Post
    <2>3. posts' = [posts EXCEPT ![req[r].seen] = row] /\ thumbs' = thumbs /\ comments' = comments /\ images' = images
        BY <1>5 DEF StoreContent
    <2> HIDE DEF row
    <2> QED
        BY <1>0, <2>1, <2>2, <2>3 DEF RowsKept
<1>6. CASE StoreComment(r)
    <2> DEFINE mine == IF UserOf(r) = q.author THEN 0 ELSE 1
               new == [post |-> 0, author |-> UserOf(r), body |-> NoText, mine |-> 0]
               old == IF req[r].seen = 0 THEN new ELSE comments[req[r].seen]
               row == IF q.op = "my_comment" THEN [old EXCEPT !.mine = mine]
                      ELSE [old EXCEPT !.post = q.post, !.body = q.text]
    <2>1. req[r].seen # 0 => req[r].seen \in 1..Len(comments)
        BY <1>0, <1>6 DEF StoreComment, At, SeenInv, StillThere
    <2>2. req[r].seen # 0 => row.author = comments[req[r].seen].author
        <3>1. req[r].seen # 0 => old = comments[req[r].seen] /\ old \in Comment
            BY <1>0, <2>1
        <3> HIDE DEF old, mine
        <3> QED
            BY <3>1 DEF Comment
    <2>3. /\ comments' = IF req[r].seen = 0 THEN Append(comments, row)
                         ELSE [comments EXCEPT ![req[r].seen] = row]
          /\ posts' = posts /\ thumbs' = thumbs /\ images' = images
        BY <1>6 DEF StoreComment
    <2> HIDE DEF row
    <2> QED
        BY <1>0, <2>1, <2>2, <2>3 DEF RowsKept
<1>7. CASE StoreImage(r)
    <2> DEFINE row == [post |-> q.id, text |-> q.text]
    <2>1. req[r].seen # 0 => /\ req[r].seen \in 1..Len(images)
                             /\ images[req[r].seen].post = row.post
        BY <1>0, <1>7 DEF StoreImage, At, SeenInv, StillThere, ImageRows
    <2>2. /\ images' = IF req[r].seen = 0 THEN Append(images, row)
                       ELSE [images EXCEPT ![req[r].seen] = row]
          /\ posts' = posts /\ thumbs' = thumbs /\ comments' = comments
        BY <1>7 DEF StoreImage
    <2> HIDE DEF row
    <2> QED
        BY <1>0, <2>1, <2>2 DEF RowsKept
<1>8. CASE FindRecord(r)
    BY <1>1, <1>8 DEF FindRecord
<1> QED
    BY <1>1, <1>2, <1>3, <1>4, <1>5, <1>6, <1>7, <1>8, TablesKept DEF Step, Serve, Write

-----------------------------------------------------------------------------
(* Type correctness. *)

\* Clients send well-formed queries and touch no request that a thread is at.
LEMMA ClientsTyped ==
    ASSUME TypeOK, Clients
    PROVE  /\ req' \in [Req -> {Free} \cup Request]
           /\ \A r \in Req : \/ req'[r] = req[r]
                             \/ /\ req[r].pc \in {"free", "answered"}
                                /\ req'[r].pc \in {"free", "sent"}
<1>1. ASSUME NEW query \in Query
      PROVE  Sent(query) \in Request /\ Sent(query).pc = "sent"
    BY NothingTyped DEF Sent, Request
<1>2. ASSUME NEW r \in Req
      PROVE  /\ req'[r] \in {Free} \cup Request
             /\ \/ req'[r] = req[r]
                \/ /\ req[r].pc \in {"free", "answered"}
                   /\ req'[r].pc \in {"free", "sent"}
    <2>1. CASE req'[r] = req[r]
        BY <2>1 DEF TypeOK
    <2>2. CASE req'[r] = Free /\ req[r].pc \in {"free", "answered"}
        BY <2>2 DEF Free
    <2>3. CASE /\ req[r].pc \in {"free", "answered"}
               /\ req'[r].query \in Query /\ req'[r] = Sent(req'[r].query)
        BY <1>1, <2>3
    <2> QED
        BY <2>1, <2>2, <2>3 DEF Clients
<1>3. req' = [r \in Req |-> req'[r]]
    BY DEF Clients
<1> QED
    BY <1>2, <1>3

\* The moves of the steps that are not Serve.
LEMMA ConnectMoves ==
    ASSUME TypeOK, NEW r \in Req, Connect(r)
    PROVE  /\ Moves(r, {"sent"}, {"begun"})
           /\ lock[req[r].query.sess] = NoReq
           /\ lock' = [lock EXCEPT ![req[r].query.sess] = r]
<1>1. req[r] \in Request
    BY InRequest DEF Connect
<1> DEFINE x == [req[r] EXCEPT !.pc = "begun"]
<1>2. x \in Request /\ x.query = req[r].query /\ x.pc = "begun"
    BY <1>1 DEF Request
<1>3. req' = [req EXCEPT ![r] = x]
    BY DEF Connect, TypeOK
<1> QED
    BY <1>1, <1>2, <1>3 DEF Moves, Connect

LEMMA ReleaseMoves ==
    ASSUME TypeOK, NEW r \in Req, Release(r)
    PROVE  /\ Moves(r, {"done"}, {"answered"})
           /\ lock' = [lock EXCEPT ![req[r].query.sess] = NoReq]
<1>1. req[r] \in Request
    BY InRequest DEF Release
<1> DEFINE x == [req[r] EXCEPT !.pc = "answered"]
<1>2. x \in Request /\ x.query = req[r].query /\ x.pc = "answered"
    BY <1>1 DEF Request
<1>3. req' = [req EXCEPT ![r] = x]
    BY DEF Release, TypeOK
<1> QED
    BY <1>1, <1>2, <1>3 DEF Moves, Release

\* A step of a thread moves one request, along the order of its life.
LEMMA StepMoves ==
    ASSUME TypeOK, NEW r \in Req, Step(r)
    PROVE  Moves(r, {"sent", "begun", "half", "done"}, {"begun", "half", "done", "answered"})
<1>1. \/ Moves(r, {"sent"}, {"begun"})
      \/ Moves(r, {"begun", "half"}, {"half", "done"})
      \/ Moves(r, {"done"}, {"answered"})
    BY ConnectMoves, ServeMoves, ReleaseMoves DEF Step
<1> QED
    BY <1>1 DEF Moves

LEMMA TypeInit == Init => TypeOK
<1> SUFFICES ASSUME Init PROVE TypeOK
    OBVIOUS
<1>1. /\ posts \in Seq(Post) /\ thumbs \in Seq(Thumb)
      /\ comments \in Seq(Comment) /\ images \in Seq(Image)
    BY PostsAssumption DEF Init
<1> QED
    BY <1>1 DEF Init, TypeOK

LEMMA TypeStep ==
    ASSUME TypeOK, SeenInv, [Next]_serverVars
    PROVE  TypeOK'
<1>1. CASE UNCHANGED serverVars
    BY <1>1 DEF TypeOK, serverVars, tables
<1>2. CASE Clients
    <2>1. UNCHANGED <<posts, thumbs, comments, images, lock, faults>>
        BY <1>2 DEF Clients, tables
    <2> QED
        BY <1>2, <2>1, ClientsTyped DEF TypeOK
<1>3. ASSUME NEW r \in Req, Step(r) PROVE TypeOK'
    <2>1. req' \in [Req -> {Free} \cup Request]
        BY <1>3, StepMoves DEF Moves, TypeOK
    <2>2. lock' \in [Session -> Req \cup {NoReq}]
        BY <1>3, ConnectMoves, ServeMoves, ReleaseMoves DEF Step, TypeOK
    <2>3. /\ posts' \in Seq(Post) /\ thumbs' \in Seq(Thumb)
           /\ comments' \in Seq(Comment) /\ images' \in Seq(Image)
        <3>1. CASE Write(r)
            BY <3>1, TablesTyped
        <3>2. CASE UNCHANGED tables
            BY <3>2 DEF tables, TypeOK
        <3> QED
            BY <1>3, <3>1, <3>2, TablesKept DEF Step, Serve
    <2>4. faults' \in Nat
        BY <1>3 DEF Step, Connect, Release, Raise, LoseCommit, Fault, Serve, Refuse, Invalid, Read,
                    AskSession, SelectPosts, SelectThumbs, CountLikes, CountDislikes, GetComments,
                    GetImage, Write, AddPost, InsertComment, FindRecord, StoreThumb, StoreContent,
                    StoreComment, StoreImage, TypeOK
    <2> QED
        BY <2>1, <2>2, <2>3, <2>4 DEF TypeOK
<1> QED
    BY <1>1, <1>2, <1>3 DEF Next

-----------------------------------------------------------------------------
(* The lock of a session. *)

LEMMA LockInit == Init => LockInv
BY ReqAssumption DEF Init, LockInv, Running, Free

LEMMA LockStep ==
    ASSUME TypeOK, LockInv, [Next]_serverVars
    PROVE  LockInv'
<1>1. CASE UNCHANGED serverVars
    BY <1>1 DEF LockInv, Running, serverVars
<1>2. CASE Clients
    <2>1. lock' = lock
        BY <1>2 DEF Clients
    <2>2. ASSUME NEW r \in Req
          PROVE  req'[r] = req[r] \/ (~Running(r) /\ ~Running(r)')
        BY <1>2, ClientsTyped DEF Running
    <2> QED
        BY <2>1, <2>2 DEF LockInv, Running
<1>3. ASSUME NEW r \in Req, Step(r) PROVE LockInv'
    <2> DEFINE s == req[r].query.sess
    <2>0. lock \in [Session -> Req \cup {NoReq}] /\ req \in [Req -> {Free} \cup Request]
        BY DEF TypeOK
    <2>1. CASE Connect(r)
        <3>1. lock[s] = NoReq /\ lock' = [lock EXCEPT ![s] = r] /\ Moves(r, {"sent"}, {"begun"})
            BY <2>1, ConnectMoves
        <3>2. PICK x \in Request : x.query = req[r].query /\ x.pc = "begun"
                                   /\ req' = [req EXCEPT ![r] = x]
            BY <3>1 DEF Moves
        <3>3. s \in Session
            BY <3>1, QueryTyped DEF Moves
        <3>4. \A r2 \in Req : ~(Running(r2) /\ req[r2].query.sess = s)
            BY <3>1, <3>3, ReqAssumption DEF LockInv
        <3> QED
            BY <2>0, <3>1, <3>2, <3>3, <3>4 DEF LockInv, Running
    <2>2. CASE Release(r)
        <3>1. lock' = [lock EXCEPT ![s] = NoReq] /\ Moves(r, {"done"}, {"answered"})
            BY <2>2, ReleaseMoves
        <3>2. PICK x \in Request : x.query = req[r].query /\ x.pc = "answered"
                                   /\ req' = [req EXCEPT ![r] = x]
            BY <3>1 DEF Moves
        <3>3. s \in Session /\ lock[s] = r
            BY <3>1, QueryTyped DEF Moves, LockInv, Running
        <3> QED
            BY <2>0, <3>1, <3>2, <3>3, ReqAssumption DEF LockInv, Running
    <2>3. CASE Serve(r) \/ Raise(r) \/ LoseCommit(r)
        <3>1. lock' = lock /\ Moves(r, {"begun", "half"}, {"half", "done"})
            BY <2>3, ServeMoves
        <3>2. PICK x \in Request : x.query = req[r].query /\ x.pc \in {"half", "done"}
                                   /\ req' = [req EXCEPT ![r] = x]
            BY <3>1 DEF Moves
        <3>3. Running(r)
            BY <3>1 DEF Moves, Running
        <3> QED
            BY <2>0, <3>1, <3>2, <3>3 DEF LockInv, Running
    <2> QED
        BY <1>3, <2>1, <2>2, <2>3 DEF Step
<1> QED
    BY <1>1, <1>2, <1>3 DEF Next

\* A session has one lock, and its holder is its one running request.
LEMMA LockInTurn == TypeOK /\ LockInv => SessionsInTurn
<1> SUFFICES ASSUME TypeOK, LockInv, NEW r1 \in Req, NEW r2 \in Req,
                    Running(r1), Running(r2), req[r1].query.sess = req[r2].query.sess
             PROVE  r1 = r2
    BY DEF SessionsInTurn
<1>1. req[r1] \in Request
    BY InRequest DEF Running
<1>2. req[r1].query.sess \in Session
    BY <1>1, QueryTyped
<1> QED
    BY <1>2 DEF LockInv

-----------------------------------------------------------------------------
(* What the first statement of an update_or_insert found. *)

\* The rows of a post and a user only get more.
LEMMA ThumbRowsGrow ==
    ASSUME RowsKept, NEW p, NEW u
    PROVE  ThumbRows(p, u) \subseteq ThumbRows(p, u)'
BY DEF RowsKept, ThumbRows

\* What a request that comes to its second statement knows.
LEMMA Found ==
    ASSUME TypeOK, NEW r \in Req, Serve(r), req'[r].pc = "half"
    PROVE  LET q == req'[r].query
           IN  /\ UNCHANGED tables
               /\ q.op \in NeedsUser \cup Lists => UserOf(r)' \in User
               /\ q.op \in Lists => req'[r].seen = Len(posts)
               /\ q.op = "set_thumb" =>
                     req'[r].seen = FirstRow(ThumbRows(q.id, UserOf(r)'))
               /\ q.op = "edit_content" =>
                     req'[r].seen = FirstRow({i \in DOMAIN posts : i = q.id})
               /\ q.op \in {"edit_comment", "my_comment"} =>
                     req'[r].seen = FirstRow({i \in DOMAIN comments : i = q.id})
               /\ q.op = "post_image" => req'[r].seen = FirstRow(ImageRows(q.id))
<1>0. req \in [Req -> {Free} \cup Request]
    BY DEF TypeOK
<1>1. CASE FindRecord(r)
    <2>1. req[r].pc = "begun" /\ Allowed(r) /\ UNCHANGED tables /\ req[r].query.op \in Upserts
        BY <1>1 DEF FindRecord, At, Upserts
    <2>2. ~AnswerDone(r)
        BY <1>0 DEF AnswerDone, Finish
    <2> DEFINE q == req[r].query
               S == IF q.op = "set_thumb" THEN ThumbRows(q.id, UserOf(r))
                    ELSE IF q.op = "edit_content" THEN {i \in DOMAIN posts : i = q.id}
                    ELSE IF q.op = "post_image" THEN ImageRows(q.id)
                    ELSE {i \in DOMAIN comments : i = q.id}
    <2>3. Keep(r, FirstRow(S))
        BY <1>1, <2>2 DEF FindRecord, At
    <2>4. S \subseteq Nat
        BY DEF TypeOK, ThumbRows, ImageRows
    <2>5. FirstRow(S) \in Nat
        BY <2>4, FirstMatches DEF FirstRow
    <2>6. req'[r].seen = FirstRow(S) /\ req'[r].query = q
        BY <2>1, <2>3, <2>5, KeepMoves
    <2>7. UserOf(r)' = UserOf(r)
        BY <2>6 DEF UserOf
    <2> QED
        BY <2>1, <2>6, <2>7 DEF LoggedIn, Allowed, Upserts, Lists
<1>2. CASE SelectPosts(r)
    <2>1. req[r].pc = "begun" /\ req[r].query.op \in Lists /\ Len(posts) \in Nat
        BY <1>2 DEF SelectPosts, At, TypeOK
    <2>2. ~AnswerCards(r, NoCards)
        BY <1>0 DEF AnswerCards, Finish
    <2>3. LoggedIn(r) /\ Keep(r, Len(posts)) /\ UNCHANGED tables
        BY <1>2, <2>2 DEF SelectPosts
    <2>4. req'[r].query = req[r].query /\ req'[r].seen = Len(posts)
        BY <2>1, <2>3, KeepMoves
    <2> QED
        BY <2>1, <2>3, <2>4 DEF LoggedIn, UserOf, Lists
<1>3. CASE CountLikes(r)
    BY <1>0, <1>3 DEF CountLikes, At, Keep, NeedsUser, Inserts, Upserts, Lists
<1>4. \/ FindRecord(r) \/ SelectPosts(r) \/ CountLikes(r)
    BY <1>0 DEF Serve, Refuse, Invalid, Read, AskSession, SelectThumbs, CountDislikes, GetComments,
                GetImage, Write, AddPost, InsertComment, StoreThumb, StoreContent, StoreComment,
                StoreImage,
                Answer, AnswerCards, AnswerRows, AnswerDone, AnswerError, Finish
<1> QED
    BY <1>1, <1>2, <1>3, <1>4

\* A request that is half done after a step came there by this step, or was left alone.
LEMMA HalfDone ==
    ASSUME TypeOK, NEW r \in Req, Step(r), NEW r2 \in Req, req'[r2].pc = "half"
    PROVE  (r2 = r /\ Serve(r)) \/ (r2 # r /\ req'[r2] = req[r2])
<1>0. req \in [Req -> {Free} \cup Request]
    BY DEF TypeOK
<1>1. CASE r2 # r
    BY <1>0, <1>1, StepMoves DEF Moves
<1>2. CASE r2 = r
    <2>1. ~Connect(r) /\ ~Release(r)
        BY <1>0, <1>2, ConnectMoves, ReleaseMoves DEF Moves
    <2>2. ~Raise(r) /\ ~LoseCommit(r)
        BY <1>0, <1>2 DEF Raise, LoseCommit, AnswerError, Answer, Finish
    <2> QED
        BY <1>2, <2>1, <2>2 DEF Step
<1> QED
    BY <1>1, <1>2

LEMMA SeenInit == Init => SeenInv
BY DEF Init, SeenInv, Free

\* Rows stay, so that what a request found stays true while others run.
LEMMA StillThereKept ==
    ASSUME SeenInv, RowsKept, NEW r \in Req, req[r].pc = "half", req'[r] = req[r]
    PROVE  StillThere(r)'
<1> DEFINE q == req[r].query
<1>1. StillThere(r)
    BY DEF SeenInv
<1>2. UserOf(r)' = UserOf(r) /\ LoggedIn(r)' = LoggedIn(r)
    BY DEF UserOf, LoggedIn
<1>3. ThumbRows(q.id, UserOf(r)) \subseteq ThumbRows(q.id, UserOf(r))'
    BY <1>2 DEF ThumbRows, RowsKept
<1>4. DOMAIN posts \subseteq DOMAIN posts' /\ DOMAIN comments \subseteq DOMAIN comments'
    BY DEF RowsKept
<1>5. ImageRows(q.id) \subseteq ImageRows(q.id)'
    BY DEF ImageRows, RowsKept
<1> QED
    BY <1>1, <1>2, <1>3, <1>4, <1>5 DEF StillThere

\* And a request that just found something has it right.
LEMMA StillThereFound ==
    ASSUME TypeOK, NEW r \in Req, Serve(r), req'[r].pc = "half"
    PROVE  StillThere(r)'
<1> DEFINE q == req'[r].query
<1>1. /\ UNCHANGED tables
      /\ q.op \in NeedsUser \cup Lists => UserOf(r)' \in User
      /\ q.op = "set_thumb" => req'[r].seen = FirstRow(ThumbRows(q.id, UserOf(r)'))
      /\ q.op = "edit_content" => req'[r].seen = FirstRow({i \in DOMAIN posts : i = q.id})
      /\ q.op \in {"edit_comment", "my_comment"} =>
            req'[r].seen = FirstRow({i \in DOMAIN comments : i = q.id})
      /\ q.op = "post_image" => req'[r].seen = FirstRow(ImageRows(q.id))
    BY Found
<1>2. ASSUME NEW S, S \subseteq Nat PROVE FirstRow(S) \in S \cup {0}
    BY <1>2, FirstMatches DEF FirstRow
<1>3. q.op = "set_thumb" => req'[r].seen \in ThumbRows(req[r].query.id, UserOf(r))' \cup {0}
    <2>1. ThumbRows(q.id, UserOf(r)') \subseteq Nat
        BY DEF TypeOK, ThumbRows
    <2>2. ThumbRows(q.id, UserOf(r)') =
              ThumbRows(req[r].query.id, UserOf(r))'
        BY <1>1 DEF ThumbRows, tables
    <2> QED
        BY <1>1, <1>2, <2>1, <2>2
<1>4. q.op = "edit_content" => req'[r].seen \in DOMAIN posts' \cup {0}
    <2> DEFINE S == {i \in DOMAIN posts : i = q.id}
    <2>1. S \subseteq Nat /\ S \subseteq DOMAIN posts'
        BY <1>1 DEF TypeOK, tables
    <2>2. FirstRow(S) \in S \cup {0}
        BY <1>2, <2>1
    <2> QED
        BY <1>1, <2>1, <2>2
<1>5. q.op \in {"edit_comment", "my_comment"} => req'[r].seen \in DOMAIN comments' \cup {0}
    <2> DEFINE S == {i \in DOMAIN comments : i = q.id}
    <2>1. S \subseteq Nat /\ S \subseteq DOMAIN comments'
        BY <1>1 DEF TypeOK, tables
    <2>2. FirstRow(S) \in S \cup {0}
        BY <1>2, <2>1
    <2> QED
        BY <1>1, <2>1, <2>2
<1>6. q.op = "post_image" => req'[r].seen \in ImageRows(req[r].query.id)' \cup {0}
    <2>1. ImageRows(q.id) \subseteq Nat
        BY DEF TypeOK, ImageRows
    <2>2. ImageRows(q.id) = ImageRows(req[r].query.id)'
        BY <1>1 DEF ImageRows, tables
    <2> QED
        BY <1>1, <1>2, <2>1, <2>2
<1> QED
    BY <1>1, <1>3, <1>4, <1>5, <1>6 DEF StillThere, LoggedIn

LEMMA SeenStep ==
    ASSUME TypeOK, SeenInv, [Next]_serverVars
    PROVE  SeenInv'
<1> SUFFICES ASSUME NEW r \in Req, req'[r].pc = "half"
             PROVE  StillThere(r)'
    BY DEF SeenInv
<1>1. CASE UNCHANGED serverVars
    <2>1. RowsKept /\ req'[r] = req[r]
        BY <1>1 DEF serverVars, tables, RowsKept
    <2> QED
        BY <2>1, StillThereKept
<1>2. CASE Clients
    <2>1. RowsKept /\ req'[r] = req[r]
        BY <1>2, ClientsTyped DEF Clients, tables, RowsKept
    <2> QED
        BY <2>1, StillThereKept
<1>3. ASSUME NEW r2 \in Req, Step(r2)
      PROVE  StillThere(r)'
    <2>1. CASE r = r2 /\ Serve(r)
        BY <2>1, StillThereFound
    <2>2. CASE req'[r] = req[r]
        BY <1>3, <2>2, StepKeepsRows, StillThereKept
    <2> QED
        BY <1>3, <2>1, <2>2, HalfDone
<1> QED
    BY <1>1, <1>2, <1>3 DEF Next

-----------------------------------------------------------------------------
(* One vote per user and post. *)

\* A step changes no key of the table thumb, but where set_thumb inserts a row.
LEMMA ThumbsChange ==
    ASSUME TypeOK, SeenInv, NEW r \in Req, Step(r)
    PROVE  \/ /\ DOMAIN thumbs' = DOMAIN thumbs
              /\ RowsKept
           \/ /\ At(r, "half", {"set_thumb"})
              /\ req[r].seen = 0
              /\ thumbs' = Append(thumbs, [post |-> req[r].query.id, user |-> UserOf(r),
                                           state |-> req[r].query.val])
<1>1. CASE StoreThumb(r)
    <2>1. CASE req[r].seen # 0
        <3>1. DOMAIN thumbs' = DOMAIN thumbs
            BY <1>1, <2>1 DEF StoreThumb
        <3> QED
            BY <3>1, StepKeepsRows
    <2>2. CASE req[r].seen = 0
        BY <1>1, <2>2 DEF StoreThumb
    <2> QED
        BY <2>1, <2>2
<1>2. CASE ~StoreThumb(r)
    <2>1. thumbs' = thumbs
        BY <1>2, TablesKept DEF Step, Serve, Write, AddPost, InsertComment, FindRecord,
                                StoreContent, StoreComment, StoreImage, tables
    <2> QED
        BY <2>1, StepKeepsRows
<1> QED
    BY <1>1, <1>2

\* Two requests of one user run in one session, and so one after the other.
LEMMA OneAtATime ==
    ASSUME TypeOK, LockInv, OneSessionEach, NEW r1 \in Req, NEW r2 \in Req,
           Running(r1), Running(r2), UserOf(r1) = UserOf(r2), LoggedIn(r1)
    PROVE  r1 = r2
<1>1. req[r1].query.sess \in Session /\ req[r2].query.sess \in Session
    BY InRequest, QueryTyped DEF Running
<1>2. req[r1].query.sess = req[r2].query.sess
    BY <1>1 DEF OneSessionEach, UserOf, LoggedIn
<1> QED
    BY <1>2, LockInTurn DEF SessionsInTurn

LEMMA NoneInit == Init => NoneInv /\ OneThumbPerUser
BY DEF Init, NoneInv, OneThumbPerUser, Free, At

\* With nothing of its key in the table, a request is still the only one that could insert.
LEMMA NoneStep ==
    ASSUME TypeOK, LockInv, SeenInv, NoneInv, [Next]_serverVars
    PROVE  NoneInv'
<1> SUFFICES ASSUME OneSessionEach, NEW r \in Req, req'[r].pc = "half",
                    req'[r].query.op = "set_thumb", req'[r].seen = 0
             PROVE  ThumbRows(req[r].query.id, UserOf(r))' = {}
    BY DEF NoneInv, At, OneSessionEach
<1>1. ASSUME req'[r] = req[r]
      PROVE  /\ At(r, "half", {"set_thumb"}) /\ req[r].seen = 0
             /\ UserOf(r)' = UserOf(r) /\ LoggedIn(r)
             /\ ThumbRows(req[r].query.id, UserOf(r)) = {}
    BY <1>1 DEF NoneInv, SeenInv, StillThere, NeedsUser, Upserts, UserOf, At
<1>2. ASSUME req'[r] = req[r], thumbs' = thumbs
      PROVE  ThumbRows(req[r].query.id, UserOf(r))' = {}
    BY <1>1, <1>2 DEF ThumbRows
<1>3. CASE UNCHANGED serverVars
    BY <1>2, <1>3 DEF serverVars, tables
<1>4. CASE Clients
    BY <1>2, <1>4, ClientsTyped DEF Clients, tables
<1>5. ASSUME NEW r2 \in Req, Step(r2)
      PROVE  ThumbRows(req[r].query.id, UserOf(r))' = {}
    <2>1. CASE r = r2 /\ Serve(r)
        <3> DEFINE S == ThumbRows(req'[r].query.id, UserOf(r)')
        <3>1. FirstRow(S) = 0 /\ UNCHANGED tables
            BY <2>1, Found
        <3>2. S \subseteq Nat \ {0}
            BY DEF TypeOK, ThumbRows
        <3>3. S = {}
            BY <3>1, <3>2, FirstMatches
        <3> QED
            BY <3>1, <3>3 DEF ThumbRows, tables
    <2>2. CASE r # r2 /\ req'[r] = req[r]
        <3>1. CASE DOMAIN thumbs' = DOMAIN thumbs /\ RowsKept
            BY <1>1, <2>2, <3>1 DEF ThumbRows, RowsKept
        <3>2. CASE /\ At(r2, "half", {"set_thumb"})
                   /\ req[r2].seen = 0
                   /\ thumbs' = Append(thumbs, [post |-> req[r2].query.id, user |-> UserOf(r2),
                                                state |-> req[r2].query.val])
            <4>1. UserOf(r2) # UserOf(r)
                BY <1>1, <2>2, <3>2, OneAtATime DEF Running, At
            <4> DEFINE n == Len(thumbs)
            <4>2. /\ n \in Nat /\ DOMAIN thumbs = 1..n /\ DOMAIN thumbs' = 1..(n + 1)
                  /\ thumbs'[n + 1].user = UserOf(r2)
                  /\ \A i \in 1..n : thumbs'[i] = thumbs[i]
                BY <3>2 DEF TypeOK
            <4> HIDE DEF n
            <4>3. \A i \in 1..(n + 1) : i \in 1..n \/ i = n + 1
                BY <4>2
            <4> QED
                BY <1>1, <2>2, <4>1, <4>2, <4>3 DEF ThumbRows
        <3> QED
            BY <1>5, <3>1, <3>2, ThumbsChange
    <2> QED
        BY <1>5, <2>1, <2>2, HalfDone
<1> QED
    BY <1>3, <1>4, <1>5 DEF Next

LEMMA OneThumbStep ==
    ASSUME TypeOK, NoneInv, SeenInv, OneThumbPerUser, [Next]_serverVars
    PROVE  OneThumbPerUser'
<1> SUFFICES ASSUME OneSessionEach, NEW i \in DOMAIN thumbs', NEW j \in DOMAIN thumbs',
                    thumbs'[i].post = thumbs'[j].post, thumbs'[i].user = thumbs'[j].user
             PROVE  i = j
    BY DEF OneThumbPerUser, OneSessionEach
<1>1. CASE thumbs' = thumbs
    BY <1>1 DEF OneThumbPerUser
<1>2. ASSUME NEW r \in Req, Step(r)
      PROVE  i = j
    <2>1. CASE DOMAIN thumbs' = DOMAIN thumbs /\ RowsKept
        BY <2>1 DEF OneThumbPerUser, RowsKept
    <2>2. CASE /\ At(r, "half", {"set_thumb"})
               /\ req[r].seen = 0
               /\ thumbs' = Append(thumbs, [post |-> req[r].query.id, user |-> UserOf(r),
                                            state |-> req[r].query.val])
        <3> DEFINE n == Len(thumbs)
        <3>1. /\ n \in Nat /\ DOMAIN thumbs = 1..n /\ DOMAIN thumbs' = 1..(n + 1)
              /\ thumbs'[n + 1].post = req[r].query.id /\ thumbs'[n + 1].user = UserOf(r)
              /\ \A k \in 1..n : thumbs'[k] = thumbs[k]
            BY <2>2 DEF TypeOK
        <3> HIDE DEF n
        <3>2. \A k \in 1..n : thumbs[k].post # req[r].query.id \/ thumbs[k].user # UserOf(r)
            BY <2>2, <3>1 DEF NoneInv, ThumbRows
        <3>3. \A k \in 1..(n + 1) : k \in 1..n \/ k = n + 1
            BY <3>1
        <3> QED
            BY <3>1, <3>2, <3>3 DEF OneThumbPerUser
    <2> QED
        BY <1>2, <2>1, <2>2, ThumbsChange
<1> QED
    BY <1>1, <1>2 DEF Next, Clients, serverVars, tables

-----------------------------------------------------------------------------
(* Images: one row per session and post. *)

\* The calls about to insert an image for a post are of different sessions.
LEMMA InsertingFew ==
    ASSUME TypeOK, LockInv, NEW p
    PROVE  /\ IsFiniteSet(Inserting(p))
           /\ Cardinality(Inserting(p)) <= Cardinality(Session)
<1> DEFINE f == [r \in Inserting(p) |-> req[r].query.sess]
<1>1. ASSUME NEW r \in Inserting(p) PROVE r \in Req /\ Running(r) /\ f[r] \in Session
    <2>1. r \in Req /\ req[r].pc = "half"
        BY DEF Inserting, At
    <2> QED
        BY <2>1, InRequest, QueryTyped DEF Running
<1>2. ASSUME NEW r1 \in Inserting(p), NEW r2 \in Inserting(p), f[r1] = f[r2]
      PROVE  r1 = r2
    BY <1>1, <1>2, LockInTurn DEF SessionsInTurn
<1>3. f \in Injection(Inserting(p), Session)
    BY <1>1, <1>2 DEF Injection, IsInjective
<1> QED
    BY <1>3, SessionAssumption, FS_Injection

LEMMA ImageRowsFinite ==
    ASSUME TypeOK, NEW p
    PROVE  IsFiniteSet(ImageRows(p)) /\ Cardinality(ImageRows(p)) \in Nat
<1>1. IsFiniteSet(1..Len(images)) /\ ImageRows(p) \subseteq 1..Len(images)
    BY FS_Interval DEF TypeOK, ImageRows
<1> QED
    BY <1>1, FS_Subset, FS_CardinalityType

\* The bound holds for posts without an image, too.
LEMMA ImagesBound ==
    ASSUME TypeOK, LockInv, ImagesPerPost, NEW p
    PROVE  Cardinality(ImageRows(p)) + Cardinality(Inserting(p)) <= Cardinality(Session)
<1>1. CASE ImageRows(p) = {}
    <2>1. Cardinality(ImageRows(p)) = 0
        BY <1>1, FS_EmptySet
    <2>2. Cardinality(Inserting(p)) \in Nat /\ Cardinality(Session) \in Nat
        BY InsertingFew, SessionAssumption, FS_CardinalityType
    <2> QED
        BY <2>1, <2>2, InsertingFew
<1>2. CASE ImageRows(p) # {}
    BY <1>2 DEF ImagesPerPost, ImageRows
<1> QED
    BY <1>1, <1>2

LEMMA ImagesInit == Init => ImagesPerPost
BY DEF Init, ImagesPerPost

\* Where there is an image, or one is stored just now, nobody comes to insert another.
LEMMA NoMoreInserting ==
    ASSUME TypeOK, [Next]_serverVars, NEW p, ImageRows(p) # {} \/ images' # images
    PROVE  Inserting(p)' \subseteq Inserting(p)
<1> SUFFICES ASSUME NEW r \in Req, req'[r].pc = "half", req'[r].query.op = "post_image",
                    req'[r].seen = 0, req'[r].query.id = p
             PROVE  r \in Inserting(p)
    BY DEF Inserting, At
<1>1. CASE req'[r] = req[r]
    BY <1>1 DEF Inserting, At
<1>2. CASE Serve(r)
    <2>1. req'[r].seen = FirstRow(ImageRows(p)) /\ images' = images
        BY <1>2, Found DEF tables
    <2>2. ImageRows(p) \subseteq Nat \ {0}
        BY DEF TypeOK, ImageRows
    <2> QED
        BY <2>1, <2>2, FirstMatches
<1>3. CASE Clients
    BY <1>1, <1>3, ClientsTyped
<1>4. ASSUME NEW r2 \in Req, Step(r2) PROVE r \in Inserting(p)
    BY <1>1, <1>2, <1>4, HalfDone
<1> QED
    BY <1>1, <1>3, <1>4 DEF Next, serverVars

\* A step changes the posts of images only where post_image inserts a row.
LEMMA ImagesChange ==
    ASSUME TypeOK, SeenInv, [Next]_serverVars
    PROVE  \/ \A p : ImageRows(p)' = ImageRows(p)
           \/ \E r \in Req, p \in Nat :
                 /\ r \in Inserting(p)
                 /\ req'[r].pc = "done"
                 /\ ImageRows(p)' = ImageRows(p) \cup {Len(images) + 1}
                 /\ \A p2 : p2 # p => ImageRows(p2)' = ImageRows(p2)
<1>1. CASE images' = images
    BY <1>1 DEF ImageRows
<1>2. ASSUME NEW r \in Req, StoreImage(r), req[r].seen # 0
      PROVE  \A p : ImageRows(p)' = ImageRows(p)
    <2> DEFINE row == [post |-> req[r].query.id, text |-> req[r].query.text]
    <2>1. images' = [images EXCEPT ![req[r].seen] = row]
        BY <1>2 DEF StoreImage
    <2>2. req[r].seen \in DOMAIN images /\ images[req[r].seen].post = req[r].query.id
        BY <1>2 DEF StoreImage, At, SeenInv, StillThere, ImageRows
    <2>3. row.post = req[r].query.id
        OBVIOUS
    <2> HIDE DEF row
    <2>4. DOMAIN images' = DOMAIN images /\ \A i \in DOMAIN images : images'[i].post = images[i].post
        BY <2>1, <2>2, <2>3 DEF TypeOK
    <2> QED
        BY <2>4 DEF ImageRows
<1>3. ASSUME NEW r \in Req, StoreImage(r), req[r].seen = 0, NEW p \in Nat, p = req[r].query.id
      PROVE  /\ r \in Inserting(p)
             /\ req'[r].pc = "done"
             /\ ImageRows(p)' = ImageRows(p) \cup {Len(images) + 1}
             /\ \A p2 : p2 # p => ImageRows(p2)' = ImageRows(p2)
    <2> DEFINE row == [post |-> req[r].query.id, text |-> req[r].query.text]
               n == Len(images)
    <2>1. images' = Append(images, row) /\ row.post = p
        BY <1>3 DEF StoreImage
    <2>2. r \in Inserting(p)
        BY <1>3 DEF StoreImage, Inserting
    <2>3. req'[r].pc = "done"
        BY <1>3 DEF StoreImage, Answer, Finish, TypeOK
    <2> HIDE DEF row
    <2>4. /\ n \in Nat /\ DOMAIN images = 1..n /\ DOMAIN images' = 1..(n + 1)
          /\ images'[n + 1] = row
          /\ \A i \in 1..n : images'[i] = images[i]
        BY <2>1 DEF TypeOK
    <2> HIDE DEF n
    <2>5. \A i \in 1..(n + 1) : i \in 1..n \/ i = n + 1
        BY <2>4
    <2>6. n + 1 \in 1..(n + 1) /\ \A i \in 1..n : i \in 1..(n + 1) /\ i # n + 1
        BY <2>4
    <2>7. ImageRows(p)' = ImageRows(p) \cup {n + 1}
        BY <2>1, <2>4, <2>5, <2>6 DEF ImageRows
    <2>8. ASSUME NEW p2, p2 # p
          PROVE  ImageRows(p2)' = ImageRows(p2)
        BY <2>1, <2>4, <2>5, <2>6, <2>8 DEF ImageRows
    <2> QED
        BY <2>2, <2>3, <2>7, <2>8 DEF n
<1>4. ASSUME NEW r \in Req, Step(r), ~StoreImage(r)
      PROVE  images' = images
    BY <1>4, TablesKept DEF Step, Serve, Write, AddPost, InsertComment, FindRecord, StoreThumb,
                            StoreContent, StoreComment, tables
<1>5. ASSUME NEW r \in Req, StoreImage(r) PROVE req[r].query.id \in Nat
    BY <1>5, InRequest, QueryTyped DEF StoreImage, At
<1> QED
    BY <1>1, <1>2, <1>3, <1>4, <1>5 DEF Next, Clients, serverVars, tables

\* A row that comes takes the place of a call that was about to insert it.
LEMMA ImagesStep ==
    ASSUME TypeOK, LockInv, SeenInv, ImagesPerPost, [Next]_serverVars
    PROVE  ImagesPerPost'
<1> SUFFICES ASSUME NEW p, ImageRows(p)' # {}
             PROVE  (Cardinality(ImageRows(p)) + Cardinality(Inserting(p)) <= Cardinality(Session))'
    BY DEF ImagesPerPost, ImageRows
<1> DEFINE rows == Cardinality(ImageRows(p))
           ins == Cardinality(Inserting(p))
           max == Cardinality(Session)
<1>1. IsFiniteSet(ImageRows(p)) /\ IsFiniteSet(Inserting(p)) /\ rows + ins <= max
    BY ImageRowsFinite, InsertingFew, ImagesBound
<1>2. rows \in Nat /\ ins \in Nat /\ max \in Nat
    BY <1>1, SessionAssumption, FS_CardinalityType
<1>3. CASE ImageRows(p)' = ImageRows(p)
    <2>1. Inserting(p)' \subseteq Inserting(p)
        BY <1>3, NoMoreInserting
    <2>2. Cardinality(Inserting(p)') <= ins /\ Cardinality(Inserting(p)') \in Nat
        BY <1>1, <2>1, FS_Subset, FS_CardinalityType
    <2> QED
        BY <1>1, <1>2, <1>3, <2>2
<1>4. ASSUME NEW r \in Req, r \in Inserting(p), req'[r].pc = "done",
             ImageRows(p)' = ImageRows(p) \cup {Len(images) + 1}
      PROVE  (Cardinality(ImageRows(p)) + Cardinality(Inserting(p)) <= Cardinality(Session))'
    <2>1. Cardinality(ImageRows(p)') <= rows + 1 /\ Cardinality(ImageRows(p)') \in Nat
        <3> DEFINE S == ImageRows(p) \cup {Len(images) + 1}
        <3>1. IsFiniteSet(S) /\ (Cardinality(S) = rows + 1 \/ Cardinality(S) = rows)
            BY <1>1, FS_AddElement
        <3> HIDE DEF S
        <3>2. Cardinality(S) <= rows + 1 /\ Cardinality(S) \in Nat
            BY <1>2, <3>1
        <3> QED
            BY <1>4, <3>2 DEF S
    <2>2. Inserting(p)' \subseteq Inserting(p) \ {r}
        <3>1. ImageRows(p) \subseteq 1..Len(images) /\ Len(images) \in Nat
            BY DEF TypeOK, ImageRows
        <3>2. Len(images) + 1 \notin ImageRows(p)
            BY <3>1
        <3>3. images' # images
            BY <1>4, <3>2 DEF ImageRows
        <3>4. r \notin Inserting(p)'
            BY <1>4 DEF Inserting, At
        <3> QED
            BY <3>3, <3>4, NoMoreInserting
    <2>3. Cardinality(Inserting(p) \ {r}) = ins - 1 /\ IsFiniteSet(Inserting(p) \ {r})
        BY <1>1, <1>4, FS_RemoveElement
    <2>4. Cardinality(Inserting(p)') <= ins - 1 /\ Cardinality(Inserting(p)') \in Nat
        BY <2>2, <2>3, FS_Subset, FS_CardinalityType
    <2> QED
        BY <1>1, <1>2, <2>1, <2>4
<1> QED
    BY <1>3, <1>4, ImagesChange

-----------------------------------------------------------------------------
(* A viewer's own votes. *)

\* What a step does to the votes concerns those of the request's user on its post.
LEMMA OthersVotes ==
    ASSUME TypeOK, SeenInv, NEW r \in Req, Step(r), NEW p, NEW u,
           StoreThumb(r) => u # UserOf(r) \/ p # req[r].query.id
    PROVE  ThumbRows(p, u)' = ThumbRows(p, u) /\ ThumbOf(p, u)' = ThumbOf(p, u)
<1>1. CASE ~StoreThumb(r)
    <2>1. thumbs' = thumbs
        BY <1>1, TablesKept DEF Step, Serve, Write, AddPost, InsertComment, FindRecord,
                                StoreContent, StoreComment, StoreImage, tables
    <2> QED
        BY <2>1 DEF ThumbOf, ThumbRows
<1>2. CASE StoreThumb(r)
    <2> DEFINE q == req[r].query
               row == [post |-> q.id, user |-> UserOf(r), state |-> q.val]
               S == ThumbRows(p, u)
               Own(thumb) == thumb.post = p /\ thumb.user = u
    <2>1. req[r].pc = "half" /\ q.op = "set_thumb" /\ (u # UserOf(r) \/ p # q.id)
        BY <1>2 DEF StoreThumb, At
    <2>2. req[r].seen \in ThumbRows(q.id, UserOf(r)) \cup {0}
        BY <2>1 DEF SeenInv, StillThere
    <2>3. DOMAIN thumbs = 1..Len(thumbs) /\ Len(thumbs) \in Nat
        BY DEF TypeOK
    <2>4. /\ \A i \in DOMAIN thumbs : i \in DOMAIN thumbs' /\ (Own(thumbs[i]) => thumbs'[i] = thumbs[i])
          /\ \A i \in DOMAIN thumbs' : Own(thumbs'[i]) => i \in DOMAIN thumbs /\ thumbs'[i] = thumbs[i]
        <3>1. CASE req[r].seen # 0
            <4>1. /\ thumbs' = [thumbs EXCEPT ![req[r].seen] = row] /\ ~Own(row)
                  /\ req[r].seen \in DOMAIN thumbs /\ ~Own(thumbs[req[r].seen])
                BY <1>2, <2>1, <2>2, <3>1 DEF StoreThumb, ThumbRows
            <4> HIDE DEF row, Own
            <4> QED
                BY <4>1
        <3>2. CASE req[r].seen = 0
            <4>1. thumbs' = Append(thumbs, row) /\ ~Own(row)
                BY <1>2, <2>1, <3>2 DEF StoreThumb
            <4> HIDE DEF row, Own
            <4>2. /\ DOMAIN thumbs' = 1..(Len(thumbs) + 1) /\ thumbs'[Len(thumbs) + 1] = row
                  /\ \A i \in 1..Len(thumbs) : thumbs'[i] = thumbs[i]
                BY <4>1 DEF TypeOK
            <4>3. \A i \in 1..(Len(thumbs) + 1) : i \in 1..Len(thumbs) \/ i = Len(thumbs) + 1
                BY <2>3
            <4> QED
                BY <2>3, <4>1, <4>2, <4>3
        <3> QED
            BY <3>1, <3>2
    <2>5. ThumbRows(p, u)' = S
        BY <2>4 DEF ThumbRows
    <2>6. \A i \in S : thumbs'[i] = thumbs[i]
        BY <2>4 DEF ThumbRows
    <2>7. S # {} => LastRow(S) \in S
        BY <2>3, LastMatches DEF ThumbRows
    <2> QED
        BY <2>5, <2>6, <2>7 DEF ThumbOf
<1> QED
    BY <1>1, <1>2

\* The second statement of set_thumb leaves its user's one vote on the post.
LEMMA StoredVote ==
    ASSUME TypeOK, TypeOK', SeenInv, OneSessionEach, OneThumbPerUser', NEW r \in Req, StoreThumb(r),
           NEW p, p = req[r].query.id, NEW u, u = UserOf(r)
    PROVE  ThumbOf(p, u)' = req[r].query.val
<1> DEFINE row == [post |-> p, user |-> u, state |-> req[r].query.val]
<1>0. /\ DOMAIN thumbs = 1..Len(thumbs) /\ Len(thumbs) \in Nat
      /\ DOMAIN thumbs' = 1..Len(thumbs') /\ Len(thumbs') \in Nat
    BY DEF TypeOK
<1>1. \E i \in DOMAIN thumbs' : thumbs'[i] = row
    <2>1. CASE req[r].seen # 0
        <3>1. req[r].seen \in DOMAIN thumbs
            BY <2>1 DEF StoreThumb, At, SeenInv, StillThere, ThumbRows
        <3>2. thumbs' = [thumbs EXCEPT ![req[r].seen] = row]
            BY <2>1 DEF StoreThumb
        <3> QED
            BY <3>1, <3>2
    <2>2. CASE req[r].seen = 0
        <3>1. thumbs' = Append(thumbs, row)
            BY <2>2 DEF StoreThumb
        <3> HIDE DEF row
        <3>2. Len(thumbs) + 1 \in DOMAIN thumbs' /\ thumbs'[Len(thumbs) + 1] = row
            BY <1>0, <3>1 DEF TypeOK
        <3> QED
            BY <3>2
    <2> QED
        BY <2>1, <2>2
<1>2. PICK i \in DOMAIN thumbs' : thumbs'[i] = row
    BY <1>1
<1>3. \A j \in DOMAIN thumbs' : thumbs'[j].post = p /\ thumbs'[j].user = u => j = i
    BY <1>2 DEF OneThumbPerUser, OneSessionEach
<1> DEFINE S == {j \in DOMAIN thumbs' : thumbs'[j].post = p /\ thumbs'[j].user = u}
<1>4. i \in S /\ S \subseteq 1..Len(thumbs') /\ \A j \in S : j = i
    BY <1>0, <1>2, <1>3
<1> HIDE DEF S
<1>5. LastRow(S) \in S
    BY <1>0, <1>4, LastMatches
<1>6. ThumbOf(p, u)' = thumbs'[LastRow(S)].state
    BY <1>4 DEF ThumbOf, ThumbRows, S
<1> QED
    BY <1>2, <1>4, <1>5, <1>6

\* Only the second statement of a list gives cards.
LEMMA FinishCards ==
    ASSUME TypeOK, NEW r \in Req, NEW number, NEW rows,
           Answer(r, number) \/ AnswerRows(r, rows) \/ AnswerDone(r) \/ AnswerError(r) \/ AnswerCards(r, NoCards)
    PROVE  req'[r].cards = NoCards
BY DEF Answer, AnswerRows, AnswerDone, AnswerError, AnswerCards, Finish, TypeOK

\* The kinds of answers of the functions.
LEMMA AnswerKinds ==
    ASSUME TypeOK, NEW r \in Req, Step(r), ~SelectThumbs(r), req'[r].pc = "done"
    PROVE  \/ \E number : Answer(r, number)
           \/ GetComments(r)
           \/ AnswerDone(r) \/ AnswerError(r) \/ AnswerCards(r, NoCards)
<1>0. req \in [Req -> {Free} \cup Request]
    BY DEF TypeOK
<1>1. ~Connect(r) /\ ~Release(r)
    BY <1>0, ConnectMoves, ReleaseMoves DEF Moves
<1>2. \A seen : ~Keep(r, seen)
    <2>1. "pc" \in DOMAIN req[r]
        BY <1>0 DEF Free, Request
    <2> QED
        BY <1>0, <2>1 DEF Keep
<1>3. CASE GetComments(r)
    BY <1>3
<1>4. CASE ~GetComments(r)
    <2>1. CASE Refuse(r) \/ Invalid(r) \/ Raise(r)
        BY <2>1 DEF Refuse, Invalid, Raise
    <2>2. CASE LoseCommit(r)
        BY <2>2 DEF LoseCommit
    <2>3. CASE Read(r)
        <3>1. CASE AskSession(r)
            BY <1>2, <3>1 DEF AskSession
        <3>2. CASE SelectPosts(r)
            BY <1>2, <3>2 DEF SelectPosts
        <3>3. CASE CountLikes(r)
            BY <1>2, <3>3 DEF CountLikes
        <3>4. CASE CountDislikes(r)
            BY <1>2, <3>4 DEF CountDislikes
        <3>5. CASE GetImage(r)
            BY <1>2, <3>5 DEF GetImage
        <3> QED
            BY <1>4, <2>3, <3>1, <3>2, <3>3, <3>4, <3>5 DEF Read
    <2>4. CASE Write(r)
        <3>1. CASE AddPost(r)
            BY <1>2, <3>1 DEF AddPost
        <3>2. CASE InsertComment(r)
            BY <1>2, <3>2 DEF InsertComment
        <3>3. CASE FindRecord(r)
            BY <1>2, <3>3 DEF FindRecord
        <3>4. CASE StoreThumb(r)
            BY <1>2, <3>4 DEF StoreThumb
        <3>5. CASE StoreContent(r)
            BY <1>2, <3>5 DEF StoreContent
        <3>6. CASE StoreComment(r)
            BY <1>2, <3>6 DEF StoreComment
        <3>7. CASE StoreImage(r)
            BY <1>2, <3>7 DEF StoreImage
        <3> QED
            BY <2>4, <3>1, <3>2, <3>3, <3>4, <3>5, <3>6, <3>7 DEF Write
    <2> QED
        BY <1>1, <2>1, <2>2, <2>3, <2>4 DEF Step, Serve
<1> QED
    BY <1>3, <1>4

LEMMA OnlyListsCards ==
    ASSUME TypeOK, NEW r \in Req, Step(r), ~SelectThumbs(r), req'[r].pc = "done"
    PROVE  req'[r].cards = NoCards
BY AnswerKinds, FinishCards DEF GetComments

\* While a request has its answer ready, the lock of its session keeps its user's votes.
LEMMA OwnVotesStep ==
    ASSUME TypeOK, LockInv, SeenInv, OwnVotesExact, [Next]_serverVars
    PROVE  OwnVotesExact'
<1> SUFFICES ASSUME OneSessionEach, NEW r \in Req, At(r, "done", Lists)', NEW k \in DOMAIN req'[r].cards,
                    NEW p, p = req'[r].cards[k].id, NEW u, u = UserOf(r)'
             PROVE  req'[r].cards[k].thumb = ThumbOf(p, u)'
    BY DEF OwnVotesExact, OneSessionEach, ThumbOf, ThumbRows
<1>1. ASSUME req'[r] = req[r], ThumbOf(p, u)' = ThumbOf(p, u)
      PROVE  req'[r].cards[k].thumb = ThumbOf(p, u)'
    <2>1. At(r, "done", Lists) /\ k \in DOMAIN req[r].cards /\ UserOf(r) = u /\ req[r].cards[k].id = p
        BY <1>1 DEF At, UserOf
    <2>2. req[r].cards[k].thumb = ThumbOf(p, u)
        BY <2>1 DEF OwnVotesExact
    <2> QED
        BY <1>1, <2>2
<1>2. CASE Clients \/ UNCHANGED serverVars
    <2>1. req'[r] = req[r] /\ thumbs' = thumbs
        BY <1>2, ClientsTyped DEF Clients, serverVars, tables, At
    <2>2. ThumbOf(p, u)' = ThumbOf(p, u)
        BY <2>1 DEF ThumbOf, ThumbRows
    <2> QED
        BY <1>1, <2>1, <2>2
<1>3. ASSUME NEW r2 \in Req, Step(r2), r2 # r
      PROVE  req'[r].cards[k].thumb = ThumbOf(p, u)'
    <2>1. req'[r] = req[r] /\ u = UserOf(r)
        BY <1>3, StepMoves DEF Moves, TypeOK, UserOf
    <2>2. StoreThumb(r2) => u # UserOf(r2)
        <3> SUFFICES ASSUME StoreThumb(r2), UserOf(r2) = UserOf(r) PROVE FALSE
            BY <2>1
        <3>1. req[r2].pc = "half" /\ req[r2].query.op = "set_thumb"
            BY DEF StoreThumb, At
        <3>2. LoggedIn(r2)
            BY <3>1 DEF SeenInv, StillThere, NeedsUser, Upserts
        <3>3. Running(r2) /\ Running(r)
            BY <2>1, <3>1 DEF Running, At
        <3> QED
            BY <1>3, <3>2, <3>3, OneAtATime
    <2>3. ThumbOf(p, u)' = ThumbOf(p, u)
        BY <1>3, <2>2, OthersVotes
    <2> QED
        BY <1>1, <2>1, <2>3
<1>4. CASE Step(r)
    <2>1. SelectThumbs(r)
        BY <1>4, OnlyListsCards DEF At, NoCards
    <2>2. /\ req'[r].cards = Cards(req[r].seen, UserOf(r)) /\ req'[r].query = req[r].query
          /\ thumbs' = thumbs
        BY <2>1 DEF SelectThumbs, AnswerCards, Finish, TypeOK, tables
    <2>3. UserOf(r) = u
        BY <2>2 DEF UserOf
    <2>4. k \in 1..req[r].seen /\ p = k /\ req'[r].cards[k].thumb = ThumbOf(k, u)
        BY <2>2, <2>3 DEF Cards
    <2> QED
        BY <2>2, <2>4 DEF ThumbOf, ThumbRows
<1> QED
    BY <1>2, <1>3, <1>4 DEF Next

-----------------------------------------------------------------------------
(* Queries. *)

FieldsTyped(fields) ==
    /\ DOMAIN fields \subseteq {"id", "post", "val", "text", "author"}
    /\ "id" \in DOMAIN fields => fields["id"] \in Nat
    /\ "post" \in DOMAIN fields => fields["post"] \in Nat
    /\ "val" \in DOMAIN fields => fields["val"] \in Vote
    /\ "text" \in DOMAIN fields => fields["text"] \in Text \cup {NoText}
    /\ "author" \in DOMAIN fields => fields["author"] \in User \cup {NoUser}

LEMMA CallTyped ==
    ASSUME NEW op \in Op, NEW s \in Session, NEW fields, FieldsTyped(fields)
    PROVE  /\ Call(op, s, fields) \in Query
           /\ Call(op, s, fields).op = op /\ Call(op, s, fields).sess = s
           /\ "id" \in DOMAIN fields => Call(op, s, fields).id = fields["id"]
           /\ "post" \in DOMAIN fields => Call(op, s, fields).post = fields["post"]
           /\ "val" \in DOMAIN fields => Call(op, s, fields).val = fields["val"]
<1> DEFINE c == Call(op, s, fields)
<1>1. c = [f \in {"op", "sess", "id", "post", "val", "text", "author"} |-> c[f]]
  BY DEF Call
<1>2. c.op = op /\ c.sess = s
  BY DEF Call, FieldsTyped
<1>3. c.id = (IF "id" \in DOMAIN fields THEN fields["id"] ELSE 0)
  BY DEF Call
<1>4. c.post = (IF "post" \in DOMAIN fields THEN fields["post"] ELSE 0)
  BY DEF Call
<1>5. c.val = (IF "val" \in DOMAIN fields THEN fields["val"] ELSE "")
  BY DEF Call
<1>6. c.text = (IF "text" \in DOMAIN fields THEN fields["text"] ELSE 0)
  BY DEF Call
<1>7. c.author = (IF "author" \in DOMAIN fields THEN fields["author"] ELSE NoUser)
  BY DEF Call
<1> HIDE DEF c
<1>8. c.id \in Nat /\ c.post \in Nat /\ c.val \in Vote /\ c.text \in Text \cup {NoText}
      /\ c.author \in User \cup {NoUser}
  <2>1. c.id \in Nat /\ c.post \in Nat
    BY <1>3, <1>4 DEF FieldsTyped
  <2>2. c.val \in Vote
    BY <1>5 DEF FieldsTyped, Vote
  <2>3. c.text \in Text \cup {NoText}
    BY <1>6 DEF FieldsTyped, NoText
  <2>4. c.author \in User \cup {NoUser}
    BY <1>7 DEF FieldsTyped
  <2> QED  BY <2>1, <2>2, <2>3, <2>4
<1>9. c \in Query
  BY <1>1, <1>2, <1>8 DEF Query
<1> QED  BY <1>2, <1>3, <1>4, <1>5, <1>9 DEF c

LEMMA NoFields == FieldsTyped(<<>>)
<1>1. DOMAIN <<>> = {}
  OBVIOUS
<1>2. ASSUME NEW fields, DOMAIN fields = {} PROVE FieldsTyped(fields)
  BY <1>2 DEF FieldsTyped
<1> QED  BY <1>1, <1>2

LEMMA SomeFields ==
    /\ \A id \in Nat : FieldsTyped([id |-> id])
    /\ \A x \in Text \cup {NoText} : FieldsTyped([text |-> x])
    /\ \A id \in Nat, v \in Vote : FieldsTyped([id |-> id, val |-> v])
    /\ \A id \in Nat, u \in User \cup {NoUser} : FieldsTyped([id |-> id, author |-> u])
    /\ \A post \in Nat, x \in Text \cup {NoText} : FieldsTyped([post |-> post, text |-> x])
    /\ \A id, post \in Nat, x \in Text \cup {NoText} : FieldsTyped([id |-> id, post |-> post, text |-> x])
  BY DEF FieldsTyped

-----------------------------------------------------------------------------
(* What a request under way has. *)

\* Before its answer is ready, a request keeps what it has; and after, its answer.
LEMMA KeepsAnswer ==
    ASSUME TypeOK, NEW r \in Req, Step(r), req'[r].pc # "done"
    PROVE  /\ req'[r].rows = req[r].rows /\ req'[r].cards = req[r].cards
           /\ req'[r].number = req[r].number /\ req'[r].status = req[r].status
           /\ req'[r].query = req[r].query
           /\ (req[r].pc = "done" /\ req'[r].pc = "answered") \/ req'[r].pc \in {"begun", "half"}
           /\ UNCHANGED tables
<1>0. req \in [Req -> {Free} \cup Request]
  BY DEF TypeOK
<1>1. CASE Connect(r) \/ Release(r)
  <2>1. req[r] \in Request
    BY <1>0, <1>1 DEF Connect, Release, Free
  <2> QED  BY <1>0, <1>1, <2>1 DEF Connect, Release, Request, tables
<1>2. CASE ~(Connect(r) \/ Release(r))
  <2>1. ~\E status, number, cards, rows : Finish(r, status, number, cards, rows)
    BY <1>0 DEF Finish
  <2>2. /\ \E seen : Keep(r, seen)
        /\ req[r].pc = "begun" /\ UNCHANGED tables
    <3>1. ~LoseCommit(r)
      BY <2>1 DEF LoseCommit, Answer
    <3>2. ~Refuse(r) /\ ~Invalid(r) /\ ~Raise(r)
      BY <2>1 DEF Refuse, Invalid, Raise, AnswerError
    <3>3. Read(r) => SelectPosts(r) \/ CountLikes(r)
      BY <2>1 DEF Read, AskSession, SelectThumbs, CountDislikes, GetComments, GetImage, Answer, AnswerCards, AnswerRows
    <3>4. Write(r) => FindRecord(r)
      BY <2>1 DEF Write, AddPost, InsertComment, StoreThumb, StoreContent, StoreComment, StoreImage, Answer, AnswerDone
    <3>5. CASE SelectPosts(r)
      BY <2>1, <3>5 DEF SelectPosts, AnswerCards, At
    <3>6. CASE CountLikes(r)
      BY <3>6 DEF CountLikes, At
    <3>7. CASE FindRecord(r)
      BY <2>1, <3>7 DEF FindRecord, AnswerDone, At
    <3> QED  BY <1>2, <3>1, <3>2, <3>3, <3>4, <3>5, <3>6, <3>7 DEF Step, Serve
  <2>3. req[r] \in Request
    BY <1>0, <2>2 DEF Free
  <2> QED  BY <1>0, <2>2, <2>3 DEF Keep, Request
<1> QED  BY <1>1, <1>2

-----------------------------------------------------------------------------
(* The theorems. *)

ServerInv == TypeOK /\ UpsertInv /\ OneThumbPerUser /\ ImagesPerPost /\ OwnVotesExact

LEMMA ServerStarts == Init => ServerInv
<1>1. Init => OwnVotesExact
    BY DEF Init, OwnVotesExact, At, Free
<1> QED
    BY <1>1, TypeInit, LockInit, SeenInit, NoneInit, ImagesInit DEF ServerInv, UpsertInv

LEMMA ServerStays == ServerInv /\ [Next]_serverVars => ServerInv'
    BY TypeStep, LockStep, SeenStep, NoneStep, OneThumbStep, ImagesStep, OwnVotesStep DEF ServerInv, UpsertInv

\* The invariant of the server, of which the properties below are parts or consequences.
THEOREM ServerInvariant == Spec => []ServerInv
    BY ServerStarts, ServerStays, PTL DEF Spec

\* Whatever clients send, the tables, the locks and the requests are well formed.
THEOREM TypeCorrect == Spec => []TypeOK
<1>1. ServerInv => TypeOK
    BY DEF ServerInv
<1> QED
    BY <1>1, ServerInvariant, PTL

\* No two requests of a session run api functions at once.
THEOREM RequestsTakeTurns == Spec => []SessionsInTurn
<1>1. ServerInv => SessionsInTurn
    BY LockInTurn DEF ServerInv, UpsertInv
<1> QED
    BY <1>1, ServerInvariant, PTL

\* Between the two statements of an update_or_insert, what the first one found stays true.
THEOREM UpsertsAreSafe == Spec => []UpsertInv
<1>1. ServerInv => UpsertInv
    BY DEF ServerInv
<1> QED
    BY <1>1, ServerInvariant, PTL

\* A user with one session has one row at most for a post.
THEOREM OneVoteEach == Spec => []OneThumbPerUser
<1>1. ServerInv => OneThumbPerUser
    BY DEF ServerInv
<1> QED
    BY <1>1, ServerInvariant, PTL

\* A post has one image row per session at most.
THEOREM FewImagesEach == Spec => []ImagesPerPost
<1>1. ServerInv => ImagesPerPost
    BY DEF ServerInv
<1> QED
    BY <1>1, ServerInvariant, PTL

\* What get_post_list tells viewers of their own votes is what the table says when the answer
\* leaves, although the function reads the tables one after the other.
THEOREM ListsTellOwnVotes == Spec => []OwnVotesExact
<1>1. ServerInv => OwnVotesExact
    BY DEF ServerInv
<1> QED
    BY <1>1, ServerInvariant, PTL

\* No row is lost, and none changes its author, its post or its voter.
THEOREM RowsAreKept == Spec => RowsStay
<1>1. ServerInv /\ [Next]_serverVars => [RowsKept]_serverVars
    <2> SUFFICES ASSUME TypeOK, SeenInv, Next PROVE RowsKept
        BY DEF ServerInv, UpsertInv
    <2>1. CASE Clients
        BY <2>1 DEF Clients, tables, RowsKept
    <2> QED
        BY <2>1, StepKeepsRows DEF Next
<1> QED
    BY <1>1, ServerInvariant, PTL DEF Spec, RowsStay

=============================================================================
