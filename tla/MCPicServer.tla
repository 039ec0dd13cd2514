----------------------------- MODULE MCPicServer -----------------------------
(* The instance of PicServer for TLC. *)
EXTENDS PicServer, TLC

CONSTANTS alice, bob, s1, s2, s3, r1, r2, r3

MCUser == {alice, bob}
MCReq == {r1, r2}
MCSymmetry == Permutations(Req)
MCInitPosts == <<[author |-> alice, text |-> 1]>>

\* Posts, comments and pictures are written and edited, and a visitor who is not logged in
\* calls too.
MCSession == {s1, s2, s3}
MCSessionUser == s1 :> alice @@ s2 :> bob @@ s3 :> NoUser
MCCalls ==
    {Call("add_post", s1, [text |-> 1]),
     Call("edit_content", s1, [id |-> 2, text |-> 2, author |-> alice]),
     Call("edit_content", s2, [id |-> 1, text |-> 2, author |-> NoUser]),
     Call("set_thumb", s2, [id |-> 2, val |-> ""]),
     Call("insert_comment", s2, [post |-> 1, text |-> 1]),
     Call("edit_comment", s1, [id |-> 1, post |-> 1, text |-> 2]),
     Call("my_comment", s2, [id |-> 1, author |-> bob]),
     Call("set_thumb", s3, [id |-> 1, val |-> "u"]),
     Call("post_image", s1, [id |-> 1, text |-> 1]),
     Call("post_image", s3, [id |-> 1, text |-> 1]),
     Call("get_image", s2, [id |-> 1]),
     Call("get_comments", s3, [id |-> 1]),
     Call("get_thumb_count_on_post", s3, [id |-> 1]),
     Call("get_post_list", s2, <<>>),
     Call("is_author", s2, [author |-> alice])}

\* Clients that make each of the calls at any time.
Client(calls) == \E r \in Req : Receive(r) \/ \E q \in calls : Issue([x \in {r} |-> q])

MCNext == Client(MCCalls) \/ \E r \in Req : Step(r)
MCSpec == Init /\ [][MCNext]_serverVars

=============================================================================
