----------------------------- MODULE MCPicVotes  -----------------------------
(* The instance of PicVoteHistory for TLC. *)
EXTENDS PicVoteHistory, TLC

CONSTANTS alice, bob, s1, s2, r1, r2, r3

MCUser == {alice, bob}
MCSession == {s1, s2}
MCSessionUser == s1 :> alice @@ s2 :> bob
MCReq == {r1, r2, r3}
MCSymmetry == Permutations(MCReq)
MCInitPosts == <<[author |-> alice, text |-> 1]>>

\* Votes: both users vote on the post, one reads its count and both load the page.
VoteCalls ==
    {Call("set_thumb", s, [id |-> 1, val |-> v]) : s \in MCSession, v \in {"u", "d"}}
    \cup {Call("get_thumb_count_on_post", s1, [id |-> 1])}
    \cup {Call("get_post_list", s, [id |-> 0]) : s \in MCSession}


Client == \E r \in Req : Receive(r) \/ \E q \in VoteCalls : Issue([x \in {r} |-> q])
MCNext == (Client \/ \E r \in Req : Step(r)) /\ Observe
MCSpec == HistoryInit /\ [][MCNext]_historyVars

=============================================================================
