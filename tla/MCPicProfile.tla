---------------------------- MODULE MCPicProfile ----------------------------
(* The instance of PicProfile for TLC: alice looks at her page while bob posts. *)
EXTENDS PicProfile, TLC

CONSTANTS alice, bob, s1, s2, t1, r1, r2, r3

MCUser == {alice, bob}
MCSession == {s1, s2}
MCSessionUser == s1 :> alice @@ s2 :> bob
MCTabSession == t1 :> s1
MCInitPosts == <<[author |-> alice, text |-> 1], [author |-> bob, text |-> 1]>>
MCOthers == {Call("add_post", s2, [text |-> 1]), Call("add_post", s1, [text |-> 1])}

=============================================================================
