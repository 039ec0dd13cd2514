---------------------------- MODULE MCPicBrowser ----------------------------
(* Instances of PicBrowser for TLC. *)
EXTENDS PicBrowser, TLC

CONSTANTS alice, bob, s1, s2, t1, t2, r1, r2, r3

MCUser == {alice, bob}
MCInitPosts == <<[author |-> bob, text |-> 1], [author |-> alice, text |-> 1]>>
MCSymmetry == Permutations(Req)

\* One page, of alice, near all posts.
OneSession == {s1}
OneSessionUser == s1 :> alice
OneTab == {t1}
OneTabSession == t1 :> s1
OneFar == t1 :> {}
FarFromFirst == t1 :> {1}

=============================================================================
