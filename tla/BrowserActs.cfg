SPECIFICATION BrowserSpec
CONSTANTS
    alice = alice
    bob = bob
    s1 = s1
    s2 = s2
    t1 = t1
    t2 = t2
    r1 = r1
    r2 = r2
    r3 = r3
    NoUser = NoUser
    NoReq = NoReq
    NoCall = NoCall
    NoCount = NoCount
    User <- MCUser
    InitPosts <- MCInitPosts
    Session <- OneSession
    SessionUser <- OneSessionUser
    Tab <- OneTab
    TabSession <- OneTabSession
    Far <- FarFromFirst
    Req = {r1, r2}
    Text = {1, 2}
    Gestures = {"u", "comment", "edit"}
    MaxPosts = 2
    MaxComments = 1
    MaxFaults = 1
    MaxLoads = 2
SYMMETRY MCSymmetry
INVARIANTS
    VotesAgree
    CommentsUnderOwnPost
PROPERTIES
    ServerSpec
