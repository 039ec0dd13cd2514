SPECIFICATION MCSpec
CONSTANTS
    alice = alice
    bob = bob
    s1 = s1
    s2 = s2
    s3 = s3
    r1 = r1
    r2 = r2
    r3 = r3
    NoUser = NoUser
    NoReq = NoReq
    User <- MCUser
    InitPosts <- MCInitPosts
    Text = {1, 2}
    Session <- MCSession
    SessionUser <- MCSessionUser
    Req <- MCReq
    MaxPosts = 2
    MaxComments = 1
    MaxFaults = 1
INVARIANTS
    TypeOK
    SessionsInTurn
    
SYMMETRY MCSymmetry
