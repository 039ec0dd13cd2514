SPECIFICATION MCSpec
CONSTANTS
    alice = alice
    bob = bob
    s1 = s1
    s2 = s2
    r1 = r1
    r2 = r2
    r3 = r3
    NoUser = NoUser
    NoReq = NoReq
    User <- MCUser
    InitPosts <- MCInitPosts
    Text = {1, 2}
    Session <- MCSession
    SessionUser <- MCSessionUser
    Req <- MCReq
    MaxPosts = 1
    MaxComments = 0
    MaxFaults = 0
INVARIANTS
    UpsertInv
    OneThumbPerUser
    OwnVotesExact
PROPERTIES
    CountDrift
SYMMETRY MCSymmetry
