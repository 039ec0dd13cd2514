SPECIFICATION FairProfileSpec
CONSTANTS
    alice = alice
    bob = bob
    s1 = s1
    s2 = s2
    t1 = t1
    r1 = r1
    r2 = r2
    r3 = r3
    NoUser = NoUser
    NoReq = NoReq
    NoCall = NoCall
    User <- MCUser
    InitPosts <- MCInitPosts
    Session <- MCSession
    SessionUser <- MCSessionUser
    Tab = {t1}
    TabSession <- MCTabSession
    Others <- MCOthers
    Req = {r1, r2, r3}
    Text = {1}
    MaxPosts = 3
    MaxComments = 0
    MaxFaults = 1
    MaxLoads = 2
INVARIANTS
    CountsOwn
PROPERTIES
    
    EveryoneAnswered
CHECK_DEADLOCK FALSE
