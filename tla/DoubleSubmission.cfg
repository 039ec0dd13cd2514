SPECIFICATION BrowserSpec
CONSTANTS
    alice = alice
    bob = bob
    s1 = s1
    s2 = s2
    t1 = t1
    t2 = t2
    r1 = r1
    r2 = r2
    r3 = r3
    NoUser = NoUser
    NoReq = NoReq
    NoCall = NoCall
    NoCount = NoCount
    User <- MCUser
    InitPosts <- MCInitPosts
    Session <- OneSession
    SessionUser <- OneSessionUser
    Tab <- OneTab
    TabSession <- OneTabSession
    Far <- OneFar
    Req = {r1, r2}
    Text = {1}
    Gestures = {"post"}
    MaxPosts = 4
    MaxComments = 0
    MaxFaults = 0
    MaxLoads = 1
SYMMETRY MCSymmetry
INVARIANTS
    NoDoubleSubmission
