CONSTANTS
    Value = value
    Stats = stats
    Counter = counter
    Master = master
    Name <- MCNames
    Proc = {p1, p2}
    NoProc = NoProc
    Empty = Empty
    MaxOps = 3
    LockTime = 1
    MaxClock = 2
    Sids = 6
    Expire = 1
SPECIFICATION FilesFairSpec
INVARIANTS EmptyIsOpen CountExact ClearForgets RamExpires  ClearedForGood LoginLasts LogoutLasts
 
CHECK_DEADLOCK FALSE
