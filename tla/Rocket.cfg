CONSTANTS
    Conn = {c1, c2, c3}
    NoConn = NoConn
    Die = Die
    Thread = {t1, t2}
    MinThreads = 1
    MaxThreads = 2
SPECIFICATION RocketFairSpec
INVARIANTS OneOwner NothingLost PoolSize AllClosed
PROPERTIES Served StopEnds
CHECK_DEADLOCK FALSE
