SPECIFICATION LockFairSpec
CONSTANTS
    t1 = t1
    t2 = t2
    t3 = t3
    pA = pA
    pB = pB
    Thread = {t1, t2, t3}
    Proc = {pA, pB}
    ProcOf <- MCProcOf
    Path = {f}
    NoThread = NoThread
    MaxDepth = 2
    MaxRemovals = 1
INVARIANT StreamExclusion
INVARIANT NoHoldAndWait
PROPERTY LocksAndWaitsEnd
