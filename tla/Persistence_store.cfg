SPECIFICATION Spec
CONSTANTS
    t1 = t1
    t2 = t2
    t3 = t3
    pA = pA
    pB = pB
    Thread = {t1, t3}
    Proc = {pA, pB}
    ProcOf <- MCProcOf
    Path = {f}
    NoThread = NoThread
    MaxDepth = 1
    MaxRemovals = 0
    Ops = {"update", "cas"}
    DirReadable = TRUE
    Torn = Torn
PROPERTY RefinesAtomicStore
INVARIANT AcknowledgedChangeStays
