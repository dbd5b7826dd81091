--------------------------- MODULE MCPersistence ---------------------------
(* Threads t1 and t2 belong to process pA, thread t3 to process pB.        *)
EXTENDS Persistence

CONSTANTS t1, t2, t3, pA, pB

MCProcOf == [t \in Thread |-> IF t = t3 THEN pB ELSE pA]
=============================================================================
