------------------------- MODULE PersistenceProofs -------------------------
(***************************************************************************)
(* persistence.py for any number of threads, processes and paths: the      *)
(* exclusion of file_lock (LockInv is inductive; the safety properties     *)
(* follow from it), and the writers, which use file_lock as FileLock       *)
(* describes it, never expose a torn document, and implement the atomic    *)
(* store.                                                                  *)
(***************************************************************************)
EXTENDS Persistence, FiniteSetTheorems, SequenceTheorems, TLAPS

-----------------------------------------------------------------------------
(* The lock.                                                               *)

\* The index of a thread's RLock and the lock file it opened are in range.
LEMMA LockIndices ==
    ASSUME LockTypeOK, NEW t \in Thread
    PROVE  /\ pc[t] \in Location
           /\ req[t] \in Path
           /\ stream[t] \in Generation
           /\ Key(t) \in Proc \X Path
           /\ Key(t) = <<ProcOf[t], req[t]>>
           /\ Stream(t) \in Path \X Generation
           /\ Stream(t) = <<req[t], stream[t]>>
  BY LockAssumption DEF LockTypeOK, Key, Stream

\* In the initial states no lock is held and none is recorded.
LEMMA LockInitInv == LockInit => LockInv
  <1> SUFFICES ASSUME LockInit PROVE LockInv
    OBVIOUS
  <1>1. LockTypeOK
    BY LockAssumption DEF LockInit, LockTypeOK, Location, Generation
  <1>2. HeldPathsMatchBody /\ ThreadLockOwned /\ FlockMatchesBody
    BY LockAssumption
       DEF LockInit, HeldPathsMatchBody, ThreadLockOwned, FlockMatchesBody,
           Inside
  <1> QED
    BY <1>1, <1>2 DEF LockInv

\* Every step keeps the variables in their types.
LEMMA LockTypeStep ==
    ASSUME LockInv, [LockNext]_lockVars PROVE LockTypeOK'
  <1> USE LockAssumption DEF LockTypeOK, LockInv, Location, Goto
  <1>1. ASSUME NEW t \in Thread, NEW p \in Path, Call(t, p)
        PROVE  LockTypeOK'
    BY <1>1 DEF Call
  <1>2. ASSUME NEW t \in Thread, AcquireThread(t)
        PROVE  LockTypeOK'
    BY <1>2, LockIndices DEF AcquireThread
  <1>3. ASSUME NEW t \in Thread, ReleaseThread(t)
        PROVE  LockTypeOK'
    <2>1. depth[Key(t)] \in Nat /\ depth[Key(t)] > 0
      BY <1>3, LockIndices DEF ReleaseThread, ThreadLockOwned, Inside
    <2>2. depth[Key(t)] - 1 \in Nat
      BY <2>1
    <2> QED
      BY <1>3, <2>2, LockIndices DEF ReleaseThread
  <1>4. ASSUME NEW t \in Thread,
               \/ ThreadTimeout(t) \/ MakeParent(t) \/ MkdirFails(t)
               \/ OpenFails(t) \/ TryMiss(t) \/ PollAgain(t) \/ PollTimeout(t)
        PROVE  LockTypeOK'
    BY <1>4 DEF ThreadTimeout, MakeParent, MkdirFails, OpenFails, TryMiss,
                PollAgain, PollTimeout
  <1>5. ASSUME NEW t \in Thread, OpenLockFile(t)
        PROVE  LockTypeOK'
    BY <1>5, LockIndices DEF OpenLockFile
  <1>6. ASSUME NEW t \in Thread, TryLock(t)
        PROVE  LockTypeOK'
    BY <1>6, LockIndices DEF TryLock
  <1>7. ASSUME NEW t \in Thread, RefuseNested(t) \/ ExitBody(t)
        PROVE  LockTypeOK'
    BY <1>7, LockIndices DEF RefuseNested, ExitBody
  <1>8. ASSUME NEW t \in Thread, Expire(t)
        PROVE  LockTypeOK'
    BY <1>8 DEF Expire
  <1>9. ASSUME NEW dead \in SUBSET Proc, Crash(dead)
        PROVE  LockTypeOK'
    BY <1>9 DEF Crash
  <1>10. ASSUME NEW p \in Path, RemoveDirectory(p)
         PROVE  LockTypeOK'
    BY <1>10 DEF RemoveDirectory, Generation
  <1>11. CASE UNCHANGED lockVars
    BY <1>11 DEF lockVars
  <1> QED
    BY <1>1, <1>2, <1>3, <1>4, <1>5, <1>6, <1>7, <1>8, <1>9, <1>10, <1>11
       DEF LockNext, Progress, BodyEnds

\* _HELD_PATHS follows the body through every step.
LEMMA HeldPathsStep ==
    ASSUME LockInv, [LockNext]_lockVars PROVE HeldPathsMatchBody'
  <1> USE LockAssumption DEF LockTypeOK, LockInv, Location, Goto,
                             HeldPathsMatchBody
  <1>1. ASSUME NEW t \in Thread, NEW p \in Path, Call(t, p)
        PROVE  HeldPathsMatchBody'
    BY <1>1 DEF Call
  <1>2. ASSUME NEW t \in Thread, Progress(t)
        PROVE  HeldPathsMatchBody'
    BY <1>2 DEF Progress, AcquireThread, ThreadTimeout, MakeParent, MkdirFails,
                OpenLockFile, OpenFails, TryLock, TryMiss, PollAgain,
                PollTimeout, ReleaseThread
  <1>3. ASSUME NEW t \in Thread, BodyEnds(t)
        PROVE  HeldPathsMatchBody'
    BY <1>3 DEF BodyEnds, RefuseNested, ExitBody
  <1>4. ASSUME NEW t \in Thread, Expire(t)
        PROVE  HeldPathsMatchBody'
    BY <1>4 DEF Expire
  <1>5. ASSUME NEW dead \in SUBSET Proc, Crash(dead)
        PROVE  HeldPathsMatchBody'
    BY <1>5 DEF Crash
  <1>6. ASSUME NEW p \in Path, RemoveDirectory(p)
        PROVE  HeldPathsMatchBody'
    BY <1>6 DEF RemoveDirectory
  <1>7. CASE UNCHANGED lockVars
    BY <1>7 DEF lockVars
  <1> QED
    BY <1>1, <1>2, <1>3, <1>4, <1>5, <1>6, <1>7 DEF LockNext

\* A thread inside keeps its RLock: an acquire needs it free or one's own, and
\* a release is made by the thread that owns it.
LEMMA ThreadLockStep ==
    ASSUME LockInv, [LockNext]_lockVars PROVE ThreadLockOwned'
  <1> SUFFICES ASSUME NEW u \in Thread, pc'[u] \in Inside
               PROVE  owner'[Key(u)'] = u /\ depth'[Key(u)'] > 0
    BY DEF ThreadLockOwned
  <1> USE LockAssumption DEF LockTypeOK, LockInv, Location, Goto, Key, Inside,
                             ThreadLockOwned
  <1>1. ASSUME NEW t \in Thread, NEW p \in Path, Call(t, p)
        PROVE  owner'[Key(u)'] = u /\ depth'[Key(u)'] > 0
    BY <1>1 DEF Call
  <1>2. ASSUME NEW t \in Thread, AcquireThread(t)
        PROVE  owner'[Key(u)'] = u /\ depth'[Key(u)'] > 0
    <2>1. CASE u = t
      BY <1>2, <2>1 DEF AcquireThread
    <2>2. CASE u # t
      <3>1. pc[u] \in Inside /\ owner[Key(u)] = u /\ depth[Key(u)] > 0
        BY <1>2, <2>2 DEF AcquireThread
      <3>2. Key(u) # Key(t)
        BY <1>2, <2>2, <3>1 DEF AcquireThread
      <3> QED
        BY <1>2, <3>1, <3>2 DEF AcquireThread
    <2> QED
      BY <2>1, <2>2
  <1>3. ASSUME NEW t \in Thread, ReleaseThread(t)
        PROVE  owner'[Key(u)'] = u /\ depth'[Key(u)'] > 0
    <2>1. u # t /\ pc[u] \in Inside /\ owner[Key(u)] = u /\ depth[Key(u)] > 0
      BY <1>3 DEF ReleaseThread
    <2>2. owner[Key(t)] = t
      BY <1>3 DEF ReleaseThread
    <2>3. Key(u) # Key(t)
      BY <2>1, <2>2
    <2> QED
      BY <1>3, <2>1, <2>3 DEF ReleaseThread
  <1>4. ASSUME NEW t \in Thread,
               \/ ThreadTimeout(t) \/ MakeParent(t) \/ MkdirFails(t)
               \/ OpenLockFile(t) \/ OpenFails(t) \/ TryLock(t) \/ TryMiss(t)
               \/ PollAgain(t) \/ PollTimeout(t) \/ BodyEnds(t) \/ Expire(t)
        PROVE  owner'[Key(u)'] = u /\ depth'[Key(u)'] > 0
    BY <1>4 DEF ThreadTimeout, MakeParent, MkdirFails, OpenLockFile, OpenFails,
                TryLock, TryMiss, PollAgain, PollTimeout, BodyEnds,
                RefuseNested, ExitBody, Expire
  <1>5. ASSUME NEW dead \in SUBSET Proc, Crash(dead)
        PROVE  owner'[Key(u)'] = u /\ depth'[Key(u)'] > 0
    BY <1>5, LockIndices DEF Crash
  <1>6. ASSUME NEW p \in Path, RemoveDirectory(p)
        PROVE  owner'[Key(u)'] = u /\ depth'[Key(u)'] > 0
    BY <1>6 DEF RemoveDirectory
  <1>7. CASE UNCHANGED lockVars
    BY <1>7 DEF lockVars
  <1> QED
    BY <1>1, <1>2, <1>3, <1>4, <1>5, <1>6, <1>7 DEF LockNext, Progress

\* The kernel lock and the body go together: TryLock takes a free lock, the
\* end of the body drops that very lock, and a death drops it with the body.
LEMMA FlockStep ==
    ASSUME LockInv, [LockNext]_lockVars PROVE FlockMatchesBody'
  <1> USE LockAssumption DEF LockTypeOK, LockInv, Location, Goto, Stream,
                             FlockMatchesBody
  <1>1. ASSUME NEW t \in Thread, NEW p \in Path, Call(t, p)
        PROVE  FlockMatchesBody'
    <2>1. pc[t] # "held"
      BY <1>1 DEF Call, HeldPathsMatchBody
    <2> QED
      BY <1>1, <2>1 DEF Call
  <1>2. ASSUME NEW t \in Thread, TryLock(t)
        PROVE  FlockMatchesBody'
    BY <1>2, LockIndices DEF TryLock
  <1>3. ASSUME NEW t \in Thread, BodyEnds(t)
        PROVE  FlockMatchesBody'
    <2>1. /\ pc[t] = "held" /\ pc' = [pc EXCEPT ![t] = "release"]
          /\ flock' = [flock EXCEPT ![Stream(t)] = NoThread]
          /\ UNCHANGED <<req, stream>>
      BY <1>3 DEF BodyEnds, RefuseNested, ExitBody
    <2>2. /\ Stream(t) \in Path \X Generation
          /\ flock[Stream(t)] = t
      BY <2>1, LockIndices
    <2>3. ASSUME NEW u \in Thread, pc'[u] = "held"
          PROVE  flock'[Stream(u)'] = u
      <3>1. u # t /\ pc[u] = "held" /\ flock[Stream(u)] = u
        BY <2>1, <2>3
      <3>2. Stream(u)' = Stream(u) /\ Stream(u) # Stream(t)
        BY <2>1, <2>2, <3>1
      <3> QED
        BY <2>1, <3>1, <3>2, LockIndices
    <2>4. ASSUME NEW s \in Path \X Generation, flock'[s] # NoThread
          PROVE  (pc[flock[s]] = "held" /\ Stream(flock[s]) = s)'
      <3>1. s # Stream(t) /\ flock'[s] = flock[s]
        BY <2>1, <2>2, <2>4
      <3>2. /\ flock[s] \in Thread /\ flock[s] # t
            /\ pc[flock[s]] = "held" /\ Stream(flock[s]) = s
        BY <2>2, <2>4, <3>1
      <3> QED
        BY <2>1, <3>1, <3>2
    <2> QED
      BY <2>3, <2>4
  <1>4. ASSUME NEW t \in Thread, OpenLockFile(t)
        PROVE  FlockMatchesBody'
    BY <1>4 DEF OpenLockFile
  <1>5. ASSUME NEW t \in Thread,
               \/ AcquireThread(t) \/ ThreadTimeout(t) \/ MakeParent(t)
               \/ MkdirFails(t) \/ OpenFails(t) \/ TryMiss(t) \/ PollAgain(t)
               \/ PollTimeout(t) \/ ReleaseThread(t) \/ Expire(t)
        PROVE  FlockMatchesBody'
    BY <1>5 DEF AcquireThread, ThreadTimeout, MakeParent, MkdirFails, OpenFails,
                TryMiss, PollAgain, PollTimeout, ReleaseThread, Expire
  <1>6. ASSUME NEW dead \in SUBSET Proc, Crash(dead)
        PROVE  FlockMatchesBody'
    BY <1>6, LockIndices DEF Crash
  <1>7. ASSUME NEW p \in Path, RemoveDirectory(p)
        PROVE  FlockMatchesBody'
    BY <1>7 DEF RemoveDirectory
  <1>8. CASE UNCHANGED lockVars
    BY <1>8 DEF lockVars
  <1> QED
    BY <1>1, <1>2, <1>3, <1>4, <1>5, <1>6, <1>7, <1>8 DEF LockNext, Progress

\* The inductive invariant holds in every reachable state: the bookkeeping of
\* threads, RLocks and kernel locks never drifts apart, whatever fails or dies.
THEOREM LockInvariant == LockSpec => []LockInv
  <1>1. LockInv /\ [LockNext]_lockVars => LockInv'
    BY LockTypeStep, HeldPathsStep, ThreadLockStep, FlockStep DEF LockInv
  <1> QED
    BY <1>1, LockInitInv, PTL DEF LockSpec

\* Two threads in the body for one path opened different lock files and live
\* in different processes: the exclusion the code gives unconditionally.
THEOREM LockStreamExclusion == LockSpec => []StreamExclusion
  <1>1. LockInv => StreamExclusion
    <2> SUFFICES ASSUME LockInv, NEW t \in Thread, NEW u \in Thread,
                        pc[t] = "held", pc[u] = "held", req[t] = req[u], t # u
                 PROVE  stream[t] # stream[u] /\ ProcOf[t] # ProcOf[u]
      BY DEF StreamExclusion
    <2>1. flock[Stream(t)] = t /\ flock[Stream(u)] = u
      BY DEF LockInv, FlockMatchesBody
    <2>2. owner[Key(t)] = t /\ owner[Key(u)] = u
      BY DEF LockInv, ThreadLockOwned, Inside
    <2> QED
      BY <2>1, <2>2 DEF Stream, Key
  <1> QED
    BY <1>1, LockInvariant, PTL

\* While the directory of the lock file stays in place, concurrent writers are
\* serialized: no two threads are in the body of file_lock for the same path.
THEOREM LockMutualExclusion ==
    ASSUME NoRemoval PROVE LockSpec => []MutualExclusion
  <1>1. LockInv /\ StreamExclusion => MutualExclusion
    <2> SUFFICES ASSUME LockInv, StreamExclusion,
                        NEW t \in Thread, NEW u \in Thread,
                        pc[t] = "held", pc[u] = "held", req[t] = req[u]
                 PROVE  t = u
      BY DEF MutualExclusion
    <2>1. stream[t] = 0 /\ stream[u] = 0
      BY NoRemoval DEF LockInv, LockTypeOK, Generation, NoRemoval
    <2> QED
      BY <2>1 DEF StreamExclusion
  <1> QED
    BY <1>1, LockInvariant, LockStreamExclusion, PTL

\* No thread waits for a lock, or walks away, while it keeps a kernel lock:
\* waiting threads cannot form a cycle over kernel locks.
THEOREM LockNoHoldAndWait == LockSpec => []NoHoldAndWait
  <1>1. LockInv => NoHoldAndWait
    BY LockAssumption
       DEF LockInv, FlockMatchesBody, NoHoldAndWait, Waiting
  <1> QED
    BY <1>1, LockInvariant, PTL

-----------------------------------------------------------------------------
(* The writers.                                                            *)

\* Every step of a writer is a step of file_lock or leaves the lock alone.
LEMMA WriterTakesLockStep ==
    ASSUME TypeOK, [Next]_vars PROVE [LockNext]_lockVars
  <1>1. ASSUME NEW t \in Thread, NEW o \in Ops, Load(t, o)
        PROVE  UNCHANGED lockVars
    BY <1>1 DEF Load
  <1>2. ASSUME NEW t \in Thread, Enter(t)
        PROVE  \E p \in Path : Call(t, p)
    BY <1>2 DEF Enter, TypeOK
  <1>3. ASSUME NEW t \in Thread, ThreadStep(t)
        PROVE  Progress(t) \/ BodyEnds(t) \/ UNCHANGED lockVars
    BY <1>3 DEF ThreadStep, LockStep, Read, ReadFails, WriteTemporary,
                SyncTemporary, WriteFails, Replace, SyncDirectory,
                SyncDirectoryFails, BodyEnds
  <1>4. ASSUME NEW t \in Thread, DeadlinePasses(t)
        PROVE  Expire(t)
    BY <1>4 DEF DeadlinePasses
  <1>5. ASSUME NEW p \in Proc, Kill(p)
        PROVE  \E dead \in SUBSET Proc : Crash(dead)
    BY <1>5 DEF Kill
  <1>6. ASSUME PowerFails
        PROVE  \E dead \in SUBSET Proc : Crash(dead)
    BY <1>6 DEF PowerFails
  <1>7. CASE UNCHANGED vars
    BY <1>7 DEF vars
  <1> QED
    BY <1>1, <1>2, <1>3, <1>4, <1>5, <1>6, <1>7 DEF Next, LockNext

\* No document is torn or unflushed, and no operation is under way, at first.
LEMMA StoreInitInv == Init => StoreInv
  <1> SUFFICES ASSUME Init PROVE StoreInv
    OBVIOUS
  <1>1. LockInv
    BY LockInitInv DEF Init
  <1>2. TypeOK
    BY <1>1 DEF Init, TypeOK, LockInv, Step, Document
  <1>3. BodySteps /\ WorksOnCurrent
    BY DEF Init, BodySteps, WorksOnCurrent
  <1>4. \A p \in Path : file[p] # Torn /\ flushed[p]
    BY PersistenceAssumption DEF Init
  <1> QED
    BY <1>1, <1>2, <1>3, <1>4 DEF StoreInv

\* The lock invariant holds after every step of a writer.
LEMMA WriterLockInv ==
    ASSUME StoreInv, [Next]_vars PROVE LockInv'
  <1>1. LockInv /\ [LockNext]_lockVars
    BY WriterTakesLockStep DEF StoreInv
  <1> QED
    BY <1>1, LockTypeStep, HeldPathsStep, ThreadLockStep, FlockStep
       DEF LockInv

\* Two writers of one document are never both between read and replace.
LEMMA OneWriterPerDocument ==
    ASSUME StoreInv, NEW t \in Thread, NEW u \in Thread,
           step[t] \in {"ready", "temp", "synced", "replaced"},
           step[u] \in {"ready", "temp", "synced", "replaced"},
           target[t] = target[u]
    PROVE  t = u
  <1>1. pc[t] = "held" /\ pc[u] = "held" /\ req[t] = req[u]
    BY DEF StoreInv, BodySteps
  <1>2. stream[t] = 0 /\ stream[u] = 0
    BY PersistenceAssumption
       DEF StoreInv, LockInv, LockTypeOK, Generation, NoRemoval
  <1>3. flock[Stream(t)] = t /\ flock[Stream(u)] = u
    BY <1>1 DEF StoreInv, LockInv, FlockMatchesBody
  <1> QED
    BY <1>1, <1>2, <1>3 DEF Stream

\* Every step keeps the variables of the documents in their types.
LEMMA WriterTypeStep ==
    ASSUME StoreInv, [Next]_vars PROVE TypeOK'
  <1> USE PersistenceAssumption DEF StoreInv, TypeOK, Step, Document, StepTo
  <1>1. LockTypeOK'
    BY WriterLockInv DEF LockInv
  <1>2. ASSUME NEW t \in Thread, NEW o \in Ops, Load(t, o)
        PROVE  TypeOK'
    <2>1. PICK p \in Path :
             /\ file[p] # Torn
             /\ target' = [target EXCEPT ![t] = p]
             /\ seen' = [seen EXCEPT ![t] =
                           IF o = "update" THEN {} ELSE file[p]]
      BY <1>2 DEF Load
    <2>2. (IF o = "update" THEN {} ELSE file[p]) \in Document
      BY <2>1
    <2> QED
      BY <1>1, <1>2, <2>1, <2>2 DEF Load
  <1>3. ASSUME NEW t \in Thread, Enter(t) \/ WriteTemporary(t)
                 \/ SyncTemporary(t) \/ WriteFails(t) \/ ReadFails(t)
                 \/ SyncDirectoryFails(t) \/ DeadlinePasses(t)
        PROVE  TypeOK'
    BY <1>1, <1>3 DEF Enter, WriteTemporary, SyncTemporary, WriteFails,
          ReadFails, SyncDirectoryFails, DeadlinePasses, docVars
  <1>4. ASSUME NEW t \in Thread, LockStep(t)
        PROVE  TypeOK'
    BY <1>1, <1>4 DEF LockStep
  <1>5. ASSUME NEW t \in Thread, Read(t)
        PROVE  TypeOK'
    <2>1. /\ seen' \in [Thread -> Document]
          /\ step' = [step EXCEPT ![t] = "ready"]
          /\ UNCHANGED <<op, target, file, disk, flushed, acked>>
      BY <1>5 DEF Read
    <2> QED
      BY <1>1, <2>1
  <1>6. ASSUME NEW t \in Thread, Replace(t)
        PROVE  TypeOK'
    BY <1>1, <1>6 DEF Replace
  <1>7. ASSUME NEW t \in Thread, SyncDirectory(t)
        PROVE  TypeOK'
    <2>1. disk' \in [Path -> Document]
      BY <1>7 DEF SyncDirectory
    <2> QED
      BY <1>1, <1>7, <2>1 DEF SyncDirectory
  <1>8. ASSUME NEW p \in Proc, Kill(p)
        PROVE  TypeOK'
    BY <1>1, <1>8 DEF Kill, Forget
  <1>9. ASSUME PowerFails
        PROVE  TypeOK'
    <2>1. /\ file' \in [Path -> {Torn} \cup Document]
          /\ disk' \in [Path -> Document]
      BY <1>9 DEF PowerFails
    <2> QED
      BY <1>1, <1>9, <2>1 DEF PowerFails, Forget
  <1>10. CASE UNCHANGED vars
    BY <1>1, <1>10 DEF vars, docVars
  <1> QED
    BY <1>2, <1>3, <1>4, <1>5, <1>6, <1>7, <1>8, <1>9, <1>10
       DEF Next, ThreadStep

\* A writer between read and replace is in the body for its document.
LEMMA WriterBodyStep ==
    ASSUME StoreInv, [Next]_vars PROVE BodySteps'
  <1> USE DEF StoreInv, TypeOK, LockTypeOK, BodySteps, Step, StepTo, Goto
  <1>1. ASSUME NEW t \in Thread, NEW o \in Ops, Load(t, o)
        PROVE  BodySteps'
    BY <1>1 DEF Load, lockVars
  <1>2. ASSUME NEW t \in Thread, Enter(t)
        PROVE  BodySteps'
    BY <1>2 DEF Enter, Call
  <1>3. ASSUME NEW t \in Thread, LockStep(t)
        PROVE  BodySteps'
    <2>1. pc[t] # "held" /\ req' = req /\ target' = target
      BY <1>3 DEF LockStep, Progress, AcquireThread, ThreadTimeout, MakeParent,
                  MkdirFails, OpenLockFile, OpenFails, TryLock, TryMiss,
                  PollAgain, PollTimeout, ReleaseThread
    <2>2. \A u \in Thread : u # t => pc'[u] = pc[u]
      BY <1>3 DEF LockStep, Progress, AcquireThread, ThreadTimeout, MakeParent,
                  MkdirFails, OpenLockFile, OpenFails, TryLock, TryMiss,
                  PollAgain, PollTimeout, ReleaseThread
    <2>3. \A u \in Thread : step'[u] = step[u] \/ step'[u] = "none"
      BY <1>3 DEF LockStep
    <2> QED
      BY <2>1, <2>2, <2>3
  <1>4. ASSUME NEW t \in Thread,
               Read(t) \/ WriteTemporary(t) \/ SyncTemporary(t) \/ Replace(t)
        PROVE  BodySteps'
    BY <1>4 DEF Read, WriteTemporary, SyncTemporary, Replace, lockVars
  <1>5. ASSUME NEW t \in Thread, ReadFails(t) \/ WriteFails(t)
                 \/ SyncDirectory(t) \/ SyncDirectoryFails(t)
        PROVE  BodySteps'
    BY <1>5 DEF ReadFails, WriteFails, SyncDirectory, SyncDirectoryFails,
                ExitBody
  <1>6. ASSUME NEW t \in Thread, DeadlinePasses(t)
        PROVE  BodySteps'
    BY <1>6 DEF DeadlinePasses, Expire, docVars
  <1>7. ASSUME NEW p \in Proc, Kill(p)
        PROVE  BodySteps'
    BY <1>7 DEF Kill, Crash, Forget
  <1>8. ASSUME PowerFails
        PROVE  BodySteps'
    BY <1>8, LockAssumption DEF PowerFails, Crash, Forget
  <1>9. CASE UNCHANGED vars
    BY <1>9 DEF vars, docVars, lockVars
  <1> QED
    BY <1>1, <1>2, <1>3, <1>4, <1>5, <1>6, <1>7, <1>8, <1>9
       DEF Next, ThreadStep

\* What a transaction works from is not replaced under it, and replacements
\* put flushed bytes in place.
LEMMA WriterDocumentStep ==
    ASSUME StoreInv, [Next]_vars
    PROVE  /\ WorksOnCurrent'
           /\ (\A p \in Path : file[p] # Torn /\ flushed[p])'
  <1> USE PersistenceAssumption
      DEF StoreInv, TypeOK, WorksOnCurrent, Step, Document, StepTo
  <1> DEFINE Goal == /\ WorksOnCurrent'
                     /\ (\A p \in Path : file[p] # Torn /\ flushed[p])'
  <1>1. ASSUME NEW t \in Thread, NEW o \in Ops, Load(t, o)
        PROVE  Goal
    BY <1>1 DEF Load
  <1>2. ASSUME NEW t \in Thread, Enter(t) \/ WriteTemporary(t)
                 \/ SyncTemporary(t) \/ WriteFails(t) \/ ReadFails(t)
                 \/ SyncDirectory(t) \/ SyncDirectoryFails(t)
                 \/ DeadlinePasses(t)
        PROVE  Goal
    BY <1>2 DEF Enter, WriteTemporary, SyncTemporary, WriteFails, ReadFails,
          SyncDirectory, SyncDirectoryFails, DeadlinePasses, docVars
  <1>3. ASSUME NEW t \in Thread, LockStep(t)
        PROVE  Goal
    BY <1>3 DEF LockStep
  <1>4. ASSUME NEW t \in Thread, Read(t)
        PROVE  Goal
    <2>1. /\ step' = [step EXCEPT ![t] = "ready"]
          /\ UNCHANGED <<op, target, file, flushed>>
      BY <1>4 DEF Read
    <2>2. \A u \in Thread : u # t => seen'[u] = seen[u]
      BY <1>4 DEF Read
    <2>3. op[t] = "save" \/ seen'[t] = file[target[t]]
      BY <1>4 DEF Read
    <2> QED
      BY <2>1, <2>2, <2>3
  <1>5. ASSUME NEW t \in Thread, Replace(t)
        PROVE  Goal
    <2>1. /\ step[t] = "synced"
          /\ step' = [step EXCEPT ![t] = "replaced"]
          /\ file' = [file EXCEPT ![target[t]] = seen[t] \cup {t}]
          /\ flushed' = [flushed EXCEPT ![target[t]] = TRUE]
          /\ UNCHANGED <<op, target, seen>>
      BY <1>5 DEF Replace
    <2>2. ASSUME NEW u \in Thread, op'[u] # "save",
                 step'[u] \in {"ready", "temp", "synced"}
          PROVE  seen'[u] = file'[target'[u]]
      <3>1. u # t /\ step[u] \in {"ready", "temp", "synced"}
        BY <2>1, <2>2
      <3>2. target[u] # target[t]
        BY <2>1, <3>1, OneWriterPerDocument
      <3> QED
        BY <2>1, <2>2, <3>1, <3>2
    <2>3. \A p \in Path : file'[p] # Torn /\ flushed'[p]
      BY <2>1
    <2> QED
      BY <2>2, <2>3
  <1>6. ASSUME NEW p \in Proc, Kill(p)
        PROVE  Goal
    BY <1>6 DEF Kill, Forget
  <1>7. ASSUME PowerFails
        PROVE  Goal
    <2>1. \A t \in Thread : step'[t] = "none"
      BY <1>7, LockAssumption DEF PowerFails, Forget
    <2>2. \A p \in Path : file'[p] # Torn /\ flushed'[p]
      BY <1>7 DEF PowerFails
    <2> QED
      BY <2>1, <2>2
  <1>8. CASE UNCHANGED vars
    BY <1>8 DEF vars, docVars
  <1> QED
    BY <1>1, <1>2, <1>3, <1>4, <1>5, <1>6, <1>7, <1>8 DEF Next, ThreadStep

\* The inductive invariant of the writers holds in every reachable state.
THEOREM StoreInvariant == Spec => []StoreInv
  <1>1. StoreInv /\ [Next]_vars => StoreInv'
    BY WriterTypeStep, WriterLockInv, WriterBodyStep, WriterDocumentStep
       DEF StoreInv
  <1> QED
    BY <1>1, StoreInitInv, PTL DEF Spec

\* The writers use the lock as file_lock offers it, so what is proved of
\* file_lock holds of them.
THEOREM WritersLock == Spec => LockSpec
  <1>1. Init => LockInit
    BY DEF Init
  <1>2. StoreInv /\ [Next]_vars => [LockNext]_lockVars
    BY WriterTakesLockStep DEF StoreInv
  <1> QED
    BY <1>1, <1>2, StoreInvariant, PTL DEF Spec, LockSpec

\* An interruption at any point leaves every document complete: the name only
\* ever comes to refer to bytes that were fsynced before.
THEOREM DocumentsNeverTorn == Spec => []NeverTorn
  <1>1. StoreInv => NeverTorn
    BY DEF StoreInv, NeverTorn
  <1> QED
    BY <1>1, StoreInvariant, PTL

\* Transactional updates and compare-and-swap implement the atomic store, for
\* any number of processes and threads, through kills and power loss.
THEOREM WritersRefineAtomicStore ==
    ASSUME "save" \notin Ops PROVE Spec => RefinesAtomicStore
  <1>1. Init => Store!StoreInit
    BY DEF Init, Store!StoreInit
  <1>2. StoreInv /\ [Next]_vars => [Store!StoreNext]_(Store!storeVars)
    <2> SUFFICES ASSUME StoreInv, [Next]_vars
                 PROVE  Store!StoreNext \/ UNCHANGED <<file, disk>>
      BY DEF Store!storeVars
    <2>1. ASSUME NEW t \in Thread, Replace(t)
          PROVE  Store!Commit(target[t], t) /\ target[t] \in Path
      <3>1. op[t] # "save"
        BY DEF StoreInv, TypeOK
      <3> QED
        BY <2>1, <3>1 DEF Replace, StoreInv, WorksOnCurrent, TypeOK,
                          Store!Commit
    <2>2. ASSUME NEW t \in Thread, SyncDirectory(t)
          PROVE  \/ Store!Harden(target[t]) /\ target[t] \in Path
                 \/ UNCHANGED <<file, disk>>
      BY <2>2 DEF SyncDirectory, StoreInv, TypeOK, Store!Harden
    <2>3. ASSUME PowerFails
          PROVE  \E kept \in SUBSET Path : Store!PowerLoss(kept)
      <3>1. PICK kept \in SUBSET Path :
               file' = [p \in Path |->
                          IF p \notin kept THEN disk[p]
                          ELSE IF flushed[p] THEN file[p] ELSE Torn]
        BY <2>3 DEF PowerFails
      <3>2. file' = [p \in Path |-> IF p \in kept THEN file[p] ELSE disk[p]]
        BY <3>1 DEF StoreInv
      <3>3. disk' = file'
        BY <2>3, <3>2, PersistenceAssumption
           DEF PowerFails, StoreInv, TypeOK, Document
      <3> QED
        BY <3>2, <3>3 DEF Store!PowerLoss
    <2>4. CASE UNCHANGED vars
      BY <2>4 DEF vars, docVars
    <2> QED
      BY <2>1, <2>2, <2>3, <2>4
         DEF Next, ThreadStep, Load, Enter, LockStep, Read, ReadFails,
             WriteTemporary, SyncTemporary, WriteFails, SyncDirectoryFails,
             DeadlinePasses, Kill, docVars, Store!StoreNext
  <1> QED
    BY <1>1, <1>2, StoreInvariant, PTL
       DEF Spec, RefinesAtomicStore, Store!StoreSpec
-----------------------------------------------------------------------------
(* Acknowledged changes.                                                   *)

\* Where the change of a thread is: in the document from its replacement on,
\* and on disk too from the fsync of the directory on.  A thread whose call
\* returned starts no other.
ChangeInPlace ==
    \A t \in Thread :
        /\ t \in acked => step[t] = "none"
        /\ step[t] \in {"replaced", "done"} \/ t \in acked => t \in file[target[t]]
        /\ step[t] = "done" \/ t \in acked => t \in disk[target[t]]

\* A step that takes no thread further, changes no document on disk and takes
\* nothing out of a document leaves every change where it is.
LEMMA QuietAck ==
    ASSUME StoreInv, ChangeInPlace,
           \A u \in Thread : target'[u] = target[u] \/ (step'[u] = "loaded" /\ u \notin acked),
           \A u \in Thread : /\ step'[u] # "none" => u \notin acked
                             /\ step'[u] \in {"replaced", "done"} => step'[u] = step[u],
           acked' = acked, disk' = disk,
           \A p \in Path : file[p] \subseteq file'[p]
    PROVE  ChangeInPlace'
  <1> SUFFICES ASSUME NEW u \in Thread
               PROVE  /\ u \in acked' => step'[u] = "none"
                      /\ step'[u] \in {"replaced", "done"} \/ u \in acked' => u \in file'[target'[u]]
                      /\ step'[u] = "done" \/ u \in acked' => u \in disk'[target'[u]]
    BY DEF ChangeInPlace
  <1>1. target[u] \in Path
    BY DEF StoreInv, TypeOK
  <1>2. /\ u \in acked => step[u] = "none"
        /\ step[u] \in {"replaced", "done"} \/ u \in acked => u \in file[target[u]]
        /\ step[u] = "done" \/ u \in acked => u \in disk[target[u]]
    BY DEF ChangeInPlace
  <1>3. step'[u] \in {"replaced", "done"} \/ u \in acked => target'[u] = target[u]
    BY <1>2
  <1> QED
    BY <1>1, <1>2, <1>3

\* Transactional changes stay in place through every step.
LEMMA ChangeInPlaceStep ==
    ASSUME "save" \notin Ops, DirReadable,
           StoreInv, ChangeInPlace, [Next]_vars
    PROVE  ChangeInPlace'
  <1> USE PersistenceAssumption DEF Step, Document, StepTo
  <1>0. /\ step \in [Thread -> Step] /\ target \in [Thread -> Path]
        /\ file \in [Path -> {Torn} \cup Document] /\ disk \in [Path -> Document]
        /\ acked \subseteq Thread /\ op \in [Thread -> Ops \cup {"none"}]
    BY DEF StoreInv, TypeOK
  <1>1. ASSUME NEW t \in Thread, NEW o \in Ops, Load(t, o)
        PROVE  ChangeInPlace'
    <2>1. PICK p \in Path : target' = [target EXCEPT ![t] = p]
      BY <1>1 DEF Load
    <2>2. /\ t \notin acked /\ step' = [step EXCEPT ![t] = "loaded"]
          /\ UNCHANGED <<file, disk, acked>>
      BY <1>1 DEF Load
    <2>3. \A u \in Thread : /\ step'[u] # "none" => u \notin acked
                            /\ step'[u] \in {"replaced", "done"} => step'[u] = step[u]
      BY <1>0, <2>2 DEF ChangeInPlace
    <2>4. \A u \in Thread : target'[u] = target[u] \/ (step'[u] = "loaded" /\ u \notin acked)
      BY <1>0, <2>1, <2>2
    <2> QED
      BY <2>2, <2>3, <2>4, QuietAck
  <1>2. ASSUME NEW t \in Thread, Enter(t) \/ Read(t) \/ ReadFails(t) \/ WriteTemporary(t)
                 \/ SyncTemporary(t) \/ WriteFails(t) \/ SyncDirectoryFails(t)
        PROVE  ChangeInPlace'
    <2>1. PICK s \in {"locking", "ready", "failed", "temp", "synced"} :
             step' = [step EXCEPT ![t] = s]
      BY <1>2 DEF Enter, Read, ReadFails, WriteTemporary, SyncTemporary, WriteFails,
                  SyncDirectoryFails
    <2>2. step[t] # "none"
      BY <1>2 DEF Enter, Read, ReadFails, WriteTemporary, SyncTemporary, WriteFails,
                  SyncDirectoryFails
    <2>3. UNCHANGED <<target, file, disk, acked>>
      BY <1>2 DEF Enter, Read, ReadFails, WriteTemporary, SyncTemporary, WriteFails,
                  SyncDirectoryFails
    <2>4. \A u \in Thread : /\ step'[u] # "none" => u \notin acked
                            /\ step'[u] \in {"replaced", "done"} => step'[u] = step[u]
      BY <1>0, <2>1, <2>2 DEF ChangeInPlace
    <2> QED
      BY <2>3, <2>4, QuietAck
  <1>3. ASSUME NEW t \in Thread, LockStep(t)
        PROVE  ChangeInPlace'
    <2>1. UNCHANGED <<target, file, disk>>
      BY <1>3 DEF LockStep
    <2>2. CASE UNCHANGED <<step, acked>>
      BY <2>1, <2>2 DEF ChangeInPlace
    <2>3. CASE /\ step' = [step EXCEPT ![t] = "none"]
               /\ acked' = IF step[t] = "done" THEN acked \cup {t} ELSE acked
      BY <1>0, <2>1, <2>3 DEF ChangeInPlace
    <2> QED
      BY <1>3, <2>2, <2>3 DEF LockStep
  <1>4. ASSUME NEW t \in Thread, Replace(t)
        PROVE  ChangeInPlace'
    <2>1. /\ step[t] = "synced" /\ step' = [step EXCEPT ![t] = "replaced"]
          /\ file' = [file EXCEPT ![target[t]] = seen[t] \cup {t}]
          /\ UNCHANGED <<target, disk, acked>>
      BY <1>4 DEF Replace
    <2>2. seen[t] = file[target[t]]
      BY <1>0, <2>1 DEF StoreInv, WorksOnCurrent
    <2>3. \A p \in Path : file[p] \subseteq file'[p]
      BY <1>0, <2>1, <2>2
    <2>4. t \in file'[target[t]]
      BY <1>0, <2>1
    <2> QED
      BY <1>0, <2>1, <2>3, <2>4 DEF ChangeInPlace
  <1>5. ASSUME NEW t \in Thread, SyncDirectory(t)
        PROVE  ChangeInPlace'
    <2>1. /\ step[t] = "replaced" /\ step' = [step EXCEPT ![t] = "done"]
          /\ disk' = [disk EXCEPT ![target[t]] = file[target[t]]]
          /\ UNCHANGED <<target, file, acked>>
      BY <1>5 DEF SyncDirectory
    <2>2. ASSUME NEW u \in Thread, step'[u] = "done" \/ u \in acked'
          PROVE  u \in file[target[u]] /\ u \in disk'[target[u]]
      <3>1. u \in file[target[u]]
        BY <1>0, <2>1, <2>2 DEF ChangeInPlace
      <3>2. CASE target[u] = target[t]
        BY <1>0, <2>1, <3>1, <3>2
      <3>3. CASE target[u] # target[t]
        <4>1. disk'[target[u]] = disk[target[u]] /\ u # t
          BY <1>0, <2>1, <3>3
        <4>2. step[u] = "done" \/ u \in acked
          BY <1>0, <2>1, <2>2, <4>1
        <4> QED
          BY <3>1, <4>1, <4>2 DEF ChangeInPlace
      <3> QED
        BY <3>2, <3>3
    <2>3. \A u \in Thread : /\ u \in acked' => step'[u] = "none"
                            /\ step'[u] \in {"replaced", "done"} => u \in file'[target'[u]]
      BY <1>0, <2>1 DEF ChangeInPlace
    <2> QED
      BY <2>1, <2>2, <2>3 DEF ChangeInPlace
  <1>6. ASSUME NEW t \in Thread, DeadlinePasses(t)
        PROVE  ChangeInPlace'
    BY <1>6 DEF DeadlinePasses, docVars, ChangeInPlace
  <1>7. ASSUME NEW p \in Proc, Kill(p)
        PROVE  ChangeInPlace'
    <2>1. /\ \A u \in Thread : step'[u] \in {"none", step[u]}
          /\ UNCHANGED <<target, file, disk, acked>>
      BY <1>7 DEF Kill, Forget
    <2> QED
      BY <2>1 DEF ChangeInPlace
  <1>8. ASSUME PowerFails
        PROVE  ChangeInPlace'
    <2>1. \A u \in Thread : step'[u] = "none"
      BY <1>8, LockAssumption DEF PowerFails, Forget
    <2>2. PICK kept \in SUBSET Path :
             file' = [p \in Path |->
                        IF p \notin kept THEN disk[p]
                        ELSE IF flushed[p] THEN file[p] ELSE Torn]
      BY <1>8 DEF PowerFails
    <2>3. \A p \in Path : file'[p] \in {disk[p], file[p]} /\ file'[p] # Torn
      BY <1>0, <2>2 DEF StoreInv
    <2>4. \A p \in Path : disk'[p] = file'[p]
      BY <1>8, <2>3 DEF PowerFails
    <2>5. UNCHANGED <<target, acked>>
      BY <1>8 DEF PowerFails
    <2> QED
      BY <1>0, <2>1, <2>3, <2>4, <2>5 DEF ChangeInPlace
  <1>9. CASE UNCHANGED vars
    BY <1>9 DEF vars, docVars, ChangeInPlace
  <1> QED
    BY <1>1, <1>2, <1>3, <1>4, <1>5, <1>6, <1>7, <1>8, <1>9 DEF Next, ThreadStep

\* A transactional change whose call returned stays in its document: for any
\* number of writers, through kills and power loss, as long as a directory can
\* be fsynced.
THEOREM AcknowledgedStays ==
    ASSUME "save" \notin Ops, DirReadable PROVE Spec => []AcknowledgedChangeStays
  <1>1. Init => ChangeInPlace
    BY DEF Init, ChangeInPlace
  <1>2. StoreInv /\ ChangeInPlace /\ [Next]_vars => ChangeInPlace'
    BY ChangeInPlaceStep
  <1>3. StoreInv /\ ChangeInPlace => AcknowledgedChangeStays
    BY DEF ChangeInPlace, AcknowledgedChangeStays, StoreInv, TypeOK
  <1> QED
    BY <1>1, <1>2, <1>3, StoreInvariant, PTL DEF Spec
=============================================================================
