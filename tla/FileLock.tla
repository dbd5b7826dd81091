------------------------------ MODULE FileLock ------------------------------
(***************************************************************************)
(* persistence.file_lock: the two-level lock every writer of a workspace   *)
(* file takes.  Level one is an RLock per path in the process's _LOCKS     *)
(* table; level two is an flock on the hidden file ".name.lock" next to    *)
(* the path.  A process may run several threads, several processes share   *)
(* the workspace, and a process may be killed at any step.                 *)
(*                                                                         *)
(* flock belongs to the file that was opened, not to its name: when the    *)
(* directory holding the lock file is deleted (profiles remove, profiles   *)
(* create --overwrite) the next open makes a new file.  A lock file is     *)
(* therefore a path and a generation.                                      *)
(***************************************************************************)
EXTENDS Naturals

CONSTANTS
    Thread,       \* threads of all the processes
    Proc,         \* operating system processes
    ProcOf,       \* the process a thread belongs to
    Path,         \* resolved paths that are locked
    NoThread,     \* "no thread owns it"
    MaxDepth,     \* bound: recursion depth a leaked RLock may reach
    MaxRemovals   \* bound: times the directory of a lock file is deleted

\* The directory of a lock file stays in place: one file locks a path for ever.
NoRemoval == MaxRemovals = 0

ASSUME LockAssumption ==
    /\ ProcOf \in [Thread -> Proc]
    /\ NoThread \notin Thread
    /\ MaxDepth \in Nat \ {0}
    /\ MaxRemovals \in Nat

VARIABLES
    pc,        \* [Thread -> Location]: where in file_lock the thread is
    req,       \* [Thread -> Path]: the path of its last call
    stream,    \* [Thread -> Generation]: the lock file its stream opened
    expired,   \* [Thread -> BOOLEAN]: its deadline has passed
    held,      \* [Thread -> SUBSET Path]: _HELD_PATHS.value
    owner,     \* [Proc \X Path -> Thread or NoThread]: owner of _LOCKS[path]
    depth,     \* [Proc \X Path -> Nat]: recursion count of that RLock
    flock,     \* [Path \X Generation -> Thread or NoThread]: kernel lock
    lockFile   \* [Path -> Generation]: the file an open of the name reaches

lockVars == <<pc, req, stream, expired, held, owner, depth, flock, lockFile>>

Generation == 0..MaxRemovals

Location == {"idle", "thread", "mkdir", "open", "poll", "missed", "held",
             "release"}

\* The locations at which the RLock has been acquired and not yet released.
Inside == {"mkdir", "open", "poll", "missed", "held", "release"}

Waiting == {"thread", "mkdir", "open", "poll", "missed"}

Key(t) == <<ProcOf[t], req[t]>>

Stream(t) == <<req[t], stream[t]>>

LockTypeOK ==
    /\ pc \in [Thread -> Location]
    /\ req \in [Thread -> Path]
    /\ stream \in [Thread -> Generation]
    /\ expired \in [Thread -> BOOLEAN]
    /\ held \in [Thread -> SUBSET Path]
    /\ owner \in [Proc \X Path -> Thread \cup {NoThread}]
    /\ depth \in [Proc \X Path -> Nat]
    /\ flock \in [Path \X Generation -> Thread \cup {NoThread}]
    /\ lockFile \in [Path -> Generation]

LockInit ==
    /\ pc = [t \in Thread |-> "idle"]
    /\ req \in [Thread -> Path]
    /\ stream = [t \in Thread |-> 0]
    /\ expired = [t \in Thread |-> FALSE]
    /\ held = [t \in Thread |-> {}]
    /\ owner = [k \in Proc \X Path |-> NoThread]
    /\ depth = [k \in Proc \X Path |-> 0]
    /\ flock = [s \in Path \X Generation |-> NoThread]
    /\ lockFile = [p \in Path |-> 0]

Goto(t, location) == pc' = [pc EXCEPT ![t] = location]

-----------------------------------------------------------------------------
(* The steps of one call, in the order of the code.                        *)

\* Mutant of Call: the _HELD_PATHS test is dropped.
CallNested(t, p) ==
    /\ pc[t] \in {"idle", "held"}
    /\ Goto(t, "thread")
    /\ req' = [req EXCEPT ![t] = p]
    /\ expired' = [expired EXCEPT ![t] = FALSE]
    /\ UNCHANGED <<stream, held, owner, depth, flock, lockFile>>

\* The deadline is fixed, no path is held by the thread, and the RLock of the
\* path is looked up.  A body that calls file_lock again is at "held".
Call(t, p) ==
    /\ pc[t] \in {"idle", "held"}
    /\ held[t] = {}
    /\ Goto(t, "thread")
    /\ req' = [req EXCEPT ![t] = p]
    /\ expired' = [expired EXCEPT ![t] = FALSE]
    /\ UNCHANGED <<stream, held, owner, depth, flock, lockFile>>

\* A call from inside a body is refused; the error leaves that body.
RefuseNested(t) ==
    /\ pc[t] = "held"
    /\ held[t] # {}
    /\ Goto(t, "release")
    /\ held' = [held EXCEPT ![t] = {}]
    /\ flock' = [flock EXCEPT ![Stream(t)] = NoThread]
    /\ UNCHANGED <<req, stream, expired, owner, depth, lockFile>>

\* Mutant of AcquireThread: each call makes an RLock of its own.
AcquireOwnLock(t) ==
    /\ pc[t] = "thread"
    /\ owner' = [owner EXCEPT ![Key(t)] = t]
    /\ depth' = [depth EXCEPT ![Key(t)] = @ + 1]
    /\ Goto(t, "mkdir")
    /\ UNCHANGED <<req, stream, expired, held, flock, lockFile>>

AcquireThread(t) ==
    /\ pc[t] = "thread"
    /\ owner[Key(t)] \in {NoThread, t}
    /\ owner' = [owner EXCEPT ![Key(t)] = t]
    /\ depth' = [depth EXCEPT ![Key(t)] = @ + 1]
    /\ Goto(t, "mkdir")
    /\ UNCHANGED <<req, stream, expired, held, flock, lockFile>>

ThreadTimeout(t) ==
    /\ pc[t] = "thread"
    /\ owner[Key(t)] \notin {NoThread, t}
    /\ expired[t]
    /\ Goto(t, "idle")
    /\ UNCHANGED <<req, stream, expired, held, owner, depth, flock, lockFile>>

MakeParent(t) ==
    /\ pc[t] = "mkdir"
    /\ Goto(t, "open")
    /\ UNCHANGED <<req, stream, expired, held, owner, depth, flock, lockFile>>

\* The mkdir stands between the acquire and the try, so its failure leaves
\* the RLock acquired for the life of the process.
MkdirFails(t) ==
    /\ pc[t] = "mkdir"
    /\ depth[Key(t)] < MaxDepth
    /\ Goto(t, "idle")
    /\ UNCHANGED <<req, stream, expired, held, owner, depth, flock, lockFile>>

OpenLockFile(t) ==
    /\ pc[t] = "open"
    /\ stream' = [stream EXCEPT ![t] = lockFile[req[t]]]
    /\ Goto(t, "poll")
    /\ UNCHANGED <<req, expired, held, owner, depth, flock, lockFile>>

\* open or flock fails with an OSError that is not "would block".
OpenFails(t) ==
    /\ pc[t] \in {"open", "poll"}
    /\ Goto(t, "release")
    /\ UNCHANGED <<req, stream, expired, held, owner, depth, flock, lockFile>>

TryLock(t) ==
    /\ pc[t] = "poll"
    /\ flock[Stream(t)] = NoThread
    /\ flock' = [flock EXCEPT ![Stream(t)] = t]
    /\ held' = [held EXCEPT ![t] = {req[t]}]
    /\ Goto(t, "held")
    /\ UNCHANGED <<req, stream, expired, owner, depth, lockFile>>

TryMiss(t) ==
    /\ pc[t] = "poll"
    /\ flock[Stream(t)] # NoThread
    /\ Goto(t, "missed")
    /\ UNCHANGED <<req, stream, expired, held, owner, depth, flock, lockFile>>

PollAgain(t) ==
    /\ pc[t] = "missed"
    /\ ~expired[t]
    /\ Goto(t, "poll")
    /\ UNCHANGED <<req, stream, expired, held, owner, depth, flock, lockFile>>

PollTimeout(t) ==
    /\ pc[t] = "missed"
    /\ expired[t]
    /\ Goto(t, "release")
    /\ UNCHANGED <<req, stream, expired, held, owner, depth, flock, lockFile>>

\* Mutant of ExitBody: the lock file is opened again by name to unlock it.
ExitBodyByName(t) ==
    /\ pc[t] = "held"
    /\ Goto(t, "release")
    /\ held' = [held EXCEPT ![t] = {}]
    /\ flock' = [flock EXCEPT ![<<req[t], lockFile[req[t]]>>] = NoThread]
    /\ UNCHANGED <<req, stream, expired, owner, depth, lockFile>>

\* The body returns or raises: the inner finally clears the thread's set and
\* drops the flock.
ExitBody(t) ==
    /\ pc[t] = "held"
    /\ Goto(t, "release")
    /\ held' = [held EXCEPT ![t] = {}]
    /\ flock' = [flock EXCEPT ![Stream(t)] = NoThread]
    /\ UNCHANGED <<req, stream, expired, owner, depth, lockFile>>

ReleaseThread(t) ==
    /\ pc[t] = "release"
    /\ depth' = [depth EXCEPT ![Key(t)] = @ - 1]
    /\ owner' = [owner EXCEPT ![Key(t)] =
                    IF depth[Key(t)] = 1 THEN NoThread ELSE t]
    /\ Goto(t, "idle")
    /\ UNCHANGED <<req, stream, expired, held, flock, lockFile>>

-----------------------------------------------------------------------------
(* The environment: time, process death, deleted directories.              *)

Expire(t) ==
    /\ pc[t] \in Waiting
    /\ ~expired[t]
    /\ expired' = [expired EXCEPT ![t] = TRUE]
    /\ UNCHANGED <<pc, req, stream, held, owner, depth, flock, lockFile>>

\* Processes die at any step: one is killed, or the machine goes down with
\* all of them.  The kernel closes their streams; their _LOCKS tables go with
\* them.  The next command of the user is the process restarted.
Crash(dead) ==
    LET Dies(t) == ProcOf[t] \in dead IN
    /\ pc' = [t \in Thread |-> IF Dies(t) THEN "idle" ELSE pc[t]]
    /\ held' = [t \in Thread |-> IF Dies(t) THEN {} ELSE held[t]]
    /\ owner' = [k \in Proc \X Path |->
                    IF k[1] \in dead THEN NoThread ELSE owner[k]]
    /\ depth' = [k \in Proc \X Path |-> IF k[1] \in dead THEN 0 ELSE depth[k]]
    /\ flock' = [s \in Path \X Generation |->
                    IF flock[s] \in Thread /\ Dies(flock[s])
                    THEN NoThread ELSE flock[s]]
    /\ UNCHANGED <<req, stream, expired, lockFile>>

\* shutil.rmtree of the directory, by a command that takes no lock.
RemoveDirectory(p) ==
    /\ lockFile[p] < MaxRemovals
    /\ lockFile' = [lockFile EXCEPT ![p] = @ + 1]
    /\ UNCHANGED <<pc, req, stream, expired, held, owner, depth, flock>>

-----------------------------------------------------------------------------

\* A thread's own steps once it has made a call; the body's end excluded.
Progress(t) ==
    \/ AcquireThread(t) \/ ThreadTimeout(t)
    \/ MakeParent(t) \/ MkdirFails(t)
    \/ OpenLockFile(t) \/ OpenFails(t)
    \/ TryLock(t) \/ TryMiss(t)
    \/ PollAgain(t) \/ PollTimeout(t)
    \/ ReleaseThread(t)

BodyEnds(t) ==
    \/ RefuseNested(t)
    \/ ExitBody(t)

LockNext ==
    \/ \E t \in Thread :
          \/ \E p \in Path : Call(t, p)
          \/ Progress(t)
          \/ BodyEnds(t)
          \/ Expire(t)
    \/ \E dead \in SUBSET Proc : Crash(dead)
    \/ \E p \in Path : RemoveDirectory(p)

LockSpec == LockInit /\ [][LockNext]_lockVars

\* A runnable thread is scheduled, time passes, and a body is a bounded piece
\* of file I/O; nothing is assumed of the order in which the kernel serves
\* the waiters, of new calls, of crashes or of deletions.
LockFairness ==
    \A t \in Thread :
        /\ WF_lockVars(Progress(t))
        /\ WF_lockVars(BodyEnds(t))
        /\ WF_lockVars(Expire(t))

LockFairSpec == LockSpec /\ LockFairness

-----------------------------------------------------------------------------
(* Properties.                                                             *)

\* Concurrent writers are serialized across threads and processes: no two
\* threads are in the body of file_lock for the same path.
MutualExclusion ==
    \A t, u \in Thread :
        pc[t] = "held" /\ pc[u] = "held" /\ req[t] = req[u] => t = u

\* What the two levels give when directories may be deleted: the RLock keeps
\* the threads of one process apart whatever they opened, the flock keeps
\* apart the processes that opened the same lock file.
StreamExclusion ==
    \A t, u \in Thread :
        pc[t] = "held" /\ pc[u] = "held" /\ req[t] = req[u] =>
            t = u \/ (stream[t] # stream[u] /\ ProcOf[t] # ProcOf[u])

\* Nesting is refused to prevent cross-file deadlocks: a thread that waits for
\* a lock, or has left file_lock by a return, an error, a timeout or a crash,
\* keeps no kernel lock that another thread may wait for.
NoHoldAndWait ==
    \A t \in Thread : pc[t] \in Waiting \cup {"idle"} =>
        \A s \in Path \X Generation : flock[s] # t

\* _HELD_PATHS names the locked path for exactly the time the thread is in the
\* body: left set by an error it would refuse every later write of the thread,
\* unset too early it would let a nested call through.
HeldPathsMatchBody ==
    \A t \in Thread : held[t] = IF pc[t] = "held" THEN {req[t]} ELSE {}

\* "timeout raises a clear error instead of hanging indefinitely"
\* (development/setup.md): a thread that waits enters the body or leaves the
\* call, however the other threads and processes behave; and whoever takes the
\* lock file of a path lets go of it, also when the name has come to mean
\* another file meanwhile.
LocksAndWaitsEnd ==
    /\ \A t \in Thread : pc[t] \in Waiting ~> pc[t] \notin Waiting
    /\ \A s \in Path \X Generation, t \in Thread : flock[s] = t ~> flock[s] # t

\* A thread between the acquire and the release of the RLock owns it.
ThreadLockOwned ==
    \A t \in Thread : pc[t] \in Inside =>
        owner[Key(t)] = t /\ depth[Key(t)] > 0

\* A thread in the body holds the kernel lock of the file it opened, and no
\* kernel lock is held but by a thread in the body.
FlockMatchesBody ==
    /\ \A t \in Thread : pc[t] = "held" => flock[Stream(t)] = t
    /\ \A s \in Path \X Generation : flock[s] # NoThread =>
          pc[flock[s]] = "held" /\ Stream(flock[s]) = s

\* The inductive invariant behind the safety properties.
LockInv ==
    /\ LockTypeOK
    /\ HeldPathsMatchBody
    /\ ThreadLockOwned
    /\ FlockMatchesBody
=============================================================================
