---------------------------- MODULE Persistence ----------------------------
(***************************************************************************)
(* The writers of persistence.py on top of file_lock.  A caller changes a  *)
(* document in one of three ways:                                          *)
(*   "update"  atomic_update_json / atomic_update_yaml: read, transform    *)
(*             and replace under the lock;                                 *)
(*   "cas"     atomic_compare_and_swap_text: read before the lock, replace *)
(*             if the document is still the one read;                      *)
(*   "save"    a manager that holds the document loaded when the command   *)
(*             started and hands the whole of it to atomic_write_text      *)
(*             (environments, hardware, machines, stacks, orchestrators,   *)
(*             models).                                                    *)
(* A document is the set of changes it contains; a thread stands for one   *)
(* command and the one change it makes.  The directory stays in place.     *)
(***************************************************************************)
EXTENDS FileLock

CONSTANTS
    Ops,           \* the ways documents are changed in this system
    DirReadable,   \* the directory can be opened, so it can be fsynced
    Torn           \* a document whose bytes are incomplete

ASSUME PersistenceAssumption ==
    /\ Ops \subseteq {"update", "cas", "save"}
    /\ DirReadable \in BOOLEAN
    /\ NoRemoval
    /\ \A document \in SUBSET Thread : document # Torn

VARIABLES
    op,        \* [Thread -> Ops or "none"]
    target,    \* [Thread -> Path]: the document it changes
    step,      \* [Thread -> Step]: progress of the operation
    seen,      \* [Thread -> SUBSET Thread]: the document it works from
    file,      \* [Path -> document or Torn]: what an open of the path reads
    disk,      \* [Path -> document]: what the directory on disk refers to
    flushed,   \* [Path -> BOOLEAN]: the bytes of file[p] are on disk
    acked      \* threads whose call returned normally

docVars == <<op, target, step, seen, file, disk, flushed, acked>>

vars == <<lockVars, docVars>>

\* "temp" and "synced": the temporary file has been written, and fsynced.
\* "replaced": os.replace is done.  "failed" and "done": the body is left.
Step == {"none", "loaded", "locking", "ready", "temp", "synced", "replaced",
         "failed", "done"}

Document == SUBSET Thread

TypeOK ==
    /\ LockTypeOK
    /\ op \in [Thread -> Ops \cup {"none"}]
    /\ target \in [Thread -> Path]
    /\ step \in [Thread -> Step]
    /\ seen \in [Thread -> Document]
    /\ file \in [Path -> {Torn} \cup Document]
    /\ disk \in [Path -> Document]
    /\ flushed \in [Path -> BOOLEAN]
    /\ acked \subseteq Thread

Init ==
    /\ LockInit
    /\ target \in [Thread -> Path]
    /\ op = [t \in Thread |-> "none"]
    /\ step = [t \in Thread |-> "none"]
    /\ seen = [t \in Thread |-> {}]
    /\ file = [p \in Path |-> {}]
    /\ disk = [p \in Path |-> {}]
    /\ flushed = [p \in Path |-> TRUE]
    /\ acked = {}

StepTo(t, s) == step' = [step EXCEPT ![t] = s]

-----------------------------------------------------------------------------
(* Before the lock.                                                        *)

\* The command starts.  A "save" or "cas" reads its document here, without a
\* lock; an "update" reads nothing yet.  A document that does not parse ends
\* the command.
Load(t, o) ==
    /\ step[t] = "none"
    /\ pc[t] = "idle"
    /\ t \notin acked
    /\ \E p \in Path :
          /\ file[p] # Torn
          /\ target' = [target EXCEPT ![t] = p]
          /\ seen' = [seen EXCEPT ![t] = IF o = "update" THEN {} ELSE file[p]]
    /\ op' = [op EXCEPT ![t] = o]
    /\ StepTo(t, "loaded")
    /\ UNCHANGED lockVars
    /\ UNCHANGED <<file, disk, flushed, acked>>

Enter(t) ==
    /\ step[t] = "loaded"
    /\ Call(t, target[t])
    /\ StepTo(t, "locking")
    /\ UNCHANGED <<op, target, seen, file, disk, flushed, acked>>

\* A step of file_lock outside the body.  The call ends when it is idle
\* again, normally if the body ran to its end.
LockStep(t) ==
    /\ Progress(t)
    /\ IF pc'[t] = "idle"
       THEN /\ StepTo(t, "none")
            /\ op' = [op EXCEPT ![t] = "none"]
            /\ seen' = [seen EXCEPT ![t] = {}]
            /\ acked' = IF step[t] = "done" THEN acked \cup {t} ELSE acked
       ELSE UNCHANGED <<step, op, seen, acked>>
    /\ UNCHANGED <<target, file, disk, flushed>>

-----------------------------------------------------------------------------
(* In the body.                                                            *)

\* Mutant of Read: the expected document is not compared.
ReadUnchecked(t) ==
    /\ pc[t] = "held"
    /\ step[t] = "locking"
    /\ IF op[t] = "update"
       THEN /\ file[target[t]] # Torn
            /\ seen' = [seen EXCEPT ![t] = file[target[t]]]
       ELSE UNCHANGED seen
    /\ StepTo(t, "ready")
    /\ UNCHANGED lockVars
    /\ UNCHANGED <<op, target, file, disk, flushed, acked>>

\* The document the change is made to is the current one for an update, and
\* the one loaded earlier otherwise; "cas" insists that they are the same.
Read(t) ==
    /\ pc[t] = "held"
    /\ step[t] = "locking"
    /\ \/ /\ op[t] = "update"
          /\ file[target[t]] # Torn
          /\ seen' = [seen EXCEPT ![t] = file[target[t]]]
       \/ /\ op[t] = "cas"
          /\ file[target[t]] = seen[t]
          /\ UNCHANGED seen
       \/ op[t] = "save" /\ UNCHANGED seen
    /\ StepTo(t, "ready")
    /\ UNCHANGED lockVars
    /\ UNCHANGED <<op, target, file, disk, flushed, acked>>

\* The document does not parse or the transform raises; or it is not the
\* expected one: ConcurrentWriteError.
ReadFails(t) ==
    /\ step[t] = "locking"
    /\ \/ op[t] = "update"
       \/ op[t] = "cas" /\ file[target[t]] # seen[t]
    /\ ExitBody(t)
    /\ StepTo(t, "failed")
    /\ UNCHANGED <<op, target, seen, file, disk, flushed, acked>>

WriteTemporary(t) ==
    /\ pc[t] = "held"
    /\ step[t] = "ready"
    /\ StepTo(t, "temp")
    /\ UNCHANGED lockVars
    /\ UNCHANGED <<op, target, seen, file, disk, flushed, acked>>

SyncTemporary(t) ==
    /\ pc[t] = "held"
    /\ step[t] = "temp"
    /\ StepTo(t, "synced")
    /\ UNCHANGED lockVars
    /\ UNCHANGED <<op, target, seen, file, disk, flushed, acked>>

\* mkstemp, write, fsync, chmod or os.replace fails; the finally clause
\* removes the temporary file.
WriteFails(t) ==
    /\ step[t] \in {"ready", "temp", "synced"}
    /\ ExitBody(t)
    /\ StepTo(t, "failed")
    /\ UNCHANGED <<op, target, seen, file, disk, flushed, acked>>

\* os.replace: the name refers to the new bytes in one step.
Replace(t) ==
    /\ pc[t] = "held"
    /\ step[t] = "synced"
    /\ file' = [file EXCEPT ![target[t]] = seen[t] \cup {t}]
    /\ flushed' = [flushed EXCEPT ![target[t]] = (step[t] = "synced")]
    /\ StepTo(t, "replaced")
    /\ UNCHANGED lockVars
    /\ UNCHANGED <<op, target, seen, disk, acked>>

\* Mutant of SyncDirectory: the directory is not fsynced.
SyncDirectorySkipped(t) ==
    /\ step[t] = "replaced"
    /\ ExitBody(t)
    /\ StepTo(t, "done")
    /\ UNCHANGED <<op, target, seen, file, disk, flushed, acked>>

\* The directory is fsynced and the body ends.  When the directory cannot be
\* opened, _fsync_directory returns without an error.
SyncDirectory(t) ==
    /\ step[t] = "replaced"
    /\ ExitBody(t)
    /\ disk' = IF DirReadable THEN [disk EXCEPT ![target[t]] = file[target[t]]]
                              ELSE disk
    /\ StepTo(t, "done")
    /\ UNCHANGED <<op, target, seen, file, flushed, acked>>

\* fsync of the directory fails: the call raises although the new document
\* is in place.
SyncDirectoryFails(t) ==
    /\ step[t] = "replaced"
    /\ DirReadable
    /\ ExitBody(t)
    /\ StepTo(t, "failed")
    /\ UNCHANGED <<op, target, seen, file, disk, flushed, acked>>

-----------------------------------------------------------------------------
(* The environment.                                                        *)

DeadlinePasses(t) == Expire(t) /\ UNCHANGED docVars

Forget(dead) ==
    LET Dies(t) == ProcOf[t] \in dead IN
    /\ step' = [t \in Thread |-> IF Dies(t) THEN "none" ELSE step[t]]
    /\ op' = [t \in Thread |-> IF Dies(t) THEN "none" ELSE op[t]]
    /\ seen' = [t \in Thread |-> IF Dies(t) THEN {} ELSE seen[t]]

Kill(p) ==
    /\ Crash({p})
    /\ Forget({p})
    /\ UNCHANGED <<target, file, disk, flushed, acked>>

\* The machine goes down.  Each path comes back as the directory on disk has
\* it, or as it was seen; bytes that were never flushed come back incomplete.
PowerFails ==
    /\ Crash(Proc)
    /\ Forget(Proc)
    /\ \E kept \in SUBSET Path :
          file' = [p \in Path |->
                     IF p \notin kept THEN disk[p]
                     ELSE IF flushed[p] THEN file[p] ELSE Torn]
    /\ disk' = [p \in Path |-> IF file'[p] = Torn THEN disk[p] ELSE file'[p]]
    /\ flushed' = [p \in Path |-> TRUE]
    /\ UNCHANGED <<target, acked>>

-----------------------------------------------------------------------------

\* A thread's own steps from its call on.
ThreadStep(t) ==
    \/ LockStep(t)
    \/ Read(t) \/ ReadFails(t)
    \/ WriteTemporary(t) \/ SyncTemporary(t) \/ WriteFails(t) \/ Replace(t)
    \/ SyncDirectory(t) \/ SyncDirectoryFails(t)

Next ==
    \/ \E t \in Thread :
          \/ \E o \in Ops : Load(t, o)
          \/ Enter(t)
          \/ ThreadStep(t)
          \/ DeadlinePasses(t)
    \/ \E p \in Proc : Kill(p)
    \/ PowerFails

Spec == Init /\ [][Next]_vars

-----------------------------------------------------------------------------
(* Properties.                                                             *)

\* An interruption at any point, of a process or of the machine, never leaves
\* a partially written document under the path.
NeverTorn == \A p \in Path : file[p] # Torn

\* A change whose call returned normally is in the document for good: later
\* writers merge it, crashes and power loss keep it.
AcknowledgedChangeStays == \A t \in acked : t \in file[target[t]]

\* The documents behave as an atomic store: each replacement merges one change
\* into the document current at that moment, whatever runs next to it.
Store == INSTANCE AtomicStore
            WITH Entry <- Thread, store <- file, stable <- disk

RefinesAtomicStore == Store!StoreSpec

\* A thread that reads, writes and replaces is in the body for its document.
BodySteps ==
    \A t \in Thread :
        /\ step[t] \in {"locking", "ready", "temp", "synced", "replaced"} =>
              req[t] = target[t]
        /\ step[t] \in {"ready", "temp", "synced", "replaced"} => pc[t] = "held"

\* The document a transaction works from stays the current one until it is
\* replaced.
WorksOnCurrent ==
    \A t \in Thread :
        op[t] # "save" /\ step[t] \in {"ready", "temp", "synced"} =>
            seen[t] = file[target[t]]

\* The inductive invariant behind NeverTorn and RefinesAtomicStore.
StoreInv ==
    /\ TypeOK
    /\ LockInv
    /\ BodySteps
    /\ WorksOnCurrent
    /\ \A p \in Path : file[p] # Torn /\ flushed[p]

=============================================================================
