------------------------------- MODULE Tunnel -------------------------------
(***************************************************************************)
(* RemoteManager's SSH tunnel of one target (remote.py): tunnel_start and  *)
(* tunnel_stop keep the process they started in a state file, under        *)
(* file_lock, and trust a stored PID only while the process that has it    *)
(* still has the stored identity.  Commands are processes and may be       *)
(* killed; the SSH process runs in a session of its own and stays.         *)
(* FileLockProofs shows that the lock excludes: it is one variable here.   *)
(***************************************************************************)
EXTENDS Naturals, FiniteSets

CONSTANTS
    Command,      \* tunnel start, stop and status commands, run over and over
    Pid,          \* process ids, reused by the system
    MaxStarts,    \* bound: processes started, of any kind
    HasPidfd,     \* os.pidfd_open and signal.pidfd_send_signal exist
    Nobody,       \* the lock is free
    Nothing,      \* no process, no state file, no identity
    Invalid       \* a state file that does not pass _read_state

VARIABLES
    process,    \* [Pid -> Identity or Nothing]: the process table
    started,    \* processes started so far; its value is a start time
    dying,      \* identities of processes that were sent SIGTERM
    struck,     \* identities that were ever signalled through a stored PID
    strays,     \* SSH processes whose record was lost: see NoTunnelIsLost
    state,      \* the state file: [pid, identity], Nothing or Invalid
    lock,       \* holder of the file lock, or Nobody
    pc,         \* [Command -> Location]
    child,      \* [Command -> Pid]: the process tunnel_start opened
    seen        \* [Command -> Identity or Nothing]: of the child, or of the
                \* process its pidfd was opened for

commandVars == <<pc, child, seen>>
vars == <<process, started, dying, struck, strays, state, lock, commandVars>>

Identity == [kind : {"ssh", "other"}, start : 1..MaxStarts]

State == [pid : Pid, identity : Identity]

ASSUME TunnelAssumption ==
    /\ MaxStarts \in Nat
    /\ HasPidfd \in BOOLEAN
    /\ Nobody \notin Command
    /\ \A identity \in Identity : identity # Nothing
    /\ \A record \in State : record # Nothing /\ record # Invalid

Location == {"idle", "start", "spawn", "capture", "save", "stop", "open",
             "match", "signal", "unlink"}

TypeOK ==
    /\ process \in [Pid -> Identity \cup {Nothing}]
    /\ started \in 0..MaxStarts
    /\ dying \subseteq Identity
    /\ struck \subseteq Identity
    /\ strays \subseteq Identity
    /\ state \in State \cup {Nothing, Invalid}
    /\ lock \in Command \cup {Nobody}
    /\ pc \in [Command -> Location]
    /\ child \in [Command -> Pid]
    /\ seen \in [Command -> Identity \cup {Nothing}]

Init ==
    /\ process = [p \in Pid |-> Nothing]
    /\ started = 0
    /\ dying = {}
    /\ struck = {}
    /\ strays = {}
    /\ state = Nothing
    /\ lock = Nobody
    /\ pc = [c \in Command |-> "idle"]
    /\ child \in {[c \in Command |-> p] : p \in Pid}
    /\ seen = [c \in Command |-> Nothing]

\* SystemProcessInspector.matches
Matches(p, identity) == process[p] = identity

\* The state is valid and its process is still the one that was recorded.
Running == state \in State /\ Matches(state.pid, state.identity)

Goto(c, location) == pc' = [pc EXCEPT ![c] = location]

\* The command leaves the lock, by a return or an error.
Leave(c) ==
    /\ Goto(c, "idle")
    /\ lock' = Nobody
    /\ seen' = [seen EXCEPT ![c] = Nothing]

\* A new process of a kind gets a free PID and the next start time.
StartProcess(p, kind) ==
    /\ started < MaxStarts
    /\ process[p] = Nothing
    /\ process' = [process EXCEPT ![p] = [kind |-> kind, start |-> started + 1]]
    /\ started' = started + 1

-----------------------------------------------------------------------------
(* tunnel_start                                                            *)

EnterStart(c) ==
    /\ pc[c] = "idle"
    /\ lock = Nobody
    /\ lock' = c
    /\ Goto(c, "start")
    /\ UNCHANGED <<process, started, dying, struck, strays, state, child, seen>>

\* An invalid state raises; a stored process that still matches is the tunnel.
ReadForStart(c) ==
    /\ pc[c] = "start"
    /\ \/ /\ state = Invalid \/ Running
          /\ Leave(c)
       \/ /\ state # Invalid /\ ~Running
          /\ Goto(c, "spawn")
          /\ UNCHANGED <<lock, seen>>
    /\ UNCHANGED <<process, started, dying, struck, strays, state, child>>

Spawn(c) ==
    /\ pc[c] = "spawn"
    /\ \E p \in Pid :
          /\ StartProcess(p, "ssh")
          /\ child' = [child EXCEPT ![c] = p]
          /\ seen' = [seen EXCEPT ![c] = process'[p]]
    /\ Goto(c, "capture")
    /\ UNCHANGED <<dying, struck, strays, state, lock>>

\* The log file cannot be opened or the program cannot be run.
SpawnFails(c) ==
    /\ pc[c] = "spawn"
    /\ Leave(c)
    /\ UNCHANGED <<process, started, dying, struck, strays, state, child>>

\* The identity of the child is read; a child is not reaped before, so its PID
\* is its own.
Capture(c) ==
    /\ pc[c] = "capture"
    /\ process[child[c]] = seen[c]
    /\ Goto(c, "save")
    /\ UNCHANGED <<process, started, dying, struck, strays, state, lock, child,
                   seen>>

\* Popen.terminate: SIGTERM to the child, not through a stored PID.
TerminateChild(c) ==
    /\ dying' = dying \cup {seen[c]}
    /\ Leave(c)

\* Mutant of CaptureFails: the new process is left running.
CaptureFailsQuietly(c) ==
    /\ pc[c] = "capture"
    /\ Leave(c)
    /\ UNCHANGED <<process, started, dying, struck, strays, state, child>>

\* No identity: the child has exited, or /proc and ps do not tell.
CaptureFails(c) ==
    /\ pc[c] = "capture"
    /\ TerminateChild(c)
    /\ UNCHANGED <<process, started, struck, strays, state, child>>

Save(c) ==
    /\ pc[c] = "save"
    /\ state' = [pid |-> child[c], identity |-> seen[c]]
    /\ Leave(c)
    /\ UNCHANGED <<process, started, dying, struck, strays, child>>

SaveFails(c) ==
    /\ pc[c] = "save"
    /\ TerminateChild(c)
    /\ UNCHANGED <<process, started, struck, strays, state, child>>

-----------------------------------------------------------------------------
(* tunnel_stop                                                             *)

EnterStop(c) ==
    /\ pc[c] = "idle"
    /\ lock = Nobody
    /\ lock' = c
    /\ Goto(c, "stop")
    /\ UNCHANGED <<process, started, dying, struck, strays, state, child, seen>>

ReadForStop(c) ==
    /\ pc[c] = "stop"
    /\ IF state \in State
       THEN Goto(c, IF HasPidfd THEN "open" ELSE "match")
            /\ UNCHANGED <<lock, seen>>
       ELSE Leave(c)
    /\ UNCHANGED <<process, started, dying, struck, strays, state, child>>

\* pidfd_open: from here on the descriptor means the process that has the PID
\* now.
OpenPidfd(c) ==
    /\ pc[c] = "open"
    /\ process[state.pid] # Nothing
    /\ seen' = [seen EXCEPT ![c] = process[state.pid]]
    /\ Goto(c, "match")
    /\ UNCHANGED <<process, started, dying, struck, strays, state, lock, child>>

\* No such process; or the call is refused: no kernel support, no descriptor.
\* The state is removed all the same.
OpenPidfdFails(c) ==
    /\ pc[c] = "open"
    /\ strays' = strays \cup ({process[state.pid]} \cap {state.identity})
    /\ Goto(c, "unlink")
    /\ UNCHANGED <<process, started, dying, struck, state, lock, child, seen>>

\* Mutant of Match: only the existence of the process is tested.
MatchAnyProcess(c) ==
    /\ pc[c] = "match"
    /\ Goto(c, IF process[state.pid] # Nothing THEN "signal" ELSE "unlink")
    /\ UNCHANGED <<process, started, dying, struck, strays, state, lock, child,
                   seen>>

Match(c) ==
    /\ pc[c] = "match"
    /\ Goto(c, IF Running THEN "signal" ELSE "unlink")
    /\ UNCHANGED <<process, started, dying, struck, strays, state, lock, child,
                   seen>>

\* The process a signal reaches: the one the descriptor means, or the one that
\* has the PID now.
Addressee(c) == IF HasPidfd THEN seen[c] ELSE process[state.pid]

Alive(identity) == \E p \in Pid : process[p] = identity

Signal(c) ==
    /\ pc[c] = "signal"
    /\ IF Addressee(c) # Nothing /\ Alive(Addressee(c))
       THEN /\ dying' = dying \cup {Addressee(c)}
            /\ struck' = struck \cup {Addressee(c)}
       ELSE UNCHANGED <<dying, struck>>
    /\ Goto(c, "unlink")
    /\ UNCHANGED <<process, started, strays, state, lock, child, seen>>

\* The state is removed whether or not the process was signalled.
Unlink(c) ==
    /\ pc[c] = "unlink"
    /\ state' = Nothing
    /\ Leave(c)
    /\ UNCHANGED <<process, started, dying, struck, strays, child>>

-----------------------------------------------------------------------------
(* The environment.                                                        *)

\* A command is killed: the kernel drops its lock, its child stays.
Kill(c) ==
    /\ pc[c] # "idle"
    /\ strays' = IF pc[c] \in {"capture", "save"} THEN strays \cup {seen[c]}
                                                 ELSE strays
    /\ Leave(c)
    /\ UNCHANGED <<process, started, dying, struck, state, child>>

\* A process ends, by itself or by a signal, and its PID is free.  A child
\* whose parent is between popen and the end of the call stays a zombie.
ProcessEnds ==
    /\ \E p \in Pid :
          /\ process[p] # Nothing
          /\ \A c \in Command : pc[c] \in {"capture", "save"} => child[c] # p
          /\ process' = [process EXCEPT ![p] = Nothing]
    /\ UNCHANGED <<started, dying, struck, strays, state, lock, commandVars>>

\* Some other program starts and may get a PID that was the tunnel's.
OtherStarts ==
    /\ \E p \in Pid : StartProcess(p, "other")
    /\ UNCHANGED <<dying, struck, strays, state, lock, commandVars>>

\* The state file is edited by hand, wrongly.
SpoilState ==
    /\ lock = Nobody
    /\ strays' = IF state \in State THEN strays \cup {state.identity}
                                    ELSE strays
    /\ state' = Invalid
    /\ UNCHANGED <<process, started, dying, struck, lock, commandVars>>

CommandStep(c) ==
    \/ ReadForStart(c) \/ Spawn(c) \/ SpawnFails(c) \/ Capture(c)
    \/ CaptureFails(c) \/ Save(c) \/ SaveFails(c)
    \/ ReadForStop(c) \/ OpenPidfd(c) \/ OpenPidfdFails(c) \/ Match(c)
    \/ Signal(c) \/ Unlink(c)

Next ==
    \/ \E c \in Command :
          \/ EnterStart(c) \/ EnterStop(c)
          \/ CommandStep(c)
          \/ Kill(c)
    \/ ProcessEnds \/ OtherStarts \/ SpoilState

Spec == Init /\ [][Next]_vars

-----------------------------------------------------------------------------
(* Properties.                                                             *)

\* Stale or reused PIDs are never signalled: whatever happens to the PID
\* between the read of the state and the signal, only SSH processes this
\* program started are reached.
OnlyTunnelsSignalled == \A identity \in struck : identity.kind = "ssh"

\* Malformed state is preserved and every command fails closed on it: none
\* starts, signals or saves while the file is invalid.
MalformedIsLeftAlone ==
    [][state = Invalid =>
          /\ state' = Invalid
          /\ struck' = struck
          /\ \A c \in Command : pc'[c] # "capture"]_vars

\* A tunnel is started only when the recorded one is gone: while the state
\* names a live SSH process, no further one comes up, however many starts and
\* stops run at once and wherever they are killed.
NoSecondTunnel ==
    [][\A p \in Pid :
          /\ process[p] = Nothing
          /\ process'[p] # Nothing
          /\ process'[p].kind = "ssh"
          => ~Running]_vars

\* Every live SSH process is accounted for: recorded, in the hands of the
\* command that started it, or sent SIGTERM.  The ones lost are those whose
\* starter was killed before it saved, whose record was overwritten by hand, or
\* that a stop could not open; an error return and a race lose none.
NoTunnelIsLost ==
    \A p \in Pid :
        process[p] # Nothing /\ process[p].kind = "ssh" =>
            \/ process[p] \in dying \cup strays
            \/ state = [pid |-> p, identity |-> process[p]]
            \/ \E c \in Command :
                  /\ pc[c] \in {"capture", "save"}
                  /\ child[c] = p
                  /\ seen[c] = process[p]

\* A command that is under way has the lock.
LockHeld == \A c \in Command : pc[c] # "idle" => lock = c

\* A recorded identity is one this program started, and so is the identity of
\* a child that is not recorded yet; no process to come will have either.
OwnIdentities ==
    /\ state \in State =>
          state.identity.kind = "ssh" /\ state.identity.start <= started
    /\ \A c \in Command : pc[c] \in {"capture", "save"} =>
          /\ seen[c] \in Identity
          /\ seen[c].kind = "ssh"
          /\ seen[c].start <= started

\* What a command has found out about the state file stays so while it has the
\* lock: a start found no live tunnel, a stop found a record.
FindingsHold ==
    \A c \in Command :
        /\ pc[c] \in {"spawn", "capture", "save"} => state # Invalid /\ ~Running
        /\ pc[c] \in {"open", "match", "signal", "unlink"} => state \in State
        /\ pc[c] = "unlink" /\ Running => state.identity \in dying \cup strays

\* The descriptor means the recorded process once the identity has matched.
DescriptorIsOurs ==
    HasPidfd =>
        \A c \in Command :
            /\ pc[c] = "match" => seen[c] = state.identity \/ ~Running
            /\ pc[c] = "signal" => seen[c] = state.identity

\* The inductive invariant behind the properties of the tunnel.
TunnelInv ==
    /\ TypeOK
    /\ LockHeld
    /\ OwnIdentities
    /\ FindingsHold
    /\ DescriptorIsOurs
    /\ NoTunnelIsLost
    /\ HasPidfd => OnlyTunnelsSignalled
=============================================================================
