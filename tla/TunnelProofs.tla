---------------------------- MODULE TunnelProofs ----------------------------
(***************************************************************************)
(* The SSH tunnel of remote.py for any number of commands and process ids: *)
(* whom a stop signals, that no tunnel is lost or doubled, and that a      *)
(* malformed state file is left alone.  TunnelInv is inductive.            *)
(*                                                                         *)
(* And the session of the MCP server for any number of messages: that each *)
(* request is answered once, and that calls write behind both guards only. *)
(***************************************************************************)
EXTENDS Tunnel, McpSession, SequenceTheorems, TLAPS

\* At first there is no process, no record and no command.
LEMMA TunnelInitInv == Init => TunnelInv
  <1> SUFFICES ASSUME Init PROVE TunnelInv
    OBVIOUS
  <1> USE TunnelAssumption DEF Init
  <1>1. TypeOK
    BY DEF TypeOK, Location
  <1>2. LockHeld /\ OwnIdentities /\ FindingsHold /\ DescriptorIsOurs
    BY DEF LockHeld, OwnIdentities, FindingsHold, DescriptorIsOurs
  <1>3. NoTunnelIsLost /\ OnlyTunnelsSignalled
    BY DEF NoTunnelIsLost, OnlyTunnelsSignalled
  <1> QED
    BY <1>1, <1>2, <1>3 DEF TunnelInv

\* A started process has the next start time, and was not there before.
LEMMA StartedProcess ==
    ASSUME TypeOK, NEW p \in Pid, NEW kind \in {"ssh", "other"},
           StartProcess(p, kind)
    PROVE  /\ process'[p] = [kind |-> kind, start |-> started + 1]
           /\ process'[p] \in Identity
           /\ process' \in [Pid -> Identity \cup {Nothing}]
           /\ process[p] = Nothing
           /\ \A q \in Pid \ {p} : process'[q] = process[q]
           /\ started \in Nat
           /\ started' = started + 1
           /\ started' \in 0..MaxStarts
  BY TunnelAssumption DEF TypeOK, StartProcess, Identity

\* Every step keeps the variables in their types.
LEMMA TunnelTypeStep ==
    ASSUME TunnelInv, [Next]_vars PROVE TypeOK'
  <1> USE TunnelAssumption DEF TypeOK, TunnelInv, Location, Goto
  <1>1. ASSUME NEW c \in Command, EnterStart(c) \/ EnterStop(c)
        PROVE  TypeOK'
    BY <1>1 DEF EnterStart, EnterStop
  <1>2. ASSUME NEW c \in Command,
               \/ ReadForStart(c) \/ SpawnFails(c) \/ Capture(c)
               \/ ReadForStop(c) \/ Match(c) \/ Unlink(c)
        PROVE  TypeOK'
    BY <1>2 DEF ReadForStart, SpawnFails, Capture, ReadForStop, Match, Unlink,
                Leave
  <1>3. ASSUME NEW c \in Command, Spawn(c)
        PROVE  TypeOK'
    <2>1. PICK p \in Pid : /\ StartProcess(p, "ssh")
                           /\ child' = [child EXCEPT ![c] = p]
                           /\ seen' = [seen EXCEPT ![c] = process'[p]]
      BY <1>3 DEF Spawn
    <2> QED
      BY <1>3, <2>1, StartedProcess DEF Spawn
  <1>4. ASSUME NEW c \in Command, CaptureFails(c) \/ SaveFails(c)
        PROVE  TypeOK'
    BY <1>4 DEF CaptureFails, SaveFails, TerminateChild, Leave, OwnIdentities
  <1>5. ASSUME NEW c \in Command, Save(c)
        PROVE  TypeOK'
    BY <1>5 DEF Save, Leave, OwnIdentities, State
  <1>6. ASSUME NEW c \in Command, OpenPidfd(c)
        PROVE  TypeOK'
    BY <1>6 DEF OpenPidfd, FindingsHold, State
  <1>7. ASSUME NEW c \in Command, OpenPidfdFails(c)
        PROVE  TypeOK'
    BY <1>7 DEF OpenPidfdFails, FindingsHold, State
  <1>8. ASSUME NEW c \in Command, Signal(c)
        PROVE  TypeOK'
    <2>1. Addressee(c) \in Identity \cup {Nothing}
      BY <1>8 DEF Signal, Addressee, FindingsHold, State
    <2> QED
      BY <1>8, <2>1 DEF Signal
  <1>9. ASSUME NEW c \in Command, Kill(c)
        PROVE  TypeOK'
    BY <1>9 DEF Kill, Leave, OwnIdentities
  <1>10. ASSUME ProcessEnds
         PROVE  TypeOK'
    BY <1>10 DEF ProcessEnds, commandVars
  <1>11. ASSUME OtherStarts
         PROVE  TypeOK'
    BY <1>11, StartedProcess DEF OtherStarts, commandVars
  <1>12. ASSUME SpoilState
         PROVE  TypeOK'
    BY <1>12 DEF SpoilState, commandVars, State
  <1>13. CASE UNCHANGED vars
    BY <1>13 DEF vars, commandVars
  <1> QED
    BY <1>1, <1>2, <1>3, <1>4, <1>5, <1>6, <1>7, <1>8, <1>9, <1>10, <1>11,
       <1>12, <1>13 DEF Next, CommandStep

\* The lock is taken when it is free and given up on leaving.
LEMMA LockHeldStep ==
    ASSUME TunnelInv, [Next]_vars PROVE LockHeld'
  <1> USE TunnelAssumption DEF TypeOK, TunnelInv, Goto, LockHeld
  <1>1. ASSUME NEW c \in Command, EnterStart(c) \/ EnterStop(c)
        PROVE  LockHeld'
    BY <1>1 DEF EnterStart, EnterStop
  <1>2. ASSUME NEW c \in Command, CommandStep(c)
        PROVE  LockHeld'
    BY <1>2 DEF CommandStep, ReadForStart, Spawn, SpawnFails, Capture,
                CaptureFails, Save, SaveFails, TerminateChild, ReadForStop,
                OpenPidfd, OpenPidfdFails, Match, Signal, Unlink, Leave
  <1>3. ASSUME NEW c \in Command, Kill(c)
        PROVE  LockHeld'
    BY <1>3 DEF Kill, Leave
  <1>4. CASE ProcessEnds \/ OtherStarts \/ SpoilState \/ UNCHANGED vars
    BY <1>4 DEF ProcessEnds, OtherStarts, SpoilState, vars, commandVars
  <1> QED
    BY <1>1, <1>2, <1>3, <1>4 DEF Next

\* Records are made of children, and children of SSH processes.
LEMMA OwnIdentitiesStep ==
    ASSUME TunnelInv, [Next]_vars PROVE OwnIdentities'
  <1> USE TunnelAssumption DEF TypeOK, TunnelInv, Goto, OwnIdentities
  <1>1. ASSUME NEW c \in Command, Spawn(c)
        PROVE  OwnIdentities'
    <2>1. PICK p \in Pid : /\ StartProcess(p, "ssh")
                           /\ seen' = [seen EXCEPT ![c] = process'[p]]
      BY <1>1 DEF Spawn
    <2>2. /\ process'[p] = [kind |-> "ssh", start |-> started + 1]
          /\ process'[p] \in Identity
          /\ started \in Nat
          /\ started' = started + 1
      BY <2>1, StartedProcess
    <2>3. state' = state /\ pc' = [pc EXCEPT ![c] = "capture"]
      BY <1>1 DEF Spawn
    <2>4. state \in State => state.identity.start \in Nat
      BY DEF State, Identity
    <2>5. \A d \in Command : seen[d] \in Identity => seen[d].start \in Nat
      BY DEF Identity
    <2> QED
      BY <2>1, <2>2, <2>3, <2>4, <2>5
  <1>2. ASSUME NEW c \in Command, Save(c)
        PROVE  OwnIdentities'
    BY <1>2 DEF Save, Leave
  <1>3. ASSUME NEW c \in Command,
               \/ EnterStart(c) \/ EnterStop(c) \/ ReadForStart(c)
               \/ SpawnFails(c) \/ Capture(c) \/ CaptureFails(c)
               \/ SaveFails(c) \/ ReadForStop(c) \/ OpenPidfd(c)
               \/ OpenPidfdFails(c) \/ Match(c) \/ Signal(c) \/ Kill(c)
        PROVE  OwnIdentities'
    BY <1>3 DEF EnterStart, EnterStop, ReadForStart, SpawnFails, Capture,
                CaptureFails, SaveFails, TerminateChild, ReadForStop, OpenPidfd,
                OpenPidfdFails, Match, Signal, Kill, Leave
  <1>4. ASSUME NEW c \in Command, Unlink(c)
        PROVE  OwnIdentities'
    BY <1>4 DEF Unlink, Leave, State
  <1>5. ASSUME OtherStarts
        PROVE  OwnIdentities'
    <2>1. started \in Nat /\ started' = started + 1
      BY <1>5, StartedProcess DEF OtherStarts
    <2>2. state \in State => state.identity.start \in Nat
      BY DEF State, Identity
    <2>3. \A d \in Command : seen[d] \in Identity => seen[d].start \in Nat
      BY DEF Identity
    <2> QED
      BY <1>5, <2>1, <2>2, <2>3 DEF OtherStarts, commandVars
  <1>6. CASE ProcessEnds \/ SpoilState \/ UNCHANGED vars
    BY <1>6 DEF ProcessEnds, SpoilState, vars, commandVars
  <1> QED
    BY <1>1, <1>2, <1>3, <1>4, <1>5, <1>6 DEF Next, CommandStep

\* A process that starts never has a recorded identity.
LEMMA StartIsNotRecorded ==
    ASSUME TunnelInv, NEW p \in Pid, NEW kind \in {"ssh", "other"},
           StartProcess(p, kind), state' = state
    PROVE  Running' => Running
  <1> SUFFICES ASSUME Running' PROVE Running
    OBVIOUS
  <1>1. state \in State /\ process'[state.pid] = state.identity
    BY DEF Running, Matches
  <1>2. state.pid \in Pid /\ state.identity.start <= started
        /\ state.identity.start \in Nat
    BY <1>1 DEF TunnelInv, OwnIdentities, State, Identity
  <1>3. /\ process'[p].start = started + 1
        /\ started \in Nat
        /\ \A q \in Pid \ {p} : process'[q] = process[q]
    BY StartedProcess DEF TunnelInv
  <1>4. state.pid # p
    BY <1>1, <1>2, <1>3
  <1> QED
    BY <1>1, <1>2, <1>3, <1>4 DEF Running, Matches

\* A process that ends never makes the record match.
LEMMA EndIsNotRecorded ==
    ASSUME TunnelInv, ProcessEnds
    PROVE  Running' => Running
  BY TunnelAssumption
     DEF TunnelInv, TypeOK, ProcessEnds, Running, Matches, State

\* What a command with the lock has found out stays so.
LEMMA FindingsStep ==
    ASSUME TunnelInv, [Next]_vars PROVE FindingsHold'
  <1> USE TunnelAssumption DEF TypeOK, TunnelInv, Goto, FindingsHold, LockHeld
  <1>1. ASSUME NEW c \in Command, EnterStart(c) \/ EnterStop(c)
        PROVE  FindingsHold'
    BY <1>1 DEF EnterStart, EnterStop, Running, Matches
  <1>2. ASSUME NEW c \in Command, Spawn(c)
        PROVE  FindingsHold'
    <2>1. PICK p \in Pid : StartProcess(p, "ssh")
      BY <1>2 DEF Spawn
    <2>2. state' = state /\ pc' = [pc EXCEPT ![c] = "capture"]
          /\ dying' = dying /\ strays' = strays
      BY <1>2 DEF Spawn
    <2>3. Running' => Running
      BY <2>1, <2>2, StartIsNotRecorded
    <2>4. pc[c] = "spawn"
      BY <1>2 DEF Spawn
    <2> QED
      BY <2>2, <2>3, <2>4
  <1>3. ASSUME NEW c \in Command,
               \/ ReadForStart(c) \/ SpawnFails(c) \/ Capture(c)
               \/ ReadForStop(c) \/ OpenPidfd(c) \/ Match(c)
        PROVE  FindingsHold'
    BY <1>3 DEF ReadForStart, SpawnFails, Capture, ReadForStop, OpenPidfd,
                Match, Leave, Running, Matches
  <1>4. ASSUME NEW c \in Command, CaptureFails(c) \/ SaveFails(c) \/ Kill(c)
        PROVE  FindingsHold'
    BY <1>4 DEF CaptureFails, SaveFails, TerminateChild, Kill, Leave, Running,
                Matches
  <1>5. ASSUME NEW c \in Command, Save(c) \/ Unlink(c)
        PROVE  FindingsHold'
    BY <1>5 DEF Save, Unlink, Leave
  <1>6. ASSUME NEW c \in Command, OpenPidfdFails(c)
        PROVE  FindingsHold'
    BY <1>6 DEF OpenPidfdFails, Running, Matches
  <1>7. ASSUME NEW c \in Command, Signal(c)
        PROVE  FindingsHold'
    <2>1. ASSUME Running
          PROVE  state.identity \in dying'
      <3>1. process[state.pid] = state.identity /\ state.pid \in Pid
        BY <2>1 DEF Running, Matches, State
      <3>2. Addressee(c) = state.identity
        BY <1>7, <3>1 DEF Signal, Addressee, DescriptorIsOurs
      <3>3. Addressee(c) # Nothing /\ Alive(Addressee(c))
        BY <2>1, <3>1, <3>2 DEF Alive, Running, State
      <3> QED
        BY <1>7, <3>2, <3>3 DEF Signal
    <2>2. /\ pc' = [pc EXCEPT ![c] = "unlink"]
          /\ pc[c] = "signal" /\ state' = state /\ process' = process
          /\ dying \subseteq dying' /\ strays' = strays
      BY <1>7 DEF Signal
    <2>3. Running' => Running
      BY <2>2 DEF Running, Matches
    <2> QED
      BY <2>1, <2>2, <2>3
  <1>8. ASSUME ProcessEnds
        PROVE  FindingsHold'
    BY <1>8, EndIsNotRecorded DEF ProcessEnds, commandVars
  <1>9. ASSUME OtherStarts
        PROVE  FindingsHold'
    BY <1>9, StartIsNotRecorded DEF OtherStarts, commandVars
  <1>10. ASSUME SpoilState
         PROVE  FindingsHold'
    BY <1>10 DEF SpoilState, commandVars
  <1>11. CASE UNCHANGED vars
    BY <1>11 DEF vars, commandVars, Running, Matches
  <1> QED
    BY <1>1, <1>2, <1>3, <1>4, <1>5, <1>6, <1>7, <1>8, <1>9, <1>10, <1>11
       DEF Next, CommandStep

\* A descriptor opened before the match means the process that matches.
LEMMA DescriptorStep ==
    ASSUME TunnelInv, [Next]_vars PROVE DescriptorIsOurs'
  <1> SUFFICES ASSUME HasPidfd PROVE DescriptorIsOurs'
    BY DEF DescriptorIsOurs
  <1> USE TunnelAssumption DEF TypeOK, TunnelInv, Goto, DescriptorIsOurs, LockHeld
  <1>1. ASSUME NEW c \in Command,
               \/ EnterStart(c) \/ EnterStop(c) \/ ReadForStart(c)
               \/ SpawnFails(c) \/ Capture(c) \/ CaptureFails(c)
               \/ SaveFails(c) \/ ReadForStop(c) \/ OpenPidfdFails(c)
               \/ Signal(c) \/ Kill(c)
        PROVE  DescriptorIsOurs'
    BY <1>1 DEF EnterStart, EnterStop, ReadForStart, SpawnFails, Capture,
                CaptureFails, SaveFails, TerminateChild, ReadForStop,
                OpenPidfdFails, Signal, Kill, Leave, Running, Matches
  <1>2. ASSUME NEW c \in Command, Spawn(c)
        PROVE  DescriptorIsOurs'
    BY <1>2 DEF Spawn
  <1>3. ASSUME NEW c \in Command, Save(c) \/ Unlink(c)
        PROVE  DescriptorIsOurs'
    BY <1>3 DEF Save, Unlink, Leave
  <1>4. ASSUME NEW c \in Command, OpenPidfd(c)
        PROVE  DescriptorIsOurs'
    BY <1>4 DEF OpenPidfd, Running, Matches
  <1>5. ASSUME NEW c \in Command, Match(c)
        PROVE  DescriptorIsOurs'
    BY <1>5 DEF Match, Running, Matches
  <1>6. ASSUME ProcessEnds
        PROVE  DescriptorIsOurs'
    BY <1>6, EndIsNotRecorded DEF ProcessEnds, commandVars
  <1>7. ASSUME OtherStarts
        PROVE  DescriptorIsOurs'
    BY <1>7, StartIsNotRecorded DEF OtherStarts, commandVars
  <1>8. ASSUME SpoilState
        PROVE  DescriptorIsOurs'
    BY <1>8 DEF SpoilState, commandVars
  <1>9. CASE UNCHANGED vars
    BY <1>9 DEF vars, commandVars, Running, Matches
  <1> QED
    BY <1>1, <1>2, <1>3, <1>4, <1>5, <1>6, <1>7, <1>8, <1>9
       DEF Next, CommandStep

\* A signal reaches the process the descriptor means, which is an SSH process.
LEMMA OwnershipStep ==
    ASSUME TunnelInv, HasPidfd, [Next]_vars PROVE OnlyTunnelsSignalled'
  <1> USE TunnelAssumption DEF TunnelInv, OnlyTunnelsSignalled
  <1>1. ASSUME NEW c \in Command, Signal(c)
        PROVE  OnlyTunnelsSignalled'
    BY <1>1 DEF Signal, Addressee, DescriptorIsOurs, OwnIdentities, FindingsHold
  <1>2. CASE struck' = struck
    BY <1>2
  <1>3. (\E c \in Command : Signal(c)) \/ struck' = struck
    BY DEF Next, CommandStep, EnterStart, EnterStop, ReadForStart, Spawn,
           SpawnFails, Capture, CaptureFails, Save, SaveFails, TerminateChild,
           ReadForStop, OpenPidfd, OpenPidfdFails, Match, Unlink, Kill,
           ProcessEnds, OtherStarts, SpoilState, vars
  <1> QED
    BY <1>1, <1>2, <1>3

\* Every live SSH process stays accounted for.
LEMMA NoTunnelIsLostStep ==
    ASSUME TunnelInv, [Next]_vars PROVE NoTunnelIsLost'
  <1> DEFINE Accounted(p) ==
        \/ process'[p] \in dying' \cup strays'
        \/ state' = [pid |-> p, identity |-> process'[p]]
        \/ \E c \in Command :
              /\ pc'[c] \in {"capture", "save"}
              /\ child'[c] = p
              /\ seen'[c] = process'[p]
  <1> SUFFICES ASSUME NEW p \in Pid,
                      process'[p] # Nothing, process'[p].kind = "ssh"
               PROVE  Accounted(p)
    BY DEF NoTunnelIsLost
  <1> USE TunnelAssumption DEF TypeOK, TunnelInv, Goto, NoTunnelIsLost, LockHeld
  <1>1. ASSUME NEW c \in Command,
               \/ EnterStart(c) \/ EnterStop(c) \/ ReadForStart(c)
               \/ SpawnFails(c) \/ Capture(c) \/ CaptureFails(c)
               \/ SaveFails(c) \/ ReadForStop(c) \/ OpenPidfd(c)
               \/ OpenPidfdFails(c) \/ Match(c) \/ Signal(c) \/ Kill(c)
        PROVE  Accounted(p)
    BY <1>1 DEF EnterStart, EnterStop, ReadForStart, SpawnFails, Capture,
                CaptureFails, SaveFails, TerminateChild, ReadForStop, OpenPidfd,
                OpenPidfdFails, Match, Signal, Kill, Leave
  <1>2. ASSUME NEW c \in Command, Spawn(c)
        PROVE  Accounted(p)
    <2>1. PICK q \in Pid : /\ StartProcess(q, "ssh")
                           /\ child' = [child EXCEPT ![c] = q]
                           /\ seen' = [seen EXCEPT ![c] = process'[q]]
      BY <1>2 DEF Spawn
    <2>2. \A r \in Pid \ {q} : process'[r] = process[r]
      BY <2>1, StartedProcess
    <2>3. CASE p = q
      BY <1>2, <2>1, <2>3 DEF Spawn
    <2>4. CASE p # q
      BY <1>2, <2>1, <2>2, <2>4 DEF Spawn
    <2> QED
      BY <2>3, <2>4
  <1>3. ASSUME NEW c \in Command, Save(c)
        PROVE  Accounted(p)
    <2>1. CASE state = [pid |-> p, identity |-> process[p]]
      <3>1. state \in State
        BY <1>3, <2>1 DEF Save, State
      <3>2. Running
        BY <2>1, <3>1 DEF Running, Matches
      <3> QED
        BY <1>3, <3>2 DEF Save, FindingsHold
    <2>2. CASE state # [pid |-> p, identity |-> process[p]]
      BY <1>3, <2>2 DEF Save, Leave
    <2> QED
      BY <2>1, <2>2
  <1>4. ASSUME NEW c \in Command, Unlink(c)
        PROVE  Accounted(p)
    <2>1. CASE state = [pid |-> p, identity |-> process[p]]
      <3>1. Running
        BY <1>4, <2>1 DEF Unlink, FindingsHold, Running, Matches
      <3> QED
        BY <1>4, <2>1, <3>1 DEF Unlink, FindingsHold
    <2>2. CASE state # [pid |-> p, identity |-> process[p]]
      BY <1>4, <2>2 DEF Unlink, Leave
    <2> QED
      BY <2>1, <2>2
  <1>5. ASSUME ProcessEnds
        PROVE  Accounted(p)
    BY <1>5 DEF ProcessEnds, commandVars
  <1>6. ASSUME OtherStarts
        PROVE  Accounted(p)
    <2>1. PICK q \in Pid : StartProcess(q, "other")
      BY <1>6 DEF OtherStarts
    <2>2. /\ process'[q].kind = "other"
          /\ \A r \in Pid \ {q} : process'[r] = process[r]
      BY <2>1, StartedProcess
    <2> QED
      BY <1>6, <2>2 DEF OtherStarts, commandVars
  <1>7. ASSUME SpoilState
        PROVE  Accounted(p)
    <2>1. state = [pid |-> p, identity |-> process[p]] => state \in State
      BY <1>7 DEF SpoilState, State
    <2> QED
      BY <1>7, <2>1 DEF SpoilState, commandVars
  <1>8. CASE UNCHANGED vars
    BY <1>8 DEF vars, commandVars
  <1> QED
    BY <1>1, <1>2, <1>3, <1>4, <1>5, <1>6, <1>7, <1>8 DEF Next, CommandStep

\* TunnelInv holds in every reachable state, with or without pidfds.
THEOREM TunnelInvariant == Spec => []TunnelInv
  <1>1. Init => TunnelInv
    BY TunnelInitInv
  <1>2. TunnelInv /\ [Next]_vars => TunnelInv'
    <2> SUFFICES ASSUME TunnelInv, [Next]_vars PROVE TunnelInv'
      OBVIOUS
    <2>1. TypeOK' /\ LockHeld' /\ OwnIdentities'
      BY TunnelTypeStep, LockHeldStep, OwnIdentitiesStep
    <2>2. FindingsHold' /\ DescriptorIsOurs' /\ NoTunnelIsLost'
      BY FindingsStep, DescriptorStep, NoTunnelIsLostStep
    <2>3. HasPidfd => OnlyTunnelsSignalled'
      BY OwnershipStep
    <2> QED
      BY <2>1, <2>2, <2>3 DEF TunnelInv
  <1> QED
    BY <1>1, <1>2, PTL DEF Spec

\* Where pidfds exist, a stop signals SSH processes of this program only,
\* whatever becomes of a PID between the read of the record and the signal.
THEOREM TunnelOwnsSignals ==
    ASSUME HasPidfd PROVE Spec => []OnlyTunnelsSignalled
  <1>1. TunnelInv => OnlyTunnelsSignalled
    BY DEF TunnelInv
  <1> QED
    BY <1>1, TunnelInvariant, PTL

\* A live SSH process is recorded, in the hands of its starter, sent SIGTERM, or
\* one of the three kinds of strays.
THEOREM TunnelsAreKept == Spec => []NoTunnelIsLost
  <1>1. TunnelInv => NoTunnelIsLost
    BY DEF TunnelInv
  <1> QED
    BY <1>1, TunnelInvariant, PTL

\* While the record names a live SSH process no further one is started.
THEOREM TunnelsAreSingle == Spec => NoSecondTunnel
  <1>1. ASSUME TunnelInv, [Next]_vars, NEW p \in Pid,
               process[p] = Nothing, process'[p] # Nothing,
               process'[p].kind = "ssh"
        PROVE  ~Running
    <2> USE TunnelAssumption DEF TunnelInv, TypeOK
    <2>1. ASSUME NEW c \in Command, Spawn(c)
          PROVE  ~Running
      BY <1>1, <2>1 DEF Spawn, FindingsHold
    <2>2. ~ProcessEnds
      BY <1>1 DEF ProcessEnds
    <2>3. ASSUME OtherStarts
          PROVE  FALSE
      <3>1. PICK q \in Pid : StartProcess(q, "other")
        BY <2>3 DEF OtherStarts
      <3>2. /\ process'[q].kind = "other"
            /\ \A r \in Pid \ {q} : process'[r] = process[r]
        BY <1>1, <3>1, StartedProcess
      <3> QED
        BY <1>1, <3>2
    <2>4. (\E c \in Command : Spawn(c)) \/ ProcessEnds \/ OtherStarts
          \/ process' = process
      BY <1>1
         DEF Next, CommandStep, EnterStart, EnterStop, ReadForStart, SpawnFails,
             Capture, CaptureFails, Save, SaveFails, ReadForStop, OpenPidfd,
             OpenPidfdFails, Match, Signal, Unlink, Kill, SpoilState, vars
    <2> QED
      BY <1>1, <2>1, <2>2, <2>3, <2>4
  <1>2. TunnelInv /\ [Next]_vars =>
          [\A p \in Pid :
             /\ process[p] = Nothing
             /\ process'[p] # Nothing
             /\ process'[p].kind = "ssh"
             => ~Running]_vars
    BY <1>1
  <1> QED
    BY <1>2, TunnelInvariant, PTL DEF Spec, NoSecondTunnel

\* A state file that is invalid stays as it is, and no command starts or
\* signals a process while it is there.
THEOREM MalformedStateIsKept == Spec => MalformedIsLeftAlone
  <1>1. ASSUME TunnelInv, [Next]_vars, state = Invalid
        PROVE  /\ state' = Invalid
               /\ struck' = struck
               /\ \A c \in Command : pc'[c] # "capture"
    <2> USE TunnelAssumption DEF TunnelInv, TypeOK, Goto
    <2>1. \A c \in Command :
            pc[c] \in {"idle", "start", "stop"}
      BY <1>1 DEF FindingsHold, Location
    <2>2. ASSUME NEW c \in Command,
                 \/ EnterStart(c) \/ EnterStop(c) \/ ReadForStart(c)
                 \/ ReadForStop(c) \/ Kill(c)
          PROVE  /\ state' = Invalid /\ struck' = struck
                 /\ \A d \in Command : pc'[d] # "capture"
      BY <1>1, <2>1, <2>2
         DEF EnterStart, EnterStop, ReadForStart, ReadForStop, Kill, Leave
    <2>3. ASSUME NEW c \in Command, CommandStep(c)
          PROVE  ReadForStart(c) \/ ReadForStop(c)
      BY <2>1, <2>3
         DEF CommandStep, Spawn, SpawnFails, Capture, CaptureFails, Save,
             SaveFails, OpenPidfd, OpenPidfdFails, Match, Signal, Unlink
    <2>4. CASE ProcessEnds \/ OtherStarts \/ SpoilState \/ UNCHANGED vars
      BY <1>1, <2>1, <2>4
         DEF ProcessEnds, OtherStarts, SpoilState, vars, commandVars
    <2> QED
      BY <1>1, <2>2, <2>3, <2>4 DEF Next
  <1>2. TunnelInv /\ [Next]_vars =>
          [state = Invalid =>
             /\ state' = Invalid
             /\ struck' = struck
             /\ \A c \in Command : pc'[c] # "capture"]_vars
    BY <1>1
  <1> QED
    BY <1>2, TunnelInvariant, PTL DEF Spec, MalformedIsLeftAlone

-----------------------------------------------------------------------------
(* The inductive invariant of an MCP session.                              *)

SessionSpec == McpInit /\ [][McpNext]_mcpVars

Stage == {"handle", "guard", "dispatch", "blocked", "allowed", "failed", "answer", "raise"}

SessionTypeOK ==
    /\ allowWrites \in BOOLEAN
    /\ server \in [at : {"headers"}, bytes : Nat, count : Nat, length : Nat \cup {NoId}]
                    \cup [at : Stage] \cup [at : {"closed"}, status : 0..2]
    /\ sent \in Seq([id : Id \cup {NoId}, message : Message])
    /\ told \in Seq([id : Id \cup {NoId}, to : Nat,
                     kind : {"result", "error", "invalid request", "invalid params",
                             "method not found"}])
    /\ effects \subseteq DOMAIN sent /\ unlogged \subseteq DOMAIN sent
    /\ log \subseteq (DOMAIN sent) \X {"blocked", "allowed", "failed"}

Recorded(i, how) == i \in unlogged \/ \E d \in how : <<i, d>> \in log

\* What is known of the message that is being handled: until the guard or the
\* tool has decided nothing has been done or recorded; what the guard let
\* through may write; what is about to be answered has been recorded.
Handled ==
    server.at \in Stage =>
        /\ n >= 1
        /\ server.at = "handle" /\ message.method = "no object" => Last(sent).id = NoId
        /\ server.at # "handle" =>
             /\ message.method = "tools/call"
             /\ Accepts(message.tool, message.arguments)
             /\ message.tool \notin WithoutProfile => message.arguments.profile = "known"
        /\ server.at = "guard" => message.tool \notin WithoutProfile
        /\ server.at \in {"handle", "guard", "dispatch", "blocked"} =>
             n \notin effects /\ ~Recorded(n, {"blocked", "allowed", "failed"})
        /\ server.at \in {"allowed", "failed"} =>
             ~Recorded(n, {"blocked", "allowed", "failed"})
        /\ server.at = "blocked" => Blocked
        /\ server.at \in {"dispatch", "allowed", "failed"} => ~Blocked
        /\ server.at = "allowed" => n \in effects
        /\ server.at \in {"answer", "raise"} =>
             /\ n \in effects => Recorded(n, {"allowed", "failed"})
             /\ Blocked => Recorded(n, {"blocked"})

\* A message is answered when the next frame is read and not before.
Answered ==
    /\ EveryRequestAnswered
    /\ server.at \in Stage => \A j \in DOMAIN told : told[j].to < n

SessionInv == SessionTypeOK /\ Handled /\ Answered /\ WritesAreGuarded

-----------------------------------------------------------------------------
(* What a step of a session keeps.                                         *)

Replies == {"result", "error", "invalid request", "invalid params", "method not found"}
ReplyType == [id : Id \cup {NoId}, to : Nat, kind : Replies]
SentType == [id : Id \cup {NoId}, message : Message]
Resting == [at : {"headers"}, bytes : Nat, count : Nat, length : Nat \cup {NoId}]
             \cup [at : {"closed"}, status : 0..2]

\* The types, with the length of the session spelled out.
LEMMA SessionTypes ==
    ASSUME SessionTypeOK
    PROVE  /\ n \in Nat /\ DOMAIN sent = 1..n
           /\ sent \in Seq(SentType) /\ told \in Seq(ReplyType)
           /\ server.at \in Stage \cup {"headers", "closed"}
           /\ n >= 1 => /\ Last(sent) = sent[n] /\ sent[n] \in SentType
                        /\ message \in Message
  <1>1. sent \in Seq(SentType) /\ told \in Seq(ReplyType)
    BY DEF SessionTypeOK, SentType, ReplyType, Replies
  <1>2. n \in Nat /\ DOMAIN sent = 1..n
    BY <1>1 DEF n
  <1>3. server.at \in Stage \cup {"headers", "closed"}
    BY DEF SessionTypeOK
  <1>4. ASSUME n >= 1
        PROVE  Last(sent) = sent[n] /\ sent[n] \in SentType
    BY <1>1, <1>2, <1>4 DEF Last, n
  <1>5. n >= 1 => message \in Message
    BY <1>4 DEF message, SentType
  <1> QED
    BY <1>1, <1>2, <1>3, <1>4, <1>5

\* A step that only moves the server on, into or within a message or to rest.
LEMMA ServerMoves ==
    ASSUME SessionInv, UNCHANGED <<allowWrites, sent, told, effects, log, unlogged>>,
           server' \in Resting \cup [at : Stage],
           InHeaders' => InHeaders, server'.at \in Stage => server.at \in Stage,
           Handled'
    PROVE  SessionInv'
  <1>1. SessionTypeOK'
    BY DEF SessionInv, SessionTypeOK, Resting
  <1>2. n' = n /\ \A i : Request(i)' <=> Request(i)
    BY DEF n, Request
  <1>3. EveryRequestAnswered'
    <2>1. EveryRequestAnswered
      BY DEF SessionInv, Answered
    <2>2. ASSUME NEW j \in DOMAIN told'
          PROVE  /\ told'[j].to \in DOMAIN sent' /\ told'[j].id = sent'[told'[j].to].id
                 /\ told'[j].id # NoId => Request(told[j].to)'
                 /\ \A k \in 1..(j - 1) : told'[k].to < told'[j].to
      BY <1>2, <2>1, <2>2 DEF EveryRequestAnswered
    <2>3. ASSUME NEW i \in DOMAIN sent', Request(i)', i < n' \/ InHeaders'
          PROVE  \E j \in DOMAIN told' : told'[j].to = i
      BY <1>2, <2>1, <2>3 DEF EveryRequestAnswered
    <2> QED
      BY <2>2, <2>3 DEF EveryRequestAnswered
  <1>4. Answered'
    BY <1>2, <1>3 DEF SessionInv, Answered
  <1>5. WritesAreGuarded'
    <2>1. WritesAreGuarded
      BY DEF SessionInv
    <2>2. \A m : Refusable(m)' <=> Refusable(m)
      BY DEF Refusable
    <2> QED
      BY <1>2, <2>1, <2>2 DEF WritesAreGuarded
  <1> QED
    BY <1>1, <1>4, <1>5 DEF SessionInv

\* The end of a message: a reply, or none where none is due.
LEMMA MessageEnds ==
    ASSUME SessionInv, server.at \in Stage, server' = Reading,
           UNCHANGED <<allowWrites, sent, effects, log, unlogged>>,
           n \in effects => Recorded(n, {"allowed", "failed"}),
           Refusable(message) => Recorded(n, {"blocked"}),
           \/ told' = told /\ ~Request(n)
           \/ \E kind \in Replies :
                 /\ told' = Append(told, [id |-> Last(sent).id, kind |-> kind, to |-> n])
                 /\ Last(sent).id # NoId => Request(n)
    PROVE  SessionInv'
  <1>1. /\ n \in Nat /\ n >= 1 /\ DOMAIN sent = 1..n
        /\ told \in Seq(ReplyType) /\ Last(sent) = sent[n] /\ sent[n] \in SentType
    BY SessionTypes DEF SessionInv, Handled
  <1>2. n' = n /\ \A i : Request(i)' <=> Request(i)
    BY DEF n, Request
  <1>3. InHeaders' /\ ~InHeaders /\ server'.at \notin Stage
    BY DEF Reading, InHeaders, Stage
  <1>4. /\ \A j \in DOMAIN told : told[j].to < n /\ told[j] \in ReplyType
        /\ EveryRequestAnswered
    BY <1>1 DEF SessionInv, Answered
  <1>5. \A i \in DOMAIN sent : Request(i) /\ i < n => \E j \in DOMAIN told : told[j].to = i
    BY <1>4 DEF EveryRequestAnswered
  <1>6. told' \in Seq(ReplyType) /\ EveryRequestAnswered'
    <2>1. CASE told' = told /\ ~Request(n)
      <3>1. \A i \in DOMAIN sent' : Request(i)' => \E j \in DOMAIN told' : told'[j].to = i
        BY <1>1, <1>2, <1>5, <2>1
      <3>2. \A j \in DOMAIN told' :
              /\ told'[j].to \in DOMAIN sent' /\ told'[j].id = sent'[told'[j].to].id
              /\ told'[j].id # NoId => Request(told[j].to)'
              /\ \A k \in 1..(j - 1) : told'[k].to < told'[j].to
        BY <1>2, <1>4, <2>1 DEF EveryRequestAnswered
      <3> QED
        BY <1>1, <2>1, <3>1, <3>2 DEF EveryRequestAnswered
    <2>2. ASSUME NEW kind \in Replies,
                 told' = Append(told, [id |-> Last(sent).id, kind |-> kind, to |-> n]),
                 Last(sent).id # NoId => Request(n)
          PROVE  told' \in Seq(ReplyType) /\ EveryRequestAnswered'
      <3> DEFINE r == [id |-> Last(sent).id, kind |-> kind, to |-> n]
      <3>1. r \in ReplyType /\ r.id = sent[n].id /\ r.to = n
        BY <1>1 DEF ReplyType, SentType
      <3>2. told' = Append(told, r)
        BY <2>2
      <3> HIDE DEF r
      <3>3. /\ told' \in Seq(ReplyType) /\ Len(told') = Len(told) + 1
            /\ \A j \in 1..Len(told) : told'[j] = told[j]
            /\ told'[Len(told) + 1] = r
        BY <1>1, <3>1, <3>2, AppendProperties
      <3>4. /\ Len(told) \in Nat /\ DOMAIN told = 1..Len(told)
            /\ DOMAIN told' = 1..(Len(told) + 1)
        BY <1>1, <3>3
      <3>5. ASSUME NEW j \in DOMAIN told'
            PROVE  /\ told'[j].to \in DOMAIN sent' /\ told'[j].id = sent'[told'[j].to].id
                   /\ told'[j].id # NoId => Request(told[j].to)'
                   /\ \A k \in 1..(j - 1) : told'[k].to < told'[j].to
        <4>1. CASE j \in 1..Len(told)
          BY <1>2, <1>4, <3>3, <3>4, <4>1 DEF EveryRequestAnswered
        <4>2. CASE j = Len(told) + 1
          <5>1. \A k \in 1..(j - 1) : told'[k].to < told'[j].to
            BY <1>4, <3>1, <3>3, <3>4, <4>2
          <5>2. told'[j].id # NoId => Request(told[j].to)'
            BY <1>1, <1>2, <2>2, <3>1, <3>3, <4>2 DEF Request
          <5> QED
            BY <1>1, <3>1, <3>3, <4>2, <5>1, <5>2
        <4> QED
          BY <3>4, <3>5, <4>1, <4>2
      <3>6. ASSUME NEW i \in DOMAIN sent', Request(i)'
            PROVE  \E j \in DOMAIN told' : told'[j].to = i
        <4>1. CASE i = n
          BY <3>1, <3>3, <3>4, <4>1
        <4>2. CASE i # n
          <5>1. PICK j \in DOMAIN told : told[j].to = i
            BY <1>1, <1>2, <1>5, <3>6, <4>2
          <5> QED
            BY <3>3, <3>4, <5>1
        <4> QED
          BY <4>1, <4>2
      <3> QED
        BY <3>3, <3>5, <3>6 DEF EveryRequestAnswered
    <2> QED
      BY <2>1, <2>2
  <1>7. SessionTypeOK'
    <2>1. Reading \in Resting
      BY DEF Reading, Resting
    <2> QED
      BY <1>6, <2>1 DEF SessionInv, SessionTypeOK, Resting, ReplyType, Replies
  <1>8. WritesAreGuarded'
    <2>1. WritesAreGuarded
      BY DEF SessionInv
    <2>2. \A m : Refusable(m)' <=> Refusable(m)
      BY DEF Refusable
    <2>3. ASSUME NEW i \in effects
          PROVE  i \in unlogged \/ <<i, "allowed">> \in log \/ <<i, "failed">> \in log
      <3>1. i \in 1..n
        BY <1>1, <2>3 DEF SessionInv, SessionTypeOK
      <3>2. CASE i < n
        BY <2>1, <2>3, <3>2 DEF WritesAreGuarded
      <3>3. CASE i = n
        BY <2>3, <3>3 DEF Recorded
      <3> QED
        BY <1>1, <3>1, <3>2, <3>3
    <2>4. ASSUME NEW i \in DOMAIN sent, Refusable(sent[i].message)
          PROVE  i \in unlogged \/ <<i, "blocked">> \in log
      <3>1. CASE i < n
        BY <2>1, <2>4, <3>1 DEF WritesAreGuarded
      <3>2. CASE i = n
        BY <1>1, <2>4, <3>2 DEF Recorded, message
      <3> QED
        BY <1>1, <2>4, <3>1, <3>2
    <2> QED
      BY <1>2, <2>1, <2>2, <2>3, <2>4 DEF WritesAreGuarded
  <1> QED
    BY <1>3, <1>6, <1>7, <1>8 DEF SessionInv, Handled, Answered

-----------------------------------------------------------------------------
(* The steps of a session.                                                 *)

\* A header line, a bad frame and the end of the stream: nothing is answered.
LEMMA ReadingStays ==
    ASSUME SessionInv, ReadOther \/ ReadLength \/ ReadBroken \/ ReadNoLength \/ ReadEnd
    PROVE  SessionInv'
  <1>1. InHeaders /\ UNCHANGED <<allowWrites, sent, told, effects, log, unlogged>>
    BY DEF ReadOther, ReadLength, ReadBroken, ReadNoLength, ReadEnd, Reads
  <1>2. server \in [at : {"headers"}, bytes : Nat, count : Nat, length : Nat \cup {NoId}]
    BY <1>1 DEF SessionInv, SessionTypeOK, InHeaders, Stage
  <1>3. \A status \in 0..2 : Closed(status) \in Resting
    BY DEF Closed, Resting
  <1>4. \A size \in LineSizes : Counted(size) \in
             [at : {"headers"}, bytes : Nat, count : Nat, length : Nat \cup {NoId}]
    <2>1. LineSizes \subseteq Nat
      BY McpAssumption
    <2>2. server.bytes \in Nat /\ server.count \in Nat
      BY <1>2
    <2>3. ASSUME NEW size \in LineSizes
          PROVE  server.bytes + size \in Nat /\ server.count + 1 \in Nat
      BY <2>1, <2>2
    <2> QED
      BY <1>2, <2>3 DEF Counted
  <1>5. server' \in Resting
    <2>1. CASE ReadOther
      BY <1>3, <1>4, <2>1 DEF ReadOther, Reads, Resting
    <2>2. CASE ReadLength
      <3>1. PICK size \in LineSizes,
                 value \in {NoId, 0, 1, MaxMessageBytes, MaxMessageBytes + 1} :
              \/ server' = Closed(2)
              \/ /\ value \in 1..MaxMessageBytes
                 /\ server' = [Counted(size) EXCEPT !.length = value]
        BY <2>2 DEF ReadLength, Reads
      <3>2. CASE server' = Closed(2)
        BY <1>3, <3>2
      <3>3. CASE /\ value \in 1..MaxMessageBytes
                 /\ server' = [Counted(size) EXCEPT !.length = value]
        <4>1. value \in Nat
          BY <3>3, McpAssumption
        <4> HIDE DEF Counted
        <4> QED
          BY <1>4, <3>3, <4>1 DEF Resting
      <3> QED
        BY <3>1, <3>2, <3>3
    <2>3. CASE ReadBroken \/ ReadNoLength \/ ReadEnd
      BY <1>3, <2>3 DEF ReadBroken, ReadNoLength, ReadEnd, Reads
    <2> QED
      BY <2>1, <2>2, <2>3
  <1>6. server'.at \notin Stage
    BY <1>5 DEF Resting, Stage
  <1>7. Handled'
    BY <1>6 DEF Handled
  <1> QED
    BY <1>1, <1>5, <1>6, <1>7, ServerMoves

\* The next message: those before it have been answered and recorded, and
\* nothing is known of it.
LEMMA ReadMessageStays ==
    ASSUME SessionInv, ReadMessage
    PROVE  SessionInv'
  <1>1. /\ n \in Nat /\ DOMAIN sent = 1..n /\ sent \in Seq(SentType)
        /\ told \in Seq(ReplyType)
    BY SessionTypes DEF SessionInv
  <1>2. PICK m \in Message, id \in Id \cup {NoId} :
          /\ m.method = "no object" => id = NoId
          /\ sent' = Append(sent, [id |-> id, message |-> m])
    BY DEF ReadMessage
  <1> DEFINE r == [id |-> id, message |-> m]
  <1>3. r \in SentType /\ r.id = id /\ r.message = m /\ sent' = Append(sent, r)
    BY <1>2 DEF SentType
  <1> HIDE DEF r
  <1>4. /\ sent' \in Seq(SentType) /\ n' = n + 1 /\ DOMAIN sent' = 1..(n + 1)
        /\ \A i \in 1..n : sent'[i] = sent[i]
        /\ Len(sent') = n + 1 /\ sent'[n + 1] = r
    BY <1>1, <1>3, AppendProperties DEF n
  <1>5. /\ server' = [at |-> "handle"] /\ InHeaders
        /\ UNCHANGED <<allowWrites, told, effects, log, unlogged>>
    BY DEF ReadMessage
  <1>6. ~InHeaders' /\ server'.at \in Stage
    BY <1>5 DEF InHeaders, Stage
  <1>7. \A i \in 1..n : Request(i)' <=> Request(i)
    BY <1>4 DEF Request
  <1>8. \A m2 : Refusable(m2)' <=> Refusable(m2)
    BY <1>5 DEF Refusable
  <1>9. SessionTypeOK'
    <2>1. server' \in [at : Stage]
      BY <1>5 DEF Stage
    <2>2. /\ effects' \subseteq 1..n /\ unlogged' \subseteq 1..n
          /\ log' \subseteq (1..n) \X {"blocked", "allowed", "failed"}
      BY <1>1, <1>5 DEF SessionInv, SessionTypeOK
    <2>3. 1..n \subseteq DOMAIN sent'
      BY <1>1, <1>4
    <2>4. log' \subseteq (DOMAIN sent') \X {"blocked", "allowed", "failed"}
      BY <2>2, <2>3
    <2>5. allowWrites' \in BOOLEAN /\ told' \in Seq(ReplyType)
      BY <1>1, <1>5 DEF SessionInv, SessionTypeOK
    <2> QED
      BY <1>4, <2>1, <2>2, <2>3, <2>4, <2>5 DEF SessionTypeOK, SentType, ReplyType, Replies
  <1>10. Handled'
    <2>1. n + 1 \notin effects /\ ~Recorded(n + 1, {"blocked", "allowed", "failed"})
      <3>1. n + 1 \notin 1..n
        BY <1>1
      <3>2. effects \subseteq 1..n /\ unlogged \subseteq 1..n
        BY <1>1 DEF SessionInv, SessionTypeOK
      <3>3. log \subseteq (1..n) \X {"blocked", "allowed", "failed"}
        BY <1>1 DEF SessionInv, SessionTypeOK
      <3>4. \A d : <<n + 1, d>> \notin log
        BY <3>1, <3>3
      <3> QED
        BY <3>1, <3>2, <3>4 DEF Recorded
    <2>2. ~Recorded(n, {"blocked", "allowed", "failed"})'
      BY <1>4, <1>5, <2>1 DEF Recorded
    <2>3. (message.method = "no object" => Last(sent).id = NoId)'
      <3>1. r.message.method = "no object" => r.id = NoId
        BY <1>2, <1>3
      <3>2. Last(sent)' = r
        BY <1>1, <1>4 DEF Last
      <3>3. message' = r.message /\ Last(sent)'.id = r.id
        BY <3>2 DEF message
      <3> QED
        BY <3>1, <3>3
    <2>4. n' >= 1 /\ server'.at = "handle" /\ (n \notin effects)'
      BY <1>1, <1>4, <1>5, <2>1
    <2> QED
      BY <2>2, <2>3, <2>4 DEF Handled
  <1>11. Answered'
    <2>1. EveryRequestAnswered
      BY DEF SessionInv, Answered
    <2>2. ASSUME NEW j \in DOMAIN told
          PROVE  told[j].to \in 1..n
      BY <1>1, <2>1, <2>2 DEF EveryRequestAnswered
    <2>3. \A j \in DOMAIN told' : told'[j].to < n'
      BY <1>1, <1>4, <1>5, <2>2
    <2>4. EveryRequestAnswered'
      <3>1. \A j \in DOMAIN told' :
              /\ told'[j].to \in DOMAIN sent' /\ told'[j].id = sent'[told'[j].to].id
              /\ told'[j].id # NoId => Request(told[j].to)'
              /\ \A k \in 1..(j - 1) : told'[k].to < told'[j].to
        BY <1>1, <1>4, <1>5, <1>7, <2>1, <2>2 DEF EveryRequestAnswered
      <3>2. ASSUME NEW i \in DOMAIN sent', Request(i)', i < n' \/ InHeaders'
            PROVE  \E j \in DOMAIN told' : told'[j].to = i
        <4>1. i \in 1..n
          BY <1>1, <1>4, <1>6, <3>2
        <4> QED
          BY <1>1, <1>5, <1>7, <2>1, <3>2, <4>1 DEF EveryRequestAnswered
      <3> QED
        BY <3>1, <3>2 DEF EveryRequestAnswered
    <2> QED
      BY <2>3, <2>4 DEF Answered
  <1>12. WritesAreGuarded'
    <2>1. WritesAreGuarded /\ effects \subseteq 1..n
      BY <1>1 DEF SessionInv, SessionTypeOK
    <2>2. ASSUME NEW i \in DOMAIN sent', Refusable(sent[i].message)', i < n' \/ InHeaders'
          PROVE  i \in unlogged' \/ <<i, "blocked">> \in log'
      <3>1. i \in 1..n
        BY <1>1, <1>4, <1>6, <2>2
      <3> QED
        BY <1>1, <1>4, <1>5, <1>8, <2>1, <2>2, <3>1 DEF WritesAreGuarded
    <2>3. ASSUME NEW i \in effects'
          PROVE  /\ allowWrites' /\ sent'[i].message.arguments.confirm = "true"
                 /\ sent'[i].message.arguments.dry # "true" /\ <<i, "blocked">> \notin log'
                 /\ i \in unlogged' \/ <<i, "allowed">> \in log' \/ <<i, "failed">> \in log'
      BY <1>4, <1>5, <2>1, <2>3 DEF WritesAreGuarded
    <2>4. \A e \in log' : e[2] = "allowed" => e[1] \in effects'
      BY <1>5, <2>1 DEF WritesAreGuarded
    <2> QED
      BY <2>2, <2>3, <2>4 DEF WritesAreGuarded
  <1> QED
    BY <1>9, <1>10, <1>11, <1>12 DEF SessionInv

\* The two forms of a message.
LEMMA MessageForms ==
    ASSUME NEW m \in Message
    PROVE  /\ m.method \in PlainMethods \cup {"none", "no object", "bad call", "tools/call"}
           /\ m.method = "tools/call" => m.arguments \in Arguments
  <1>1. m \in Messages
    BY MessageAssumption
  <1>2. CASE m \in [method : {"tools/call"}, tool : Tool \cup {"unknown"}, arguments : Arguments]
    BY <1>2
  <1>3. CASE m \in [method : PlainMethods \cup {"none", "no object", "bad call"}]
    BY <1>3 DEF PlainMethods
  <1> QED
    BY <1>1, <1>2, <1>3 DEF Messages

\* A method other than tools/call: answered at once, or with nothing.
LEMMA HandlePlainStays ==
    ASSUME SessionInv, HandlePlain
    PROVE  SessionInv'
  <1>1. /\ server.at = "handle" /\ message.method # "tools/call" /\ server.at \in Stage
        /\ n \in Nat /\ n >= 1 /\ Last(sent) = sent[n] /\ message \in Message
    BY SessionTypes DEF HandlePlain, Stage, SessionInv, Handled
  <1>2. message = sent[n].message
    BY <1>1 DEF message
  <1>3. /\ n \notin effects
        /\ ~Refusable(message)
        /\ message.method = "no object" => Last(sent).id = NoId
    BY <1>1 DEF SessionInv, Handled, Refusable
  <1>4. message.method \in PlainMethods \cup {"none", "no object", "bad call", "tools/call"}
    BY <1>1, MessageForms
  <1>5. \A kind : Reply(kind) => /\ server' = Reading
                                 /\ UNCHANGED <<allowWrites, sent, effects, log, unlogged>>
                                 /\ told' = Append(told, [id |-> Last(sent).id, kind |-> kind, to |-> n])
    BY DEF Reply
  <1>6. \/ Silence /\ ~Request(n)
        \/ \E kind \in Replies : Reply(kind) /\ (Last(sent).id # NoId => Request(n))
    <2>1. CASE message.method \in {"initialize", "ping", "tools/list"}
      BY <1>1, <1>2, <2>1 DEF HandlePlain, Replies, Request, Owed
    <2>2. CASE message.method = "notifications/initialized"
      BY <1>1, <1>2, <2>2 DEF HandlePlain, Request, Owed
    <2>3. CASE message.method = "none"
      BY <1>1, <1>2, <2>3 DEF HandlePlain, Replies, Request, Owed
    <2>4. CASE message.method = "no object"
      BY <1>1, <1>2, <1>3, <2>4 DEF HandlePlain, Replies, Request, Owed
    <2>5. CASE message.method = "bad call"
      BY <1>1, <1>2, <2>5 DEF HandlePlain, Replies, Request, Owed
    <2>6. CASE message.method = "other"
      BY <1>1, <1>2, <2>6 DEF HandlePlain, Replies, Request, Owed
    <2> QED
      BY <1>1, <1>4, <2>1, <2>2, <2>3, <2>4, <2>5, <2>6 DEF PlainMethods
  <1>7. CASE Silence /\ ~Request(n)
    BY <1>1, <1>3, <1>7, MessageEnds DEF Silence
  <1>8. CASE \E kind \in Replies : Reply(kind) /\ (Last(sent).id # NoId => Request(n))
    BY <1>1, <1>3, <1>5, <1>8, MessageEnds
  <1> QED
    BY <1>6, <1>7, <1>8

\* Raised answers a call that carries an id.
LEMMA RaisedEnds ==
    ASSUME SessionInv, server.at \in Stage, message.method = "tools/call", Raised,
           n \in effects => Recorded(n, {"allowed", "failed"}),
           Refusable(message) => Recorded(n, {"blocked"})
    PROVE  SessionInv'
  <1>1. n >= 1 /\ Last(sent) = sent[n]
    BY SessionTypes DEF SessionInv, Handled
  <1>2. Request(n) <=> Last(sent).id # NoId
    BY <1>1 DEF Request, Owed, message
  <1>3. CASE Last(sent).id = NoId
    BY <1>2, <1>3, MessageEnds DEF Raised, Silence
  <1>4. CASE Last(sent).id # NoId
    BY <1>2, <1>4, MessageEnds DEF Raised, Reply, Replies
  <1> QED
    BY <1>3, <1>4

\* A reply to a call.
LEMMA CallAnswered ==
    ASSUME SessionInv, server.at \in Stage, message.method = "tools/call",
           NEW kind \in Replies, Reply(kind),
           n \in effects => Recorded(n, {"allowed", "failed"}),
           Refusable(message) => Recorded(n, {"blocked"})
    PROVE  SessionInv'
  <1>1. n >= 1 /\ Last(sent) = sent[n]
    BY SessionTypes DEF SessionInv, Handled
  <1>2. Request(n) <=> Last(sent).id # NoId
    BY <1>1 DEF Request, Owed, message
  <1> QED
    BY <1>2, MessageEnds DEF Reply

\* A call that its schema refuses, or whose profile is unknown, could have been
\* refused without the guards; any other goes to them.
LEMMA HandleCallStays ==
    ASSUME SessionInv, HandleCall
    PROVE  SessionInv'
  <1>1. /\ server.at = "handle" /\ server.at \in Stage /\ n >= 1
        /\ message.method = "tools/call" /\ n \notin effects
        /\ ~Recorded(n, {"blocked", "allowed", "failed"})
    BY DEF HandleCall, Stage, SessionInv, Handled
  <1>2. CASE ~Accepts(message.tool, message.arguments)
    <2>1. ~Refusable(message)
      BY <1>2 DEF Refusable
    <2>2. Reply("invalid params") /\ "invalid params" \in Replies
      BY <1>2 DEF HandleCall, Replies
    <2> QED
      BY <1>1, <2>1, <2>2, CallAnswered
  <1>3. CASE /\ Accepts(message.tool, message.arguments)
             /\ message.tool \notin WithoutProfile /\ message.arguments.profile = "unknown"
    <2>1. ~Refusable(message)
      BY <1>3 DEF Refusable
    <2>2. Raised
      BY <1>3 DEF HandleCall
    <2> QED
      BY <1>1, <2>1, <2>2, RaisedEnds
  <1>4. CASE /\ Accepts(message.tool, message.arguments)
             /\ ~(message.tool \notin WithoutProfile /\ message.arguments.profile = "unknown")
    <2>1. /\ UNCHANGED <<allowWrites, sent, told, effects, log, unlogged>>
          /\ server' = [at |-> IF message.tool \in WithoutProfile THEN "dispatch" ELSE "guard"]
      BY <1>4 DEF HandleCall, Step
    <2>2. message.arguments \in Arguments
      BY <1>1, SessionTypes, MessageForms DEF SessionInv
    <2>3. message.tool \notin WithoutProfile => message.arguments.profile = "known"
      BY <1>4, <2>2 DEF Arguments
    <2>4. message.tool \in WithoutProfile => ~Blocked
      BY DEF WithoutProfile, Blocked, CallMutates, MutatingTools
    <2>5. message' = message /\ n' = n /\ (Blocked' <=> Blocked)
      BY <2>1 DEF message, n, Blocked
    <2>6. \A how : Recorded(n, how)' <=> Recorded(n, how)
      BY <2>1, <2>5 DEF Recorded
    <2>7. server' \in [at : Stage] /\ server'.at \in {"dispatch", "guard"}
      BY <2>1 DEF Stage
    <2>8. Handled'
      BY <1>1, <1>4, <2>1, <2>3, <2>4, <2>5, <2>6, <2>7 DEF Handled
    <2> QED
      BY <1>1, <2>1, <2>7, <2>8, ServerMoves DEF InHeaders
  <1> QED
    BY <1>2, <1>3, <1>4

\* The guard decides.
LEMMA GuardStays ==
    ASSUME SessionInv, Guard
    PROVE  SessionInv'
  <1>1. /\ server.at = "guard" /\ server.at \in Stage
        /\ UNCHANGED <<allowWrites, sent, told, effects, log, unlogged>>
        /\ server' = [at |-> IF Blocked THEN "blocked" ELSE "dispatch"]
    BY DEF Guard, Stage, Step
  <1>2. message' = message /\ n' = n /\ (Blocked' <=> Blocked)
    BY <1>1 DEF message, n, Blocked
  <1>3. \A how : Recorded(n, how)' <=> Recorded(n, how)
    BY <1>1, <1>2 DEF Recorded
  <1>4. server' \in [at : Stage] /\ server'.at \in {"dispatch", "blocked"}
    BY <1>1 DEF Stage
  <1>5. Handled
    BY DEF SessionInv
  <1>6. Handled'
    BY <1>1, <1>2, <1>3, <1>4, <1>5 DEF Handled
  <1> QED
    BY <1>1, <1>4, <1>6, ServerMoves DEF InHeaders

\* What is recorded of a call decides whether its answer may be given.
LEMMA AnswerStays ==
    ASSUME SessionInv, Answer \/ Raise
    PROVE  SessionInv'
  <1>1. server.at \in {"answer", "raise"} /\ server.at \in Stage
    BY DEF Answer, Raise, Stage
  <1>2. /\ message.method = "tools/call"
        /\ n \in effects => Recorded(n, {"allowed", "failed"})
        /\ Blocked => Recorded(n, {"blocked"})
    BY <1>1 DEF SessionInv, Handled
  <1>3. Refusable(message) => Blocked
    BY DEF Refusable, Blocked
  <1>4. CASE Answer
    BY <1>1, <1>2, <1>3, <1>4, CallAnswered DEF Answer, Replies
  <1>5. CASE Raise
    BY <1>1, <1>2, <1>3, <1>5, RaisedEnds DEF Raise
  <1> QED
    BY <1>4, <1>5

\* A server that dies owes nothing for the message it held.
LEMMA DiesStays ==
    ASSUME SessionInv, ServerDies
    PROVE  SessionInv'
  <1>1. /\ UNCHANGED <<allowWrites, sent, told, effects, log, unlogged>>
        /\ server' = Closed(1)
    BY DEF ServerDies
  <1>2. server' \in Resting /\ server'.at \notin Stage /\ ~InHeaders'
    BY <1>1 DEF Closed, Resting, Stage, InHeaders
  <1>3. Handled'
    BY <1>2 DEF Handled
  <1> QED
    BY <1>1, <1>2, <1>3, ServerMoves

\* A tool that is let through: it may have an effect, and only a call that
\* mutates and was confirmed to a server that allows writes has one.
LEMMA DispatchStays ==
    ASSUME SessionInv, Dispatch
    PROVE  SessionInv'
  <1> DEFINE mutates == CallMutates(message.tool, message.arguments)
  <1>1. PICK ok \in BOOLEAN, effect \in {FALSE, mutates} :
          /\ ok /\ mutates => effect
          /\ effects' = IF effect THEN effects \cup {n} ELSE effects
          /\ server' = [at |-> IF mutates THEN IF ok THEN "allowed" ELSE "failed"
                               ELSE IF ok THEN "answer" ELSE "raise"]
    BY DEF Dispatch, Step
  <1>2. server.at = "dispatch" /\ UNCHANGED <<allowWrites, sent, told, log, unlogged>>
    BY DEF Dispatch
  <1>3. /\ n \in Nat /\ n >= 1 /\ n \in DOMAIN sent /\ DOMAIN sent = 1..n
        /\ message = sent[n].message /\ message \in Message
    BY <1>2, SessionTypes DEF SessionInv, Handled, message, Stage
  <1>4. /\ message.method = "tools/call" /\ Accepts(message.tool, message.arguments)
        /\ message.tool \notin WithoutProfile => message.arguments.profile = "known"
        /\ n \notin effects /\ ~Recorded(n, {"blocked", "allowed", "failed"}) /\ ~Blocked
    BY <1>2 DEF SessionInv, Handled, Stage
  <1>5. message' = message /\ n' = n /\ (Blocked' <=> Blocked)
    BY <1>2 DEF message, n, Blocked
  <1>6. \A how : Recorded(n, how)' <=> Recorded(n, how)
    BY <1>2, <1>5 DEF Recorded
  <1>7. /\ server' \in [at : Stage] /\ server'.at \in {"allowed", "failed", "answer", "raise"}
        /\ server'.at \in {"allowed", "failed"} <=> mutates
        /\ server'.at = "allowed" => n \in effects'
    BY <1>1 DEF Stage
  <1>8. effects \subseteq effects' /\ effects' \subseteq effects \cup {n}
        /\ (n \in effects' => mutates)
    BY <1>1, <1>4
  <1>9. SessionTypeOK'
    BY <1>2, <1>3, <1>7, <1>8 DEF SessionInv, SessionTypeOK
  <1>10. Handled'
    <2>1. server'.at \in Stage
      BY <1>7 DEF Stage
    <2>2. server'.at \in {"answer", "raise"} => n \notin effects'
      BY <1>7, <1>8
    <2> HIDE DEF mutates
    <2> QED
      BY <1>3, <1>4, <1>5, <1>6, <1>7, <2>1, <2>2 DEF Handled
  <1>11. Answered'
    <2>1. EveryRequestAnswered /\ \A j \in DOMAIN told : told[j].to < n
      BY <1>2 DEF SessionInv, Answered, Stage
    <2>2. ~InHeaders' /\ \A i : Request(i)' <=> Request(i)
      BY <1>2, <1>7 DEF InHeaders, Request
    <2>3. \A j \in DOMAIN told' :
              /\ told'[j].to \in DOMAIN sent' /\ told'[j].id = sent'[told'[j].to].id
              /\ told'[j].id # NoId => Request(told[j].to)'
              /\ \A k \in 1..(j - 1) : told'[k].to < told'[j].to
      BY <1>2, <2>1, <2>2 DEF EveryRequestAnswered
    <2>4. \A i \in DOMAIN sent' : Request(i)' /\ (i < n' \/ InHeaders')
             => \E j \in DOMAIN told' : told'[j].to = i
      BY <1>2, <1>5, <2>1, <2>2 DEF EveryRequestAnswered
    <2>5. EveryRequestAnswered'
      BY <2>3, <2>4 DEF EveryRequestAnswered
    <2> QED
      BY <1>2, <1>5, <2>1, <2>5 DEF Answered
  <1>12. WritesAreGuarded'
    <2>1. WritesAreGuarded
      BY DEF SessionInv
    <2>2. ~InHeaders' /\ \A m : Refusable(m)' <=> Refusable(m)
      BY <1>2, <1>7 DEF InHeaders, Refusable
    <2>3. n \in effects' => /\ allowWrites /\ message.arguments.confirm = "true"
                            /\ message.arguments.dry # "true" /\ <<n, "blocked">> \notin log
      <3>1. mutates => allowWrites /\ message.arguments.confirm = "true"
        BY <1>4 DEF Blocked
      <3>2. mutates => message.arguments.dry # "true"
        BY <1>4 DEF CallMutates, Accepts, Takes
      <3>3. <<n, "blocked">> \notin log
        BY <1>4 DEF Recorded
      <3> QED
        BY <1>8, <3>1, <3>2, <3>3
    <2>4. ASSUME NEW i \in effects'
          PROVE  /\ allowWrites' /\ sent'[i].message.arguments.confirm = "true"
                 /\ sent'[i].message.arguments.dry # "true" /\ <<i, "blocked">> \notin log'
                 /\ i < n' \/ InHeaders' =>
                      i \in unlogged' \/ <<i, "allowed">> \in log' \/ <<i, "failed">> \in log'
      <3>1. CASE i = n
        BY <1>2, <1>3, <1>5, <2>2, <2>3, <2>4, <3>1
      <3>2. CASE i # n
        <4>1. i \in effects
          BY <1>8, <2>4, <3>2
        <4> QED
          BY <1>2, <1>5, <2>1, <2>2, <4>1 DEF WritesAreGuarded
      <3> QED
        BY <3>1, <3>2
    <2>5. \A e \in log' : e[2] = "allowed" => e[1] \in effects'
      BY <1>2, <1>8, <2>1 DEF WritesAreGuarded
    <2>6. \A i \in DOMAIN sent' : Refusable(sent[i].message)' /\ (i < n' \/ InHeaders')
             => i \in unlogged' \/ <<i, "blocked">> \in log'
      BY <1>2, <1>5, <2>1, <2>2 DEF WritesAreGuarded
    <2> QED
      BY <2>4, <2>5, <2>6 DEF WritesAreGuarded
  <1> QED
    BY <1>9, <1>10, <1>11, <1>12 DEF SessionInv

\* The event of a call, written or lost.
LEMMA RecordStays ==
    ASSUME SessionInv, Record
    PROVE  SessionInv'
  <1>1. /\ server.at \in {"blocked", "allowed", "failed"} /\ server.at \in Stage
        /\ UNCHANGED <<allowWrites, sent, told, effects>>
        /\ \/ /\ log' = log \cup {<<n, server.at>>} /\ unlogged' = unlogged
              /\ server' = [at |-> IF server.at = "allowed" THEN "answer" ELSE "raise"]
           \/ /\ unlogged' = unlogged \cup {n} /\ log' = log
              /\ server' = [at |-> "raise"]
    BY DEF Record, Step, Stage
  <1>2. n \in Nat /\ n >= 1 /\ n \in DOMAIN sent /\ DOMAIN sent = 1..n
    <2>1. n \in Nat /\ DOMAIN sent = 1..n
      BY SessionTypes DEF SessionInv
    <2>2. n >= 1
      BY <1>1 DEF SessionInv, Handled
    <2> QED
      BY <2>1, <2>2
  <1>3. Handled /\ WritesAreGuarded /\ EveryRequestAnswered
    BY DEF SessionInv, Answered
  <1>4. message' = message /\ n' = n /\ (Blocked' <=> Blocked)
    BY <1>1 DEF message, n, Blocked
  <1>5. server' \in [at : Stage] /\ server'.at \in {"answer", "raise"} /\ ~InHeaders'
    BY <1>1 DEF Stage, InHeaders
  <1>6. log \subseteq log' /\ log' \subseteq log \cup {<<n, server.at>>}
        /\ unlogged \subseteq unlogged' /\ unlogged' \subseteq unlogged \cup {n}
    BY <1>1
  <1>7. /\ server.at = "blocked" => Recorded(n, {"blocked"})'
        /\ server.at # "blocked" => Recorded(n, {"allowed", "failed"})'
    BY <1>1, <1>4 DEF Recorded
  <1>8. SessionTypeOK'
    <2>1. log \subseteq (DOMAIN sent) \X {"blocked", "allowed", "failed"}
          /\ <<n, server.at>> \in (DOMAIN sent) \X {"blocked", "allowed", "failed"}
      BY <1>1, <1>2 DEF SessionInv, SessionTypeOK
    <2>2. log' \subseteq (DOMAIN sent') \X {"blocked", "allowed", "failed"}
      BY <1>1, <1>6, <2>1
    <2> QED
      BY <1>1, <1>2, <1>5, <1>6, <2>2 DEF SessionInv, SessionTypeOK
  <1>9. Handled'
    <2>1. /\ n >= 1 /\ message.method = "tools/call"
          /\ Accepts(message.tool, message.arguments)
          /\ message.tool \notin WithoutProfile => message.arguments.profile = "known"
          /\ server.at = "blocked" => n \notin effects
          /\ server.at # "blocked" => ~Blocked
      BY <1>1, <1>3 DEF Handled
    <2>2. (n \in effects => Recorded(n, {"allowed", "failed"}))'
      BY <1>1, <1>4, <1>7, <2>1
    <2>3. (Blocked => Recorded(n, {"blocked"}))'
      BY <1>1, <1>4, <1>7, <2>1
    <2> QED
      BY <1>1, <1>4, <1>5, <2>1, <2>2, <2>3 DEF Handled
  <1>10. Answered'
    <2>1. \A i : Request(i)' <=> Request(i)
      BY <1>1 DEF Request
    <2>2. \A j \in DOMAIN told' :
              /\ told'[j].to \in DOMAIN sent' /\ told'[j].id = sent'[told'[j].to].id
              /\ told'[j].id # NoId => Request(told[j].to)'
              /\ \A k \in 1..(j - 1) : told'[k].to < told'[j].to
      BY <1>1, <1>3, <2>1 DEF EveryRequestAnswered
    <2>3. \A i \in DOMAIN sent' : Request(i)' /\ (i < n' \/ InHeaders')
             => \E j \in DOMAIN told' : told'[j].to = i
      BY <1>1, <1>3, <1>4, <1>5, <2>1 DEF EveryRequestAnswered
    <2>4. EveryRequestAnswered'
      BY <2>2, <2>3 DEF EveryRequestAnswered
    <2>5. \A j \in DOMAIN told : told[j].to < n
      BY <1>1 DEF SessionInv, Answered
    <2> QED
      BY <1>1, <1>4, <2>4, <2>5 DEF Answered
  <1>11. WritesAreGuarded'
    <2>1. \A m : Refusable(m)' <=> Refusable(m)
      BY <1>1 DEF Refusable
    <2>2. ASSUME NEW i \in effects'
          PROVE  /\ allowWrites' /\ sent'[i].message.arguments.confirm = "true"
                 /\ sent'[i].message.arguments.dry # "true"
                 /\ i < n' \/ InHeaders' =>
                      i \in unlogged' \/ <<i, "allowed">> \in log' \/ <<i, "failed">> \in log'
      BY <1>1, <1>3, <1>4, <1>5, <1>6, <2>2 DEF WritesAreGuarded
    <2>3. ASSUME NEW i \in effects'
          PROVE  <<i, "blocked">> \notin log'
      <3>1. <<i, "blocked">> \notin log
        BY <1>1, <1>3, <2>3 DEF WritesAreGuarded
      <3>2. CASE server.at = "blocked"
        <4>1. n \notin effects
          BY <1>1, <1>3, <3>2 DEF Handled
        <4>2. i # n
          BY <1>1, <2>3, <4>1
        <4> QED
          BY <1>6, <3>1, <4>2
      <3>3. CASE server.at # "blocked"
        BY <1>6, <3>1, <3>3
      <3> QED
        BY <3>2, <3>3
    <2>4. ASSUME NEW e \in log', e[2] = "allowed"
          PROVE  e[1] \in effects'
      <3>1. CASE e \in log
        BY <1>1, <1>3, <2>4, <3>1 DEF WritesAreGuarded
      <3>2. CASE e = <<n, server.at>>
        BY <1>1, <1>3, <2>4, <3>2 DEF Handled
      <3> QED
        BY <1>6, <2>4, <3>1, <3>2
    <2>5. \A i \in DOMAIN sent' : Refusable(sent[i].message)' /\ (i < n' \/ InHeaders')
             => i \in unlogged' \/ <<i, "blocked">> \in log'
      BY <1>1, <1>3, <1>4, <1>5, <1>6, <2>1 DEF WritesAreGuarded
    <2> QED
      BY <2>2, <2>3, <2>4, <2>5 DEF WritesAreGuarded
  <1> QED
    BY <1>8, <1>9, <1>10, <1>11 DEF SessionInv

\* A session that has read nothing.
LEMMA FreshSession ==
    ASSUME allowWrites \in BOOLEAN, server = Reading, sent = <<>>, told = <<>>,
           effects = {}, log = {}, unlogged = {}
    PROVE  SessionInv
  <1>1. DOMAIN sent = {} /\ DOMAIN told = {} /\ server.at \notin Stage
    BY DEF Reading, Stage
  <1>2. SessionTypeOK
    BY DEF SessionTypeOK, Reading
  <1> QED
    BY <1>1, <1>2 DEF SessionInv, Handled, Answered, EveryRequestAnswered, WritesAreGuarded

\* The next session of the client owes nothing of the last one.
LEMMA ServeAgainStays ==
    ASSUME ServeAgain
    PROVE  SessionInv'
  <1>1. /\ allowWrites' \in BOOLEAN /\ server' = Reading /\ sent' = <<>> /\ told' = <<>>
        /\ effects' = {} /\ log' = {} /\ unlogged' = {}
    BY DEF ServeAgain
  <1>2. DOMAIN sent' = {} /\ DOMAIN told' = {} /\ server'.at \notin Stage
    BY <1>1 DEF Reading, Stage
  <1>3. SessionTypeOK'
    BY <1>1 DEF SessionTypeOK, Reading
  <1> QED
    BY <1>1, <1>2, <1>3 DEF SessionInv, Handled, Answered, EveryRequestAnswered, WritesAreGuarded

\* Every session of every client keeps the inductive invariant.
THEOREM SessionInvariant == SessionSpec => []SessionInv
  <1>1. McpInit => SessionInv
    BY FreshSession DEF McpInit
  <1>2. SessionInv /\ [McpNext]_mcpVars => SessionInv'
    <2> SUFFICES ASSUME SessionInv, [McpNext]_mcpVars
                 PROVE  SessionInv'
      OBVIOUS
    <2>1. CASE ReadOther \/ ReadLength \/ ReadBroken \/ ReadNoLength \/ ReadEnd
      BY <2>1, ReadingStays
    <2>2. CASE ReadMessage
      BY <2>2, ReadMessageStays
    <2>3. CASE HandlePlain
      BY <2>3, HandlePlainStays
    <2>4. CASE HandleCall
      BY <2>4, HandleCallStays
    <2>5. CASE Guard
      BY <2>5, GuardStays
    <2>6. CASE Dispatch
      BY <2>6, DispatchStays
    <2>7. CASE Record
      BY <2>7, RecordStays
    <2>8. CASE Answer \/ Raise
      BY <2>8, AnswerStays
    <2>9. CASE ServerDies
      BY <2>9, DiesStays
    <2>10. CASE ServeAgain
      BY <2>10, ServeAgainStays
    <2>11. CASE UNCHANGED mcpVars
      <3>1. UNCHANGED <<allowWrites, server, sent, told, effects, log, unlogged>>
        BY <2>11 DEF mcpVars
      <3>2. SessionTypeOK'
        BY <3>1 DEF SessionInv, SessionTypeOK
      <3>3. Handled'
        BY <3>1 DEF SessionInv, Handled, n, message, Recorded, Blocked
      <3>4. n' = n /\ (InHeaders' <=> InHeaders) /\ \A i : Request(i)' <=> Request(i)
        BY <3>1 DEF n, InHeaders, Request
      <3>5. Answered'
        BY <3>1, <3>4 DEF SessionInv, Answered, EveryRequestAnswered
      <3>6. WritesAreGuarded'
        BY <3>1, <3>4 DEF SessionInv, WritesAreGuarded, Refusable
      <3> QED
        BY <3>2, <3>3, <3>5, <3>6 DEF SessionInv
    <2> QED
      BY <2>1, <2>2, <2>3, <2>4, <2>5, <2>6, <2>7, <2>8, <2>9, <2>10, <2>11 DEF McpNext
  <1> QED
    BY <1>1, <1>2, PTL DEF SessionSpec

\* Requests are answered in their order, once and with their own id, before the
\* next frame is read (mcp.py, serve_stdio), for any number of messages and ids.
THEOREM RequestsAnswered == SessionSpec => []EveryRequestAnswered
  <1>1. SessionInv => EveryRequestAnswered
    BY DEF SessionInv, Answered
  <1> QED
    BY <1>1, SessionInvariant, PTL

\* What a client's calls change they change behind both guards, with an event
\* for each call that was answered, done or refused (mcp.py, call_tool).
THEOREM GuardedWrites == SessionSpec => []WritesAreGuarded
  <1>1. SessionInv => WritesAreGuarded
    BY DEF SessionInv
  <1> QED
    BY <1>1, SessionInvariant, PTL
=============================================================================
