--------------------------- MODULE RuntimeProofs ---------------------------
(***************************************************************************)
(* The servers of a stack, for any number of commands and processes; the   *)
(* advice for a workflow, for any host; and what a quickstart answers, for *)
(* any flags and any files of a profile.                                   *)
(***************************************************************************)
EXTENDS Runtime, Toolchain, Quickstart, FiniteSetTheorems, SequenceTheorems, TLAPS

-----------------------------------------------------------------------------
(* The inductive invariant of the servers.                                 *)

\* A command that works has a step to do.
Busy == \A c \in Command : job[c].at # "idle" => job[c].todo # <<>>

\* Only a stack in docker has a container.
DockerOnly ==
    /\ container # "absent" => mode = "docker"
    /\ \A c \in Command : job[c].at = "run" => mode = "docker"

\* One command at a time.
Alone == \A c, d \in Command : job[c].at # "idle" /\ job[d].at # "idle" => c = d

NoServer == \A p \in Pid : process[p] \notin Server

\* OneServer without a cardinality.
SoleServer == \A p, q \in Pid : process[p] \in Server /\ process[q] \in Server => p = q

\* What a command that is alone knows between two steps of its script.
Knows(c) ==
    /\ job[c].at \in {"spawn", "unlink"} => NoServer
    /\ job[c].at = "record" => \A p \in Pid : process[p] \in Server => p = job[c].pid
    /\ job[c].at = "kill" => job[c].pid = pidFile

\* What an install and a pull that succeeded have brought, and whether packages
\* are to follow.  The install of Ollama shows only when the pull succeeds.
Brought == mode \in HelperInstalls \ {"ollama"} => installed
Fetched ==
    /\ mode \in HelperPulls => pulled
    /\ mode = "ollama" => installed
WithPackages == orchestrated /\ mode # "runner"

\* A prepare does its steps in this order; each has had its effect when the
\* next one is due.
Preparing(c) ==
    /\ job[c].at = "step" /\ job[c].inner = <<>> /\ job[c].report = "none"
    /\ \/ job[c].todo = Prepare
       \/ job[c].todo = Tail(Prepare) /\ Brought
       \/ WithPackages /\ job[c].todo = <<"packages">> /\ Brought /\ Fetched

ServerInv ==
    /\ TypeOK /\ Busy /\ DockerOnly /\ ListenerLives
    /\ NoServerIsLost
    /\ calm => /\ Alone /\ SoleServer
               /\ \A c \in Command : Knows(c)
               /\ \A c \in Command :
                    job[c].kind = "prepare" /\ job[c].at # "idle" => Preparing(c)

-----------------------------------------------------------------------------
(* The inductive invariant of the advice.                                  *)

ToolSpec == ToolInit /\ [][ToolNext]_toolVars

Naming == {"set_default", "add_target", "name"}

\* What a workflow without a VM lacks is advised until it is done.
ToolsTold ==
    /\ \A t \in Missing(flow) : Advise("install", t) \in advice
    /\ Unsatisfied(flow) # {} => Advise("choose", flow) \in advice

RuntimeTold == UsableRuntimes = {} => \E a \in advice : a.act = "serve"

\* A local VM takes three rounds: a target with a provider; a provider that
\* the host supports, and Vagrant; the provider itself with its plugin.
VmTold ==
    /\ vm \notin VmProvider => rounds = 0 /\ \E a \in advice : a.act \in Naming
    /\ rounds >= 1 => /\ \A a \in advice : a.act \notin Naming
                      /\ ~Installed("vagrant") => Advise("install", "vagrant") \in advice
                      /\ ~Supports(vm) => \E a \in advice : a.act = "select"
    /\ rounds >= 2 => /\ Installed("vagrant") /\ Supports(vm)
                      /\ \A a \in advice : a.act # "select"
                      /\ vm \notin working => Advise("enable", vm) \in advice
                      /\ NeedsPlugin(vm) /\ vm \notin plugins => Advise("plugin", vm) \in advice
    /\ rounds = Enough => ProviderUsable(vm)

Told ==
    CASE flow = "local_vm" -> VmTold
      [] flow = "local_runtime" /\ report.kind = "doctor" -> RuntimeTold
      [] OTHER -> ToolsTold

AdviceInv ==
    /\ rounds \in 0..Enough
    /\ vm \in VmProvider \cup NoTarget
    /\ report.kind = "none" => report = NoReport /\ rounds = 0
    /\ report.kind # "none" => Told
    /\ AdviceConverges

-----------------------------------------------------------------------------
(* The inductive invariant of a quickstart.                                *)

QuickstartSpec == QsInit /\ [][QsNext]_qsVars

QsTypeOK ==
    /\ dir \in [there : BOOLEAN, files : SUBSET ConfigFile]
    /\ weights \in BOOLEAN
    /\ ask \in QsFlag
    /\ phase \in {"idle", "create", "remove", "copy", "load", "hardware", "discovery",
                  "pull", "status"}

\* What a command has seen of the profile when it gets to a phase.
Reached ==
    /\ phase \in {"remove", "copy"} => ~ask.dry
    /\ phase = "load" => dir.there \/ ask.dry
    /\ phase \in {"hardware", "discovery", "pull"} => Whole
    /\ phase = "status" => Whole \/ (ask.dry /\ ~dir.there)
    /\ phase # "idle" => answer = NoAnswer

QuickstartInv == QsTypeOK /\ Reached /\ QuickstartTellsTheTruth

-----------------------------------------------------------------------------
(* The servers: what a step of a command does to its job.                  *)

\* What a step that ends in success, in failure or at another point leaves of
\* the job.
Moved(c) ==
    /\ job' \in [Command -> Job]
    /\ \A d \in Command \ {c} : job'[d] = job[d]
    /\ job'[c].kind = job[c].kind
    /\ job'[c].at # "idle" => job'[c].todo # <<>>

\* After the last step of a script.
Finished(c) ==
    /\ Moved(c)
    /\ job'[c].at \in {"idle", "step"}

\* The fields of a job.
LEMMA JobFields ==
    ASSUME TypeOK, NEW c \in Command
    PROVE  /\ job[c] \in Job /\ job[c].kind \in Kind
           /\ job[c].todo \in Seq(Step) /\ job[c].inner \in Seq(Step)
           /\ job[c].pid \in Pid \cup {None}
           /\ job[c].at \in {"idle", "step", "spawn", "record", "kill", "unlink", "run"}
           /\ job[c].report \in {"none", "completed", "failed"}
  <1>1. job[c] \in Job
    BY DEF TypeOK
  <1> QED
    BY <1>1 DEF Job

\* A step that succeeds.
LEMMA DoneMoves ==
    ASSUME TypeOK, Busy, NEW c \in Command, job[c].at # "idle", StepDone(c)
    PROVE  /\ Finished(c)
           /\ job[c].inner = <<>> =>
                /\ job'[c].inner = <<>>
                /\ job'[c].todo = Tail(job[c].todo)
                /\ Tail(job[c].todo) # <<>> => job'[c].at = "step" /\ job'[c].report = "none"
                /\ Tail(job[c].todo) = <<>> => job'[c].at = "idle" /\ job'[c].report = "completed"
  <1> DEFINE j == job[c]
             inner == IF j.inner # <<>> THEN Tail(j.inner) ELSE <<>>
             todo == IF j.inner # <<>> THEN j.todo ELSE Tail(j.todo)
             ends == inner \o todo = <<>>
             new == [j EXCEPT !.inner = inner, !.todo = todo, !.pid = None,
                              !.at = IF ends THEN "idle" ELSE "step",
                              !.report = IF ends THEN "completed" ELSE "none"]
  <1>1. job' = [job EXCEPT ![c] = new]
    BY DEF StepDone
  <1>2. /\ j \in Job /\ j.todo \in Seq(Step) /\ j.inner \in Seq(Step)
    BY JobFields
  <1>3. j.todo # <<>>
    BY DEF Busy
  <1>4. inner \in Seq(Step) /\ todo \in Seq(Step)
    BY <1>2, <1>3
  <1>5. ends <=> inner = <<>> /\ todo = <<>>
    BY <1>4
  <1>6. new \in Job
    BY <1>2, <1>4 DEF Job
  <1>7. /\ new.kind = j.kind /\ new.inner = inner /\ new.todo = todo
        /\ new.at = (IF ends THEN "idle" ELSE "step")
        /\ new.report = (IF ends THEN "completed" ELSE "none")
    BY <1>2 DEF Job
  <1>8. job' \in [Command -> Job] /\ job'[c] = new /\ \A d \in Command \ {c} : job'[d] = job[d]
    BY <1>1, <1>6 DEF TypeOK
  <1>9. new.at # "idle" => new.todo # <<>>
    BY <1>2, <1>3, <1>5, <1>7
  <1> HIDE DEF new
  <1>10. Finished(c)
    BY <1>7, <1>8, <1>9 DEF Finished, Moved
  <1> QED
    BY <1>5, <1>7, <1>8, <1>10

\* A step that fails.
LEMMA FailedMoves ==
    ASSUME TypeOK, Busy, NEW c \in Command, job[c].at # "idle", StepFailed(c)
    PROVE  /\ Finished(c)
           /\ job[c].inner = <<>> => job'[c].at = "idle" /\ job'[c].report = "failed"
  <1> DEFINE j == job[c]
             new == IF j.inner # <<>>
                    THEN [j EXCEPT !.inner = <<>>, !.pid = None, !.at = "step"]
                    ELSE [j EXCEPT !.todo = <<>>, !.pid = None, !.at = "idle",
                                   !.report = "failed"]
  <1>1. job' = [job EXCEPT ![c] = new]
    BY DEF StepFailed
  <1>2. j \in Job /\ j.todo # <<>>
    BY JobFields DEF Busy
  <1>3. <<>> \in Seq(Step)
    BY EmptySeq
  <1>4. new \in Job
    BY <1>2, <1>3 DEF Job
  <1>5. /\ new.kind = j.kind /\ new.at \in {"idle", "step"}
        /\ new.at # "idle" => new.todo # <<>>
        /\ j.inner = <<>> => new.at = "idle" /\ new.report = "failed"
    BY <1>2 DEF Job
  <1>6. job' \in [Command -> Job] /\ job'[c] = new /\ \A d \in Command \ {c} : job'[d] = job[d]
    BY <1>1, <1>4 DEF TypeOK
  <1> HIDE DEF new
  <1> QED
    BY <1>5, <1>6 DEF Finished, Moved

\* A step that goes on at another point of its script.
LEMMA GotoMoves ==
    ASSUME TypeOK, Busy, NEW c \in Command, job[c].at # "idle",
           NEW at \in {"spawn", "record", "kill", "unlink", "run"}, NEW p \in Pid \cup {None},
           Goto(c, at, p)
    PROVE  /\ Moved(c)
           /\ job'[c].at = at /\ job'[c].pid = p
           /\ job'[c].todo = job[c].todo /\ job'[c].inner = job[c].inner
           /\ job'[c].report = job[c].report
  <1>1. job[c] \in Job /\ job[c].todo # <<>>
    BY JobFields DEF Busy
  <1>2. [job[c] EXCEPT !.at = at, !.pid = p] \in Job
    BY <1>1 DEF Job
  <1>3. job' = [job EXCEPT ![c] = [job[c] EXCEPT !.at = at, !.pid = p]]
    BY DEF Goto, TypeOK
  <1>4. job' \in [Command -> Job] /\ job'[c] = [job[c] EXCEPT !.at = at, !.pid = p]
        /\ \A d \in Command \ {c} : job'[d] = job[d]
    BY <1>2, <1>3 DEF TypeOK
  <1> QED
    BY <1>1, <1>4 DEF Moved, Job

-----------------------------------------------------------------------------
(* The servers: what a step keeps.                                         *)

\* The parts of the invariant: what is always so, and what is so while no
\* command has been killed or has overlapped another.
Hosted == TypeOK /\ Busy /\ DockerOnly /\ ListenerLives

Prepares(c) == job[c].kind = "prepare" /\ job[c].at # "idle"

Calm ==
    /\ Alone /\ SoleServer
    /\ \A p \in Pid : process[p] \in Server =>
         pidFile = p \/ \E c \in Command : job[c].at = "record" /\ job[c].pid = p
    /\ \A c \in Command : Knows(c) /\ (Prepares(c) => Preparing(c))

\* The invariant is made of them, before and after a step.
LEMMA ServerParts ==
    /\ ServerInv <=> Hosted /\ (calm => Calm)
    /\ ServerInv' <=> Hosted' /\ (calm' => Calm')
  BY DEF ServerInv, Hosted, Calm, NoServerIsLost, Prepares

\* A step of the command that is alone: the others are idle, so what has to be
\* shown is about this command and the host.
LEMMA AloneStays ==
    ASSUME Hosted, Calm, NEW c \in Command, job[c].at # "idle", Moved(c),
           SoleServer',
           \A p \in Pid : process'[p] \in Server =>
              pidFile' = p \/ (job'[c].at = "record" /\ job'[c].pid = p),
           Knows(c)',
           Prepares(c)' => Preparing(c)'
    PROVE  Calm'
  <1>1. \A d \in Command \ {c} : job'[d].at = "idle"
    BY DEF Calm, Alone, Moved
  <1>2. Alone'
    BY <1>1 DEF Alone
  <1>3. \A d \in Command : Knows(d)' /\ (Prepares(d)' => Preparing(d)')
    BY <1>1 DEF Knows, Prepares
  <1>4. \A p \in Pid : process'[p] \in Server =>
          pidFile' = p \/ \E d \in Command : job'[d].at = "record" /\ job'[d].pid = p
    OBVIOUS
  <1> QED
    BY <1>2, <1>3, <1>4 DEF Calm

\* A step that does not touch the processes and the PID file.
LEMMA QuietStays ==
    ASSUME Hosted, Calm, NEW c \in Command, job[c].at \in {"step", "run"}, Moved(c),
           job'[c].at \in {"idle", "step", "run"}, UNCHANGED <<process, pidFile>>,
           Prepares(c)' => Preparing(c)'
    PROVE  Calm'
  <1>1. SoleServer'
    BY DEF Calm, SoleServer
  <1>2. Knows(c)'
    BY DEF Knows
  <1>3. \A d \in Command : job[d].at # "record"
    BY DEF Calm, Alone
  <1>4. \A p \in Pid : process'[p] \in Server =>
          pidFile' = p \/ (job'[c].at = "record" /\ job'[c].pid = p)
    BY <1>3 DEF Calm
  <1> QED
    BY <1>1, <1>2, <1>4, AloneStays

\* The steps of a prepare, one after the other.
LEMMA PrepareSteps ==
    ASSUME NEW c \in Command, Preparing(c)
    PROVE  /\ job[c].at = "step" /\ job[c].inner = <<>> /\ Current(c) = Head(job[c].todo)
           /\ \/ /\ Current(c) = "install" /\ Tail(job[c].todo) = Tail(Prepare)
                 /\ Tail(Prepare) # <<>>
              \/ /\ Current(c) = "pull" /\ Brought
                 /\ Tail(job[c].todo) = IF WithPackages THEN <<"packages">> ELSE <<>>
              \/ /\ Current(c) = "packages" /\ WithPackages /\ Brought /\ Fetched
                 /\ Tail(job[c].todo) = <<>>
  <1> DEFINE long == <<"install", "pull", "packages">>
             short == <<"install", "pull">>
  <1>1. (WithPackages => Prepare = long) /\ (~WithPackages => Prepare = short)
    <2>1. <<"install", "pull">> \o <<"packages">> = long
      <3>1. short \in Seq(Step) /\ long \in Seq(Step) /\ "packages" \in Step
        BY DEF Step
      <3>2. /\ Append(short, "packages") \in Seq(Step) /\ Len(Append(short, "packages")) = 3
            /\ \A i \in 1..3 : Append(short, "packages")[i] = long[i]
        BY <3>1, AppendProperties
      <3>3. Append(short, "packages") = long
        BY <3>1, <3>2, SeqEqual
      <3> QED
        BY <3>1, <3>3, AppendIsConcat
    <2>2. <<"install", "pull">> \o <<>> = short
      OBVIOUS
    <2> QED
      BY <2>1, <2>2 DEF Prepare, WithPackages
  <1>2. /\ Head(long) = "install" /\ Tail(long) = <<"pull", "packages">>
        /\ Head(short) = "install" /\ Tail(short) = <<"pull">>
    OBVIOUS
  <1>3. /\ Head(<<"pull", "packages">>) = "pull" /\ Tail(<<"pull", "packages">>) = <<"packages">>
        /\ Head(<<"pull">>) = "pull" /\ Tail(<<"pull">>) = <<>>
        /\ Head(<<"packages">>) = "packages" /\ Tail(<<"packages">>) = <<>>
        /\ <<"pull", "packages">> # <<>> /\ <<"pull">> # <<>>
    OBVIOUS
  <1>4. job[c].at = "step" /\ job[c].inner = <<>> /\ Current(c) = Head(job[c].todo)
    BY DEF Preparing, Current
  <1> HIDE DEF long, short
  <1>5. CASE job[c].todo = Prepare
    BY <1>1, <1>2, <1>3, <1>4, <1>5
  <1>6. CASE job[c].todo = Tail(Prepare) /\ Brought
    BY <1>1, <1>2, <1>3, <1>4, <1>6
  <1>7. CASE WithPackages /\ job[c].todo = <<"packages">> /\ Brought /\ Fetched
    BY <1>3, <1>4, <1>7
  <1> QED
    BY <1>5, <1>6, <1>7 DEF Preparing

\* A prepare whose step succeeds goes on with what the step has brought.
LEMMA PreparingGoesOn ==
    ASSUME Hosted, NEW c \in Command, job[c].at # "idle",
           Prepares(c) => Preparing(c),
           StepDone(c), UNCHANGED <<mode, orchestrated>>,
           installed => installed', Fetched => Fetched',
           Current(c) = "install" => Brought',
           Current(c) = "pull" => Fetched'
    PROVE  Prepares(c)' => Preparing(c)'
  <1> SUFFICES ASSUME Prepares(c)'
               PROVE  Preparing(c)'
    OBVIOUS
  <1>1. /\ Finished(c)
        /\ job[c].inner = <<>> =>
             /\ job'[c].inner = <<>>
             /\ job'[c].todo = Tail(job[c].todo)
             /\ Tail(job[c].todo) # <<>> => job'[c].at = "step" /\ job'[c].report = "none"
             /\ Tail(job[c].todo) = <<>> => job'[c].at = "idle" /\ job'[c].report = "completed"
    BY DoneMoves DEF Hosted
  <1>2. Prepares(c)
    BY <1>1 DEF Prepares, Finished, Moved
  <1>3. Preparing(c)
    BY <1>2
  <1>4. /\ Prepare' = Prepare /\ (WithPackages' <=> WithPackages)
        /\ Brought => Brought'
        /\ Fetched => Fetched'
    BY DEF Prepare, WithPackages, Brought
  <1>5. Tail(job[c].todo) # <<>>
    BY <1>1, <1>3, PrepareSteps DEF Prepares
  <1>6. CASE Current(c) = "install" /\ Tail(job[c].todo) = Tail(Prepare)
    BY <1>1, <1>3, <1>4, <1>5, <1>6, PrepareSteps DEF Preparing
  <1>7. CASE Current(c) = "pull" /\ Brought
    <2>1. Tail(job[c].todo) = <<"packages">> /\ WithPackages
      BY <1>3, <1>5, <1>7, PrepareSteps
    <2> QED
      BY <1>1, <1>3, <1>4, <1>5, <1>7, <2>1, PrepareSteps DEF Preparing
  <1> QED
    BY <1>3, <1>5, <1>6, <1>7, PrepareSteps

\* A prepare whose step fails is over.
LEMMA PreparingFails ==
    ASSUME Hosted, NEW c \in Command, job[c].at # "idle",
           Prepares(c) => Preparing(c), StepFailed(c), UNCHANGED mode
    PROVE  Prepares(c)' => Preparing(c)'
  <1>1. Finished(c) /\ (job[c].inner = <<>> => job'[c].at = "idle")
    BY FailedMoves DEF Hosted
  <1> QED
    BY <1>1 DEF Prepares, Finished, Moved, Preparing

\* Of the host, a job that has moved on leaves to show what the step does there.
LEMMA HostedStays ==
    ASSUME Hosted, NEW c \in Command, Moved(c), UNCHANGED <<mode, orchestrated>>,
           calm' \in {calm, FALSE}, {installed', pulled', packages'} \subseteq BOOLEAN,
           process' \in [Pid -> Use], port' \in Pid \cup {"service", "container", None},
           pidFile' \in Pid \cup {None}, container' \in {"absent", "running", "stopped"},
           container' # "absent" => mode = "docker",
           job'[c].at = "run" => mode = "docker",
           ListenerLives'
    PROVE  Hosted'
  <1>1. TypeOK'
    BY DEF Hosted, TypeOK, Moved
  <1>2. Busy'
    BY DEF Hosted, Busy, Moved
  <1>3. DockerOnly'
    BY DEF Hosted, DockerOnly, Moved
  <1> QED
    BY <1>1, <1>2, <1>3 DEF Hosted

\* Install, pull, remove and packages, and their failures.
LEMMA InstallingStays ==
    ASSUME ServerInv, NEW c \in Command,
           \/ Install(c) \/ Pull(c) \/ Remove(c) \/ InstallPackages(c) \/ EnvironmentFails(c)
    PROVE  ServerInv'
  <1>1. Hosted /\ (calm => Calm)
    BY ServerParts
  <1>2. /\ job[c].at = "step"
        /\ UNCHANGED <<mode, orchestrated, process, pidFile, container, calm>>
        /\ StepDone(c) \/ StepFailed(c)
        /\ port' = port \/ (port = None /\ port' = "service")
    BY DEF Install, Pull, Remove, InstallPackages, EnvironmentFails, Doing, hostVars, doneVars
  <1>3. Finished(c)
    BY <1>1, <1>2, DoneMoves, FailedMoves DEF Hosted
  <1>4. /\ installed \in BOOLEAN /\ pulled \in BOOLEAN /\ packages \in BOOLEAN
        /\ process \in [Pid -> Use] /\ port \in Pid \cup {"service", "container", None}
        /\ pidFile \in Pid \cup {None} /\ container \in {"absent", "running", "stopped"}
    BY <1>1 DEF Hosted, TypeOK
  <1>5. {installed', pulled', packages'} \subseteq BOOLEAN
    BY <1>4 DEF Install, Pull, Remove, InstallPackages, EnvironmentFails, hostVars, doneVars
  <1>6. ListenerLives'
    BY <1>1, <1>2, RuntimeAssumption DEF Hosted, ListenerLives
  <1>7. Hosted'
    BY <1>1, <1>2, <1>3, <1>4, <1>5, <1>6, HostedStays DEF Finished, Hosted, DockerOnly
  <1>8. ASSUME calm
        PROVE  Prepares(c)' => Preparing(c)'
    <2>1. Prepares(c) => Preparing(c)
      BY <1>1, <1>8 DEF Calm
    <2>2. CASE StepFailed(c)
      BY <1>1, <1>2, <2>1, <2>2, PreparingFails
    <2>3. CASE StepDone(c) /\ Remove(c)
      <3>1. Current(c) = "remove" /\ job'[c].kind = job[c].kind
        BY <1>3, <2>3 DEF Remove, Doing, Finished, Moved
      <3>2. ~Prepares(c)
        BY <2>1, <3>1, PrepareSteps DEF Prepares
      <3> QED
        BY <1>2, <3>1, <3>2 DEF Prepares
    <2>4. CASE StepDone(c) /\ ~Remove(c) /\ ~StepFailed(c)
      <3>1. /\ installed => installed'
            /\ Fetched => Fetched'
            /\ Current(c) = "install" => Brought'
            /\ Current(c) = "pull" => Fetched'
        <4>1. CASE Install(c)
          <5>1. /\ Current(c) = "install" /\ pulled' = pulled /\ mode' = mode
            BY <4>1 DEF Install, Doing
          <5>2. /\ installed => installed'
                /\ mode \in HelperInstalls /\ mode # "ollama" => installed'
            <6>1. CASE installed' = (installed \/ mode \in HelperInstalls)
              BY <6>1, <1>4
            <6>2. CASE mode = "ollama" /\ (installed' = TRUE \/ installed' = installed)
              BY <6>2
            <6> QED
              BY <4>1, <6>1, <6>2 DEF Install
          <5> QED
            BY <5>1, <5>2 DEF Brought, Fetched
        <4>2. CASE Pull(c)
          <5>1. /\ Current(c) = "pull" /\ mode' = mode /\ installed' = installed
                /\ mode \in HelperPulls => (pulled => pulled') /\ pulled'
                /\ mode = "ollama" => installed
            BY <1>2, <1>4, <2>4, <4>2 DEF Pull, Doing, HelperPulls, CanReachStore
          <5> QED
            BY <5>1 DEF Fetched
        <4>3. CASE InstallPackages(c)
          BY <1>2, <4>3 DEF InstallPackages, Doing, Fetched
        <4> QED
          BY <2>4, <4>1, <4>2, <4>3 DEF EnvironmentFails
      <3> QED
        BY <1>1, <1>2, <2>1, <2>4, <3>1, PreparingGoesOn
    <2> QED
      BY <1>2, <2>2, <2>3, <2>4
  <1>9. ASSUME calm'
        PROVE  Calm'
    <2>1. calm /\ Calm
      BY <1>1, <1>2, <1>9
    <2>2. Moved(c) /\ job'[c].at \in {"idle", "step", "run"}
      BY <1>3 DEF Finished
    <2>3. Prepares(c)' => Preparing(c)'
      BY <1>8, <2>1
    <2>4. Hosted /\ job[c].at \in {"step", "run"} /\ UNCHANGED <<process, pidFile>>
      BY <1>1, <1>2
    <2> QED
      BY <2>1, <2>2, <2>3, <2>4, QuietStays
  <1> QED
    BY <1>7, <1>9, ServerParts

\* The types of the host.
LEMMA HostTypes ==
    ASSUME Hosted
    PROVE  /\ installed \in BOOLEAN /\ pulled \in BOOLEAN /\ packages \in BOOLEAN
           /\ process \in [Pid -> Use] /\ port \in Pid \cup {"service", "container", None}
           /\ pidFile \in Pid \cup {None} /\ container \in {"absent", "running", "stopped"}
  BY DEF Hosted, TypeOK

\* A prepare has no other steps.
LEMMA NoPrepare ==
    ASSUME Calm, NEW c \in Command, job[c].at # "idle", Moved(c), UNCHANGED mode,
           job[c].at # "step" \/ Current(c) \in {"start", "stop", "remove"}
    PROVE  ~Prepares(c)'
  <1>1. ~Prepares(c)
    BY PrepareSteps DEF Calm, Prepares
  <1> QED
    BY <1>1 DEF Prepares, Moved

\* start and stop of a container, of a runner and of what is started by hand.
LEMMA DockerStays ==
    ASSUME ServerInv, NEW c \in Command,
           EnterDockerStart(c) \/ DockerRun(c) \/ DockerStop(c) \/ OtherStartStop(c)
    PROVE  ServerInv'
  <1>1. Hosted /\ (calm => Calm)
    BY ServerParts
  <1>2. /\ job[c].at \in {"step", "run"}
        /\ job[c].at # "step" \/ Current(c) \in {"start", "stop"}
        /\ UNCHANGED <<mode, orchestrated, process, pidFile, calm, pulled, packages>>
        /\ StepDone(c) \/ StepFailed(c) \/ (Goto(c, "run", None) /\ mode = "docker")
    BY DEF EnterDockerStart, DockerRun, DockerStop, OtherStartStop, Doing, doneVars
  <1>3. Moved(c) /\ job'[c].at \in {"idle", "step", "run"} /\ (job'[c].at = "run" => mode = "docker")
    BY <1>1, <1>2, DoneMoves, FailedMoves, GotoMoves DEF Hosted, Finished
  <1>4. /\ {installed', pulled', packages'} \subseteq BOOLEAN
        /\ process' \in [Pid -> Use] /\ pidFile' \in Pid \cup {None}
    BY <1>1, <1>2, HostTypes
    DEF EnterDockerStart, DockerRun, DockerStop, OtherStartStop, doneVars
  <1>5. (container # "absent" => mode = "docker") /\ (job[c].at = "run" => mode = "docker")
    BY <1>1 DEF Hosted, DockerOnly
  <1>6. /\ port \in Pid => process[port] \in {"serving", "ending"}
        /\ port = "container" <=> container = "running"
    BY <1>1 DEF Hosted, ListenerLives
  <1>7. /\ port' \in Pid \cup {"service", "container", None}
        /\ container' \in {"absent", "running", "stopped"}
        /\ container' # "absent" => mode = "docker"
        /\ port' \in Pid => port' = port
        /\ port' = "container" <=> container' = "running"
    <2>1. CASE EnterDockerStart(c)
      BY <1>1, <1>5, <1>6, <2>1, HostTypes DEF EnterDockerStart
    <2>2. CASE DockerRun(c)
      BY <1>1, <1>5, <1>6, <2>2, HostTypes, RuntimeAssumption DEF DockerRun
    <2>3. CASE DockerStop(c)
      BY <1>1, <1>5, <1>6, <2>3, HostTypes, RuntimeAssumption DEF DockerStop
    <2>4. CASE OtherStartStop(c)
      BY <1>1, <1>5, <1>6, <2>4, HostTypes, RuntimeAssumption DEF OtherStartStop
    <2> QED
      BY <2>1, <2>2, <2>3, <2>4
  <1>8. ListenerLives'
    BY <1>2, <1>6, <1>7 DEF ListenerLives
  <1>9. Hosted'
    BY <1>1, <1>2, <1>3, <1>4, <1>7, <1>8, HostedStays
  <1>10. ASSUME calm'
         PROVE  Calm'
    <2>1. Calm
      BY <1>1, <1>2, <1>10
    <2>2. ~Prepares(c)'
      BY <1>2, <1>3, <2>1, NoPrepare
    <2> QED
      BY <1>1, <1>2, <1>3, <2>1, <2>2, QuietStays
  <1> QED
    BY <1>9, <1>10, ServerParts

\* A server the PID file does not name has no command to record it: there is
\* none, then.
LEMMA Unnamed ==
    ASSUME Hosted, Calm, NEW c \in Command, job[c].at \in {"step", "kill"}
    PROVE  \A p \in Pid : process[p] \in Server => p = pidFile
  BY DEF Calm, Alone

\* start of a process: the PID file, the process, the PID file again.
LEMMA StartingStays ==
    ASSUME ServerInv, NEW c \in Command, EnterStart(c) \/ Spawn(c) \/ Record(c)
    PROVE  ServerInv'
  <1>1. Hosted /\ (calm => Calm)
    BY ServerParts
  <1>2. /\ job[c].at # "idle"
        /\ job[c].at # "step" \/ Current(c) = "start"
        /\ UNCHANGED <<mode, orchestrated, port, container, doneVars>>
        /\ calm' \in {calm, FALSE}
    BY DEF EnterStart, Spawn, Record, Doing, hostVars
  <1>3. /\ {installed', pulled', packages'} \subseteq BOOLEAN
        /\ port' \in Pid \cup {"service", "container", None}
        /\ container' \in {"absent", "running", "stopped"}
        /\ container' # "absent" => mode = "docker"
    BY <1>1, <1>2, HostTypes DEF Hosted, DockerOnly, doneVars
  <1>4. CASE EnterStart(c)
    <2>1. /\ UNCHANGED <<process, pidFile>> /\ job[c].at = "step"
          /\ \/ Answers(pidFile) /\ StepDone(c)
             \/ ~Answers(pidFile) /\ Goto(c, "spawn", None)
      BY <1>4 DEF EnterStart, hostVars, Doing
    <2>2. /\ Moved(c)
          /\ job'[c].at \in {"idle", "step"} \/ (job'[c].at = "spawn" /\ ~Answers(pidFile))
      BY <1>1, <1>2, <2>1, DoneMoves, GotoMoves DEF Hosted, Finished
    <2>3. ListenerLives'
      BY <1>1, <1>2, <2>1 DEF Hosted, ListenerLives
    <2>4. Hosted'
      BY <1>1, <1>2, <1>3, <2>1, <2>2, <2>3, HostTypes, HostedStays
    <2>5. ASSUME calm'
          PROVE  Calm'
      <3>1. Calm
        BY <1>1, <1>2, <2>5
      <3>2. \A p \in Pid : process[p] \in Server => p = pidFile
        BY <1>1, <2>1, <3>1, Unnamed
      <3>3. ~Answers(pidFile) => NoServer
        <4>1. ASSUME NEW p \in Pid, process[p] \in Server
              PROVE  Answers(pidFile)
          BY <3>2, <4>1, RuntimeAssumption DEF Answers, Server
        <4> QED
          BY <4>1 DEF NoServer
      <3>4. Knows(c)'
        BY <2>1, <2>2, <3>3 DEF Knows, NoServer
      <3>5. SoleServer' /\ \A p \in Pid : process'[p] \in Server => pidFile' = p
        BY <2>1, <3>2 DEF SoleServer
      <3>6. ~Prepares(c)'
        BY <1>2, <2>2, <3>1, NoPrepare
      <3> QED
        BY <1>1, <1>2, <2>2, <3>1, <3>4, <3>5, <3>6, AloneStays
    <2> QED
      BY <2>4, <2>5, ServerParts
  <1>5. ASSUME NEW q \in Pid, job[c].at = "spawn", process[q] = "free",
               process' = [process EXCEPT ![q] = "starting"], Goto(c, "record", q),
               UNCHANGED pidFile
        PROVE  ServerInv'
    <2>1. Moved(c) /\ job'[c].at = "record" /\ job'[c].pid = q
      BY <1>1, <1>2, <1>5, GotoMoves DEF Hosted
    <2>2. /\ process' \in [Pid -> Use]
          /\ \A p \in Pid : process'[p] = IF p = q THEN "starting" ELSE process[p]
      BY <1>1, <1>5, HostTypes DEF Use
    <2>3. ListenerLives'
      BY <1>1, <1>2, <1>5, <2>2 DEF Hosted, ListenerLives
    <2>4. Hosted'
      BY <1>1, <1>2, <1>3, <1>5, <2>1, <2>2, <2>3, HostTypes, HostedStays
    <2>5. ASSUME calm'
          PROVE  Calm'
      <3>1. Calm
        BY <1>1, <1>2, <2>5
      <3>2. \A p \in Pid : process'[p] \in Server => p = q
        BY <1>5, <2>2, <3>1 DEF Calm, Knows, NoServer
      <3>3. Knows(c)' /\ SoleServer'
        BY <2>1, <3>2 DEF Knows, SoleServer
      <3>4. ~Prepares(c)'
        BY <1>2, <1>5, <2>1, <3>1, NoPrepare
      <3>5. \A p \in Pid : process'[p] \in Server =>
              pidFile' = p \/ (job'[c].at = "record" /\ job'[c].pid = p)
        BY <2>1, <3>2
      <3> QED
        BY <1>1, <1>2, <2>1, <3>1, <3>3, <3>4, <3>5, AloneStays
    <2> QED
      BY <2>4, <2>5, ServerParts
  <1>6. CASE Record(c)
    <2>1. /\ job[c].at = "record" /\ process' = process
          /\ \/ pidFile' = job[c].pid /\ StepDone(c)
             \/ pidFile' \in {pidFile, None} /\ StepFailed(c) /\ ~calm'
      BY <1>6 DEF Record
    <2>2. Finished(c)
      BY <1>1, <1>2, <2>1, DoneMoves, FailedMoves DEF Hosted
    <2>3. Moved(c) /\ job'[c].at \in {"idle", "step"}
      BY <2>2 DEF Finished
    <2>4. pidFile' \in Pid \cup {None}
      BY <1>1, <2>1, HostTypes, JobFields DEF Hosted
    <2>5. ListenerLives'
      BY <1>1, <1>2, <2>1 DEF Hosted, ListenerLives
    <2>6. Hosted'
      BY <1>1, <1>2, <1>3, <2>1, <2>3, <2>4, <2>5, HostTypes, HostedStays
    <2>7. ASSUME calm'
          PROVE  Calm'
      <3>1. Calm
        BY <1>1, <1>2, <2>7
      <3>2. \A p \in Pid : process'[p] \in Server => p = pidFile'
        BY <2>1, <2>7, <3>1 DEF Calm, Knows
      <3>3. Knows(c)' /\ SoleServer'
        BY <2>3, <3>2 DEF Knows, SoleServer
      <3>4. ~Prepares(c)'
        BY <1>2, <2>1, <2>3, <3>1, NoPrepare
      <3> QED
        BY <1>1, <1>2, <2>3, <3>1, <3>2, <3>3, <3>4, AloneStays
    <2> QED
      BY <2>6, <2>7, ServerParts
  <1> QED
    BY <1>4, <1>5, <1>6 DEF Spawn

\* stop of a process: the PID file, the kill, the PID file again.
LEMMA StoppingStays ==
    ASSUME ServerInv, NEW c \in Command, EnterStop(c) \/ Kill(c) \/ Unlink(c)
    PROVE  ServerInv'
  <1>1. Hosted /\ (calm => Calm)
    BY ServerParts
  <1>2. /\ job[c].at # "idle"
        /\ job[c].at # "step" \/ Current(c) = "stop"
        /\ UNCHANGED <<mode, orchestrated, port, container, calm, doneVars>>
    BY DEF EnterStop, Kill, Unlink, Doing, hostVars
  <1>3. /\ {installed', pulled', packages'} \subseteq BOOLEAN
        /\ port' \in Pid \cup {"service", "container", None}
        /\ container' \in {"absent", "running", "stopped"}
        /\ container' # "absent" => mode = "docker"
    BY <1>1, <1>2, HostTypes DEF Hosted, DockerOnly, doneVars
  <1>4. /\ process \in [Pid -> Use] /\ pidFile \in Pid \cup {None}
        /\ job[c].pid \in Pid \cup {None}
    BY <1>1, HostTypes, JobFields DEF Hosted
  <1>5. CASE EnterStop(c)
    <2>1. /\ UNCHANGED <<process, pidFile>> /\ job[c].at = "step"
          /\ \/ StepDone(c)
             \/ Answers(pidFile) /\ Goto(c, "kill", pidFile)
             \/ ~Answers(pidFile) /\ Goto(c, "unlink", pidFile)
      BY <1>5 DEF EnterStop, hostVars, Doing
    <2>2. /\ Moved(c)
          /\ \/ job'[c].at \in {"idle", "step"}
             \/ job'[c].at = "kill" /\ job'[c].pid = pidFile
             \/ job'[c].at = "unlink" /\ ~Answers(pidFile)
      BY <1>1, <1>2, <1>4, <2>1, DoneMoves, GotoMoves DEF Hosted, Finished
    <2>3. ListenerLives'
      BY <1>1, <1>2, <2>1 DEF Hosted, ListenerLives
    <2>4. Hosted'
      BY <1>1, <1>2, <1>3, <1>4, <2>1, <2>2, <2>3, HostedStays
    <2>5. ASSUME calm'
          PROVE  Calm'
      <3>1. Calm
        BY <1>1, <1>2, <2>5
      <3>2. \A p \in Pid : process[p] \in Server => p = pidFile
        BY <1>1, <2>1, <3>1, Unnamed
      <3>3. ~Answers(pidFile) => NoServer
        <4>1. ASSUME NEW p \in Pid, process[p] \in Server
              PROVE  Answers(pidFile)
          BY <3>2, <4>1, RuntimeAssumption DEF Answers, Server
        <4> QED
          BY <4>1 DEF NoServer
      <3>4. Knows(c)'
        BY <2>1, <2>2, <3>3 DEF Knows, NoServer
      <3>5. SoleServer' /\ \A p \in Pid : process'[p] \in Server => pidFile' = p
        BY <2>1, <3>2 DEF SoleServer
      <3>6. ~Prepares(c)'
        BY <1>2, <2>2, <3>1, NoPrepare
      <3> QED
        BY <1>1, <1>2, <2>2, <3>1, <3>4, <3>5, <3>6, AloneStays
    <2> QED
      BY <2>4, <2>5, ServerParts
  <1>6. CASE Kill(c)
    <2> DEFINE p == job[c].pid
    <2>1. /\ job[c].at = "kill" /\ pidFile' = pidFile
          /\ \/ StepFailed(c) /\ process' = process
             \/ /\ Answers(p) /\ Goto(c, "unlink", p)
                /\ process' = [process EXCEPT ![p] = IF @ \in Server THEN "ending" ELSE @]
      BY <1>6 DEF Kill
    <2>2. p # None /\ Answers(p) => p \in Pid
      BY <1>4
    <2>3. /\ Moved(c)
          /\ \/ job'[c].at \in {"idle", "step"} /\ process' = process
             \/ /\ job'[c].at = "unlink" /\ p \in Pid
                /\ process' = [process EXCEPT ![p] = IF @ \in Server THEN "ending" ELSE @]
      BY <1>1, <1>2, <1>4, <2>1, <2>2, FailedMoves, GotoMoves DEF Hosted, Finished, Answers
    <2> HIDE DEF p
    <2>4. /\ process' \in [Pid -> Use]
          /\ \A q \in Pid : \/ process'[q] = process[q]
                            \/ process[q] \in Server /\ process'[q] = "ending"
          /\ job'[c].at = "unlink" => \A q \in Pid : process'[q] \in Server => q # p
      BY <1>4, <2>3 DEF Use, Server
    <2>5. ListenerLives'
      BY <1>1, <1>2, <2>4 DEF Hosted, ListenerLives
    <2>6. Hosted'
      BY <1>1, <1>2, <1>3, <1>4, <2>1, <2>3, <2>4, <2>5, HostedStays
    <2>7. ASSUME calm'
          PROVE  Calm'
      <3>1. Calm
        BY <1>1, <1>2, <2>7
      <3>2. \A q \in Pid : process[q] \in Server => q = pidFile
        BY <1>1, <2>1, <3>1, Unnamed
      <3>3. p = pidFile
        BY <2>1, <3>1 DEF Calm, Knows, p
      <3>4. \A q \in Pid : process'[q] \in Server => process[q] \in Server
        BY <2>4 DEF Server
      <3>5. Knows(c)'
        BY <2>3, <2>4, <3>2, <3>3, <3>4 DEF Knows, NoServer
      <3>6. SoleServer' /\ \A q \in Pid : process'[q] \in Server => pidFile' = q
        BY <2>1, <3>2, <3>4 DEF SoleServer
      <3>7. ~Prepares(c)'
        BY <1>2, <2>1, <2>3, <3>1, NoPrepare
      <3> QED
        BY <1>1, <1>2, <2>3, <3>1, <3>5, <3>6, <3>7, AloneStays
    <2> QED
      BY <2>6, <2>7, ServerParts
  <1>7. CASE Unlink(c)
    <2>1. /\ job[c].at = "unlink" /\ process' = process
          /\ \/ pidFile' = None /\ StepDone(c)
             \/ pidFile' = pidFile /\ StepFailed(c)
      BY <1>7 DEF Unlink
    <2>2. Finished(c)
      BY <1>1, <1>2, <2>1, DoneMoves, FailedMoves DEF Hosted
    <2>3. Moved(c) /\ job'[c].at \in {"idle", "step"}
      BY <2>2 DEF Finished
    <2>4. ListenerLives'
      BY <1>1, <1>2, <2>1 DEF Hosted, ListenerLives
    <2>5. Hosted'
      BY <1>1, <1>2, <1>3, <1>4, <2>1, <2>3, <2>4, HostedStays
    <2>6. ASSUME calm'
          PROVE  Calm'
      <3>1. Calm
        BY <1>1, <1>2, <2>6
      <3>2. \A p \in Pid : process'[p] \notin Server
        BY <2>1, <3>1 DEF Calm, Knows, NoServer
      <3>3. Knows(c)' /\ SoleServer'
        BY <2>3, <3>2 DEF Knows, SoleServer
      <3>4. ~Prepares(c)'
        BY <1>2, <2>1, <2>3, <3>1, NoPrepare
      <3> QED
        BY <1>1, <1>2, <2>3, <3>1, <3>2, <3>3, <3>4, AloneStays
    <2> QED
      BY <2>5, <2>6, ServerParts
  <1> QED
    BY <1>5, <1>6, <1>7

\* The environment: servers listen and end, other processes come and go.
LEMMA EnvironmentStays ==
    ASSUME ServerInv,
           (\E p \in Pid : Listens(p) \/ Ends(p) \/ OtherStarts(p)) \/ ContainerExits
    PROVE  ServerInv'
  <1>1. Hosted /\ (calm => Calm)
    BY ServerParts
  <1>2. /\ UNCHANGED <<mode, orchestrated, pidFile, installed, pulled, packages, job, calm>>
    BY DEF Listens, Ends, OtherStarts, ContainerExits, doneVars
  <1>3. /\ process \in [Pid -> Use] /\ port \in Pid \cup {"service", "container", None}
        /\ container \in {"absent", "running", "stopped"}
    BY <1>1, HostTypes
  <1>4. /\ port \in Pid => process[port] \in {"serving", "ending"}
        /\ port = "container" <=> container = "running"
    BY <1>1 DEF Hosted, ListenerLives
  <1> DEFINE Changed ==
        /\ process' \in [Pid -> Use] /\ port' \in Pid \cup {"service", "container", None}
        /\ container' \in {container, "absent"}
        /\ port' \in Pid => process'[port'] \in {"serving", "ending"}
        /\ port' = "container" <=> container' = "running"
        /\ \A q \in Pid : process'[q] \in Server => process[q] \in Server
  <1>5. Changed
    <2>1. ASSUME NEW p \in Pid, Listens(p)
          PROVE  Changed
      BY <1>3, <1>4, <2>1, RuntimeAssumption DEF Listens, Use, Server
    <2>2. ASSUME NEW p \in Pid, Ends(p)
          PROVE  Changed
      BY <1>3, <1>4, <2>2, RuntimeAssumption DEF Ends, Use, Server
    <2>3. ASSUME NEW p \in Pid, OtherStarts(p)
          PROVE  Changed
      BY <1>3, <1>4, <2>3, RuntimeAssumption DEF OtherStarts, Use, Server
    <2>4. CASE ContainerExits
      BY <1>3, <1>4, <2>4, RuntimeAssumption DEF ContainerExits
    <2> QED
      BY <2>1, <2>2, <2>3, <2>4
  <1>6. Hosted'
    <2>1. TypeOK'
      BY <1>1, <1>2, <1>3, <1>5 DEF Hosted, TypeOK
    <2>2. Busy' /\ DockerOnly'
      BY <1>1, <1>2, <1>5 DEF Hosted, Busy, DockerOnly
    <2>3. ListenerLives'
      BY <1>5 DEF ListenerLives
    <2> QED
      BY <2>1, <2>2, <2>3 DEF Hosted
  <1>7. ASSUME calm'
        PROVE  Calm'
    <2>1. Calm
      BY <1>1, <1>2, <1>7
    <2>2. Alone' /\ SoleServer'
      BY <1>2, <1>5, <2>1 DEF Calm, Alone, SoleServer
    <2>3. ASSUME NEW c \in Command
          PROVE  Knows(c)' /\ (Prepares(c)' => Preparing(c)')
      <3>1. Knows(c) /\ (Prepares(c) => Preparing(c))
        BY <2>1 DEF Calm
      <3>2. Knows(c)'
        BY <1>2, <1>5, <3>1 DEF Knows, NoServer
      <3>3. (Prepares(c)' <=> Prepares(c)) /\ (Preparing(c)' <=> Preparing(c))
        BY <1>2 DEF Prepares, Preparing, Prepare, Brought, Fetched, WithPackages
      <3> QED
        BY <3>1, <3>2, <3>3
    <2> QED
      BY <1>2, <1>5, <2>1, <2>2, <2>3 DEF Calm
  <1> QED
    BY <1>6, <1>7, ServerParts

\* A command that begins or dies.
LEMMA ComingAndGoing ==
    ASSUME ServerInv, NEW c \in Command, (\E kind \in Kind : Begin(c, kind)) \/ Dies(c)
    PROVE  ServerInv'
  <1>1. Hosted /\ (calm => Calm)
    BY ServerParts
  <1>2. UNCHANGED <<mode, orchestrated, process, port, pidFile, container, installed, pulled,
                    packages>>
    BY DEF Begin, Dies, hostVars, doneVars
  <1>3. <<>> \in Seq(Step) /\ Prepare \in Seq(Step)
    <2>1. <<>> \in Seq(Step) /\ <<"install", "pull">> \in Seq(Step) /\ <<"packages">> \in Seq(Step)
      BY DEF Step
    <2> QED
      BY <2>1, ConcatProperties DEF Prepare
  <1>4. Idle \in Job /\ Idle.at = "idle" /\ Idle.inner = <<>> /\ Idle.report = "none"
    BY <1>3 DEF Idle, Job, Kind
  <1>5. ASSUME NEW new \in Job, job' = [job EXCEPT ![c] = new],
               new.at \in {"idle", "step"}, new.at = "step" => new.todo # <<>>,
               calm' \in BOOLEAN
        PROVE  Hosted' /\ \A d \in Command : job'[d] = IF d = c THEN new ELSE job[d]
    <2>1. job' \in [Command -> Job] /\ \A d \in Command : job'[d] = IF d = c THEN new ELSE job[d]
      BY <1>1, <1>5 DEF Hosted, TypeOK
    <2>2. TypeOK'
      BY <1>1, <1>2, <1>5, <2>1 DEF Hosted, TypeOK
    <2>3. Busy' /\ DockerOnly' /\ ListenerLives'
      BY <1>1, <1>2, <1>5, <2>1 DEF Hosted, Busy, DockerOnly, ListenerLives
    <2> QED
      BY <2>1, <2>2, <2>3 DEF Hosted
  <1>6. CASE Dies(c)
    <2>1. job' = [job EXCEPT ![c] = Idle] /\ ~calm' /\ calm' \in BOOLEAN
      BY <1>6 DEF Dies
    <2>2. Hosted'
      BY <1>4, <1>5, <2>1
    <2> QED
      BY <2>1, <2>2, ServerParts
  <1>7. ASSUME NEW kind \in Kind, Begin(c, kind)
        PROVE  ServerInv'
    <2> DEFINE inner == IF kind = "deploy" /\ orchestrated THEN Prepare ELSE <<>>
               new == [Idle EXCEPT !.kind = kind, !.at = "step", !.todo = Steps(kind),
                                   !.inner = inner]
    <2>1. /\ job[c].at = "idle" /\ job' = [job EXCEPT ![c] = new]
          /\ calm' = (calm /\ \A d \in Command : job[d].at = "idle")
      BY <1>7 DEF Begin
    <2>2. Steps(kind) \in Seq(Step) /\ Steps(kind) # <<>>
      <3>1. CASE kind = "prepare"
        BY <1>3, <3>1 DEF Steps, Prepare
      <3>2. CASE kind = "restart"
        BY <3>2 DEF Steps, Step
      <3>3. CASE kind = "deploy"
        BY <3>3 DEF Steps, Step
      <3>4. CASE kind \notin {"prepare", "restart", "deploy"}
        <4>1. Steps(kind) = <<kind>> /\ kind \in Step
          BY <3>4 DEF Steps, Kind, Step
        <4> QED
          BY <4>1
      <3> QED
        BY <3>1, <3>2, <3>3, <3>4
    <2>3. new \in Job /\ new.at = "step" /\ new.todo = Steps(kind) /\ new.inner = inner
          /\ new.kind = kind /\ new.report = "none"
      BY <1>3, <1>4, <2>2 DEF Job, Idle
    <2> HIDE DEF new
    <2>4. calm' \in BOOLEAN
      BY <2>1
    <2>5. Hosted' /\ \A d \in Command : job'[d] = IF d = c THEN new ELSE job[d]
      BY <1>5, <2>1, <2>2, <2>3, <2>4
    <2>6. ASSUME calm'
          PROVE  Calm'
      <3>1. Calm /\ \A d \in Command : job[d].at = "idle"
        BY <1>1, <2>1, <2>6
      <3>2. \A d \in Command \ {c} : job'[d].at = "idle"
        BY <2>5, <3>1
      <3>3. Alone' /\ SoleServer'
        BY <1>2, <3>1, <3>2 DEF Alone, SoleServer, Calm
      <3>4. \A p \in Pid : process'[p] \in Server => pidFile' = p
        BY <1>2, <3>1 DEF Calm
      <3>5. Knows(c)'
        BY <2>3, <2>5 DEF Knows
      <3>6. Prepares(c)' => Preparing(c)'
        BY <1>2, <2>3, <2>5 DEF Prepares, Preparing, Prepare, Steps
      <3>7. \A d \in Command : Knows(d)' /\ (Prepares(d)' => Preparing(d)')
        BY <3>2, <3>5, <3>6 DEF Knows, Prepares
      <3> QED
        BY <3>3, <3>4, <3>7 DEF Calm
    <2> QED
      BY <2>5, <2>6, ServerParts
  <1> QED
    BY <1>6, <1>7

\* Every step of a command or of the environment keeps the invariant.
LEMMA ServerStep == ServerInv /\ [Next]_vars => ServerInv'
  <1> SUFFICES ASSUME ServerInv, [Next]_vars
               PROVE  ServerInv'
    OBVIOUS
  <1>1. ASSUME NEW c \in Command, (\E kind \in Kind : Begin(c, kind)) \/ Dies(c)
        PROVE  ServerInv'
    BY <1>1, ComingAndGoing
  <1>2. ASSUME NEW c \in Command, Runs(c) \/ EnvironmentFails(c)
        PROVE  ServerInv'
    BY <1>2, InstallingStays, StartingStays, StoppingStays, DockerStays DEF Runs
  <1>3. CASE (\E p \in Pid : Listens(p) \/ Ends(p) \/ OtherStarts(p)) \/ ContainerExits
    BY <1>3, EnvironmentStays
  <1>4. CASE UNCHANGED vars
    <2>1. UNCHANGED <<mode, orchestrated, process, port, pidFile, container, installed, pulled,
                      packages, job, calm>>
      BY <1>4 DEF vars, hostVars, doneVars
    <2>2. UNCHANGED <<TypeOK, Busy, DockerOnly, ListenerLives, NoServerIsLost, Alone, SoleServer>>
      BY <2>1 DEF TypeOK, Busy, DockerOnly, ListenerLives, NoServerIsLost, Alone, SoleServer
    <2>3. \A c \in Command : /\ Knows(c)' <=> Knows(c)
                             /\ Preparing(c)' <=> Preparing(c)
      BY <2>1 DEF Knows, NoServer, Preparing, Prepare, Brought, Fetched, WithPackages
    <2> QED
      BY <2>1, <2>2, <2>3 DEF ServerInv
  <1> QED
    BY <1>1, <1>2, <1>3, <1>4 DEF Next

\* The invariant holds at first.
LEMMA ServerStart == Init => ServerInv
  <1> SUFFICES ASSUME Init
               PROVE  ServerInv
    OBVIOUS
  <1>1. Idle \in Job /\ Idle.at = "idle"
    <2>1. <<>> \in Seq(Step)
      BY EmptySeq
    <2> QED
      BY <2>1 DEF Idle, Job, Kind
  <1>2. \A c \in Command : job[c] = Idle
    BY DEF Init
  <1>3. TypeOK
    BY <1>1, RuntimeAssumption DEF Init, TypeOK, Use
  <1>4. \A p \in Pid : process[p] \notin Server
    BY DEF Init, Server
  <1>5. ListenerLives
    BY RuntimeAssumption DEF Init, ListenerLives
  <1>6. Busy /\ DockerOnly /\ Alone /\ SoleServer
    BY <1>1, <1>2, <1>4 DEF Init, Busy, DockerOnly, Alone, SoleServer
  <1>7. \A c \in Command : Knows(c) /\ job[c].at = "idle"
    BY <1>1, <1>2 DEF Knows
  <1> QED
    BY <1>3, <1>4, <1>5, <1>6, <1>7 DEF ServerInv, NoServerIsLost

-----------------------------------------------------------------------------
(* The theorems about servers.                                             *)

\* What the commands, the helper script and the host agree on.
THEOREM ServerInvariant == Spec => []ServerInv
  BY ServerStart, ServerStep, PTL DEF Spec

\* For any number of commands and PIDs: a server that was started and not told
\* to end is named by the PID file, or by the command that has just started it
\* (start and stop of the runtime helper), unless commands have overlapped or
\* been killed.
THEOREM NamedByPidFile == Spec => []NoServerIsLost
  <1>1. ServerInv => NoServerIsLost
    BY DEF ServerInv
  <1> QED
    BY <1>1, ServerInvariant, PTL

\* And there is one such server at most: the start that finds no PID that
\* answers starts the only one.
THEOREM OneAtMost == Spec => []OneServer
  <1>1. ServerInv => OneServer
    <2> SUFFICES ASSUME ServerInv, calm
                 PROVE  Cardinality({p \in Pid : process[p] \in Server}) <= 1
      BY DEF OneServer
    <2> DEFINE S == {p \in Pid : process[p] \in Server}
    <2>1. \A p, q \in S : p = q
      BY DEF ServerInv, SoleServer
    <2>2. CASE S = {}
      BY <2>2, FS_EmptySet
    <2>3. ASSUME NEW p \in S
          PROVE  Cardinality(S) <= 1
      <3>1. S = {p}
        BY <2>1
      <3> QED
        BY <3>1, FS_Singleton
    <2> QED
      BY <2>2, <2>3
  <1> QED
    BY <1>1, ServerInvariant, PTL

\* Whoever listens on the endpoint of the runtime is alive.
THEOREM ListenerIsAlive == Spec => []ListenerLives
  <1>1. ServerInv => ListenerLives
    BY DEF ServerInv
  <1> QED
    BY <1>1, ServerInvariant, PTL

\* For any number of commands and every kind of runtime: a prepare that reports
\* completed has installed what its helper installs, pulled what it pulls, and
\* the packages (the loop over the steps of a stack stops at the first that
\* fails).
THEOREM PreparedWhenCompleted == Spec => CompletedIsPrepared
  <1> DEFINE Step1 == \A c \in Command :
                        (/\ calm'
                         /\ job[c].kind = "prepare" /\ job[c].report = "none"
                         /\ job'[c].report = "completed")
                           => Prepared'
  <1>1. ServerInv /\ [Next]_vars => [Step1]_vars
    <2> SUFFICES ASSUME ServerInv, Next, NEW c \in Command,
                        calm',
                        job[c].kind = "prepare", job[c].report = "none",
                        job'[c].report = "completed"
                 PROVE  Prepared'
      BY DEF vars
    <2>1. Hosted /\ (calm => Calm)
      BY ServerParts
    <2>2. job[c] \in Job
      BY <2>1 DEF Hosted, TypeOK
    <2>3. ASSUME NEW d \in Command, \E kind \in Kind : Begin(d, kind)
          PROVE  FALSE
      BY <2>1, <2>3 DEF Begin, Idle, Hosted, TypeOK
    <2>4. ASSUME NEW d \in Command, Dies(d)
          PROVE  FALSE
      BY <2>4 DEF Dies
    <2>5. CASE (\E p \in Pid : Listens(p) \/ Ends(p) \/ OtherStarts(p)) \/ ContainerExits
      BY <2>5 DEF Listens, Ends, OtherStarts, ContainerExits
    <2>6. ASSUME NEW d \in Command, Runs(d) \/ EnvironmentFails(d)
          PROVE  Prepared'
      <3>1. /\ calm /\ job[d].at # "idle" /\ UNCHANGED <<mode, orchestrated>>
            /\ \/ StepDone(d) \/ StepFailed(d)
               \/ \E at \in {"spawn", "record", "kill", "unlink", "run"},
                     p \in {None, pidFile, job[d].pid} \cup Pid : Goto(d, at, p)
        BY <2>6 DEF Runs, EnvironmentFails, Install, Pull, Remove, InstallPackages, EnterStart,
             Spawn, Record, EnterStop, Kill, Unlink, EnterDockerStart, DockerRun, DockerStop,
             OtherStartStop, Doing
      <3>2. Calm /\ {None, pidFile, job[d].pid} \cup Pid \subseteq Pid \cup {None}
        BY <2>1, <3>1, HostTypes, JobFields DEF Hosted
      <3>3. Moved(d)
        BY <2>1, <3>1, <3>2, DoneMoves, FailedMoves, GotoMoves DEF Hosted, Finished
      <3>4. d = c
        BY <3>3 DEF Moved
      <3>5. Prepares(c) /\ Preparing(c)
        BY <3>1, <3>2, <3>4 DEF Prepares, Calm
      <3>6. /\ job[c].at = "step" /\ job[c].inner = <<>>
            /\ \/ /\ Current(c) = "install" /\ Tail(job[c].todo) # <<>>
               \/ /\ Current(c) = "pull" /\ Brought
                  /\ Tail(job[c].todo) = IF WithPackages THEN <<"packages">> ELSE <<>>
               \/ Current(c) = "packages" /\ Brought /\ Fetched
        BY <3>5, PrepareSteps
      <3>7. ~StepFailed(c)
        BY <2>1, <3>1, <3>4, <3>6, FailedMoves DEF Hosted
      <3>8. StepDone(c)
        BY <2>1, <3>1, <3>2, <3>4, <3>7, GotoMoves DEF Hosted
      <3>9. Tail(job[c].todo) = <<>>
        BY <2>1, <3>1, <3>4, <3>6, <3>8, DoneMoves DEF Hosted
      <3>10. CASE Current(c) = "pull" /\ Brought /\ ~WithPackages
        <4>1. Pull(c)
          BY <2>6, <3>4, <3>6, <3>7, <3>10
          DEF Runs, EnvironmentFails, Install, Remove, InstallPackages, EnterStart, Spawn, Record,
              EnterStop, Kill, Unlink, EnterDockerStart, DockerRun, DockerStop, OtherStartStop, Doing
        <4>2. /\ installed' = installed /\ (mode \in HelperPulls => pulled')
              /\ mode = "ollama" => installed
          BY <3>7, <4>1 DEF Pull, HelperPulls, CanReachStore
        <4> QED
          BY <3>1, <3>10, <4>2 DEF Prepared, Brought, WithPackages
      <3>11. CASE Current(c) = "packages" /\ Brought /\ Fetched
        <4>1. InstallPackages(c)
          BY <2>6, <3>4, <3>6, <3>7, <3>11
          DEF Runs, EnvironmentFails, Install, Pull, Remove, EnterStart, Spawn, Record,
              EnterStop, Kill, Unlink, EnterDockerStart, DockerRun, DockerStop, OtherStartStop, Doing
        <4>2. installed' = installed /\ pulled' = pulled /\ packages'
          BY <4>1 DEF InstallPackages
        <4> QED
          BY <3>1, <3>11, <4>2 DEF Prepared, Brought, Fetched
      <3>12. <<"packages">> # <<>>
        OBVIOUS
      <3> QED
        BY <3>6, <3>9, <3>10, <3>11, <3>12
    <2> QED
      BY <2>3, <2>4, <2>5, <2>6 DEF Next
  <1> QED
    BY <1>1, ServerInvariant, PTL DEF Spec, CompletedIsPrepared

-----------------------------------------------------------------------------
(* The advice.                                                             *)

\* What has become true when an action of a report is off the list.
Fulfilled(a) ==
    /\ a.act = "install" => Installed(a.what)
    /\ a.act = "choose" => Unsatisfied(flow) = {}
    /\ a.act = "serve" => UsableRuntimes # {}
    /\ a.act = "enable" => a.what \in working
    /\ a.act = "plugin" => a.what \in plugins
    /\ a.act = "select" => Supports(vm)
    /\ a.act \in Naming => vm \in VmProvider

\* What the user does for a report: nothing is lost, an action leaves the list
\* when it is fulfilled, and the provider is changed only on advice.
Follows ==
    /\ UNCHANGED <<host, flow, report, rounds>>
    /\ programs \subseteq programs' /\ serving \subseteq serving'
    /\ working \subseteq working' /\ plugins \subseteq plugins'
    /\ advice' \subseteq advice
    /\ \A a \in advice \ advice' : Fulfilled(a)'
    /\ \/ vm' = vm
       \/ /\ vm' \in VmProvider
          /\ \E a \in advice : a.act \in Naming \/ (a.act = "select" /\ Supports(vm)')

\* What a program satisfied stays satisfied.
LEMMA ToolsStay ==
    ASSUME ToolsTold, Follows
    PROVE  ToolsTold'
  <1>1. \A t : Installed(t) => Installed(t)'
    BY DEF Follows, Installed
  <1>2. Missing(flow)' \subseteq Missing(flow) /\ Unsatisfied(flow)' \subseteq Unsatisfied(flow)
    BY <1>1 DEF Missing, Unsatisfied, Follows
  <1>3. ASSUME NEW t \in Missing(flow)'
        PROVE  Advise("install", t) \in advice'
    <2>1. Advise("install", t) \in advice /\ ~Installed(t)'
      BY <1>2, <1>3 DEF ToolsTold, Missing
    <2>2. Advise("install", t) \in advice \ advice' => Installed(t)'
      BY DEF Follows, Fulfilled, Advise
    <2> QED
      BY <2>1, <2>2
  <1>4. ASSUME Unsatisfied(flow)' # {}
        PROVE  Advise("choose", flow)' \in advice'
    <2>1. Advise("choose", flow) \in advice /\ flow' = flow
      BY <1>2, <1>4 DEF ToolsTold, Follows
    <2>2. Advise("choose", flow) \in advice \ advice' => Unsatisfied(flow)' = {}
      BY DEF Follows, Fulfilled, Advise
    <2> QED
      BY <2>1, <2>2, <1>4
  <1> QED
    BY <1>3, <1>4 DEF ToolsTold

\* A runtime that could be used can still be used.
LEMMA RuntimeStays ==
    ASSUME RuntimeTold, Follows
    PROVE  RuntimeTold'
  <1>1. UsableRuntimes \subseteq UsableRuntimes'
    BY DEF Follows, UsableRuntimes, Compatible
  <1>2. ASSUME UsableRuntimes' = {}
        PROVE  \E a \in advice' : a.act = "serve"
    <2>1. PICK a \in advice : a.act = "serve"
      BY <1>1, <1>2 DEF RuntimeTold
    <2>2. a \in advice \ advice' => Fulfilled(a)'
      BY DEF Follows
    <2> QED
      BY <2>1, <2>2, <1>2 DEF Fulfilled
  <1> QED
    BY <1>2 DEF RuntimeTold

\* The three rounds of a local VM are kept while their actions are done.
LEMMA VmStays ==
    ASSUME VmTold, Follows, rounds \in 0..Enough
    PROVE  VmTold'
  <1>1. /\ \A t : Installed(t) => Installed(t)'
        /\ \A v : Supports(v)' <=> Supports(v)
    BY DEF Follows, Installed, Supports
  <1>2. /\ rounds' = rounds /\ advice' \subseteq advice
        /\ \A a \in advice \ advice' : Fulfilled(a)'
    BY DEF Follows
  <1>3. ASSUME vm' \notin VmProvider
        PROVE  rounds' = 0 /\ \E a \in advice' : a.act \in Naming
    <2>1. vm \notin VmProvider
      BY <1>3 DEF Follows
    <2>2. PICK a \in advice : a.act \in Naming
      BY <2>1 DEF VmTold
    <2>3. a \in advice'
      BY <1>2, <1>3, <2>2 DEF Fulfilled
    <2> QED
      BY <1>2, <2>1, <2>2, <2>3 DEF VmTold
  <1>4. ASSUME rounds' >= 1
        PROVE  /\ \A a \in advice' : a.act \notin Naming
               /\ ~Installed("vagrant")' => Advise("install", "vagrant") \in advice'
               /\ ~Supports(vm)' => \E a \in advice' : a.act = "select"
    <2>1. /\ \A a \in advice : a.act \notin Naming
          /\ ~Installed("vagrant") => Advise("install", "vagrant") \in advice
          /\ ~Supports(vm) => \E a \in advice : a.act = "select"
      BY <1>2, <1>4 DEF VmTold
    <2>2. ~Installed("vagrant")' => Advise("install", "vagrant") \in advice'
      BY <1>1, <1>2, <2>1 DEF Fulfilled, Advise
    <2>3. vm' = vm \/ Supports(vm)'
      BY <2>1 DEF Follows
    <2>4. ASSUME ~Supports(vm)'
          PROVE  \E a \in advice' : a.act = "select"
      <3>1. ~Supports(vm)
        BY <1>1, <2>3, <2>4
      <3>2. PICK a \in advice : a.act = "select"
        BY <2>1, <3>1
      <3> QED
        BY <1>2, <2>4, <3>2 DEF Fulfilled
    <2> QED
      BY <1>2, <2>1, <2>2, <2>4
  <1>5. ASSUME rounds' >= 2
        PROVE  /\ Installed("vagrant")' /\ Supports(vm)'
               /\ \A a \in advice' : a.act # "select"
               /\ vm' \notin working' => Advise("enable", vm)' \in advice'
               /\ NeedsPlugin(vm)' /\ vm' \notin plugins' => Advise("plugin", vm)' \in advice'
               /\ vm' = vm
    <2>1. /\ Installed("vagrant") /\ Supports(vm)
          /\ \A a \in advice : a.act # "select"
          /\ \A a \in advice : a.act \notin Naming
          /\ vm \notin working => Advise("enable", vm) \in advice
          /\ NeedsPlugin(vm) /\ vm \notin plugins => Advise("plugin", vm) \in advice
      BY <1>2, <1>5 DEF VmTold
    <2>2. vm' = vm
      BY <2>1 DEF Follows
    <2>3. vm' \notin working' => Advise("enable", vm)' \in advice'
      <3>1. Advise("enable", vm) \in advice \ advice' => vm \in working'
        BY <1>2 DEF Fulfilled, Advise
      <3> QED
        BY <2>1, <2>2, <3>1 DEF Follows
    <2>4. NeedsPlugin(vm)' /\ vm' \notin plugins' => Advise("plugin", vm)' \in advice'
      <3>1. Advise("plugin", vm) \in advice \ advice' => vm \in plugins'
        BY <1>2 DEF Fulfilled, Advise
      <3> QED
        BY <2>1, <2>2, <3>1 DEF Follows, NeedsPlugin
    <2> QED
      BY <1>1, <1>2, <2>1, <2>2, <2>3, <2>4
  <1>6. ASSUME rounds' = Enough
        PROVE  ProviderUsable(vm)'
    <2>1. vm' = vm
      BY <1>5, <1>6 DEF Enough
    <2>2. ProviderUsable(vm)
      BY <1>2, <1>6 DEF VmTold
    <2> QED
      BY <1>1, <2>1, <2>2 DEF ProviderUsable, Follows, NeedsPlugin
  <1> QED
    BY <1>3, <1>4, <1>5, <1>6 DEF VmTold

\* Whatever the user does for a report, the report stays true to its promise.
LEMMA FollowedStays ==
    ASSUME AdviceInv, Follows
    PROVE  AdviceInv'
  <1>1. UNCHANGED <<flow, report, rounds>> /\ vm' \in VmProvider \cup NoTarget
    BY DEF AdviceInv, Follows
  <1>2. ASSUME report'.kind # "none"
        PROVE  Told'
    <2>1. Told
      BY <1>1, <1>2 DEF AdviceInv
    <2>2. ToolsTold => ToolsTold'
      BY ToolsStay
    <2>3. RuntimeTold => RuntimeTold'
      BY RuntimeStays
    <2>4. VmTold => VmTold'
      BY VmStays DEF AdviceInv
    <2> QED
      BY <1>1, <2>1, <2>2, <2>3, <2>4 DEF Told
  <1> QED
    BY <1>1, <1>2 DEF AdviceInv, AdviceConverges

\* The user's actions and those of tools install.
LEMMA InstallFollows ==
    ASSUME (\E t \in Candidates : BeginInstall(t)) \/ (\E ok \in BOOLEAN : RunCommand(ok))
           \/ InstallEnds
    PROVE  Follows
  <1>1. CASE \E t \in Candidates : BeginInstall(t)
    BY <1>1 DEF BeginInstall, things, Follows
  <1>2. CASE \E ok \in BOOLEAN : RunCommand(ok)
    BY <1>2 DEF RunCommand, things, Follows
  <1>3. CASE InstallEnds
    <2>1. /\ advice' = {a \in advice : ~Done(a)} /\ UNCHANGED <<things, programs, report, rounds>>
      BY <1>3 DEF InstallEnds
    <2>2. ASSUME NEW a \in advice, Done(a)
          PROVE  Fulfilled(a)'
      <3>1. (Unsatisfied(flow) = {} => Unsatisfied(flow)' = {})
            /\ (Installed(a.what) => Installed(a.what)')
        BY <2>1 DEF Unsatisfied, Installed, things
      <3> QED
        BY <2>2, <3>1 DEF Done, Fulfilled, Naming
    <2> QED
      BY <2>1, <2>2 DEF Follows, things
  <1> QED
    BY <1>1, <1>2, <1>3

\* There is one group at most, so a tool of it satisfies the choice.
LEMMA NoteFollows ==
    ASSUME NEW t, FollowNote(t)
    PROVE  Follows
  <1>1. /\ programs' = programs \cup {Program(t)}
        /\ UNCHANGED <<things, report, rounds>>
        /\ advice' = {a \in advice : /\ a # Advise("install", t)
                                     /\ a.act = "choose" => t \notin UNION AnyOf(flow)}
    BY DEF FollowNote
  <1>2. Installed(t)'
    BY <1>1 DEF Installed, Program
  <1>3. ASSUME t \in UNION AnyOf(flow)
        PROVE  Unsatisfied(flow)' = {}
    <2>1. \A g, h \in AnyOf(flow) : g = h
      BY DEF AnyOf
    <2>2. \A g \in AnyOf(flow) : t \in g
      BY <1>3, <2>1
    <2> QED
      BY <1>1, <1>2, <2>2 DEF Unsatisfied, things
  <1>4. ASSUME NEW a \in advice \ advice'
        PROVE  Fulfilled(a)'
    <2>1. CASE a = Advise("install", t)
      BY <1>2, <2>1 DEF Advise, Fulfilled, Naming
    <2>2. CASE a.act = "choose" /\ t \in UNION AnyOf(flow)
      BY <1>3, <2>2 DEF Fulfilled, Naming
    <2> QED
      BY <1>1, <1>4, <2>1, <2>2
  <1> QED
    BY <1>1, <1>4 DEF Follows, things

\* What is done by hand for one action.
LEMMA HandFollows ==
    ASSUME NEW a \in advice,
           (\E v \in VmProvider : NameProvider(a, v)) \/ EnableProvider(a) \/ InstallPlugin(a)
           \/ (\E r \in WorkflowRuntime : StartRuntime(a, r))
    PROVE  Follows
  <1>1. ASSUME NEW v \in VmProvider, NameProvider(a, v)
        PROVE  Follows
    <2>1. /\ vm' = v /\ advice' = advice \ {a}
          /\ UNCHANGED <<host, flow, programs, working, plugins, serving, report, rounds>>
          /\ a.act \in Naming \/ (a.act = "select" /\ Supports(v))
      BY <1>1 DEF NameProvider, Naming
    <2>2. a.act = "select" => Supports(vm)'
      BY <2>1 DEF Supports, Naming
    <2>3. Fulfilled(a)'
      BY <2>1, <2>2 DEF Fulfilled, Naming
    <2> QED
      BY <2>1, <2>2, <2>3 DEF Follows
  <1>2. ASSUME EnableProvider(a) \/ InstallPlugin(a)
        PROVE  Follows
    <2>1. Fulfilled(a)'
      BY <1>2 DEF EnableProvider, InstallPlugin, Fulfilled, Naming
    <2> QED
      BY <1>2, <2>1 DEF EnableProvider, InstallPlugin, Follows
  <1>3. ASSUME NEW r \in WorkflowRuntime, StartRuntime(a, r)
        PROVE  Follows
    <2>1. /\ a.act = "serve" /\ Compatible(r)
          /\ programs' = programs \cup RuntimePrerequisites(r)
          /\ serving' = serving \cup {r} /\ advice' = advice \ {a}
          /\ UNCHANGED <<host, flow, vm, working, plugins, report, rounds>>
      BY <1>3 DEF StartRuntime
    <2>2. r \in UsableRuntimes'
      BY <2>1 DEF UsableRuntimes, Compatible
    <2>3. Fulfilled(a)'
      BY <2>1, <2>2 DEF Fulfilled, Naming
    <2> QED
      BY <2>1, <2>3 DEF Follows
  <1> QED
    BY <1>1, <1>2, <1>3

\* What a report of a workflow says that is not about a local VM.
LEMMA OtherReport ==
    ASSUME NEW kind \in {"doctor", "matrix"}, flow # "local_vm"
    PROVE  LET now == ReportOf(kind, flow) IN
             /\ now.ready \in BOOLEAN
             /\ now.ready \/ now.actions # {}
             /\ IF flow = "local_runtime" /\ kind = "doctor"
                THEN /\ now.ready <=> UsableRuntimes # {}
                     /\ ~now.ready => \E a \in now.actions : a.act = "serve"
                ELSE /\ now.ready <=> Missing(flow) = {} /\ Unsatisfied(flow) = {}
                     /\ \A t \in Missing(flow) : Advise("install", t) \in now.actions
                     /\ Unsatisfied(flow) # {} => Advise("choose", flow) \in now.actions
  <1>1. CASE flow = "local_runtime" /\ kind = "doctor"
    BY <1>1 DEF ReportOf, EnvironmentDoctor, Advise
  <1>2. CASE ~(flow = "local_runtime" /\ kind = "doctor")
    <2>1. ReportOf(kind, flow) = WorkflowReadiness(flow)
      BY <1>2 DEF ReportOf, Matrix, EnvironmentDoctor
    <2>2. /\ WorkflowReadiness(flow).ready <=> Missing(flow) = {} /\ Unsatisfied(flow) = {}
          /\ WorkflowReadiness(flow).ready \in BOOLEAN
          /\ WorkflowReadiness(flow).actions =
               {Advise("install", t) : t \in Missing(flow)}
                 \cup {Advise("choose", flow) : g \in Unsatisfied(flow)}
      BY DEF WorkflowReadiness
    <2> QED
      BY <1>2, <2>1, <2>2
  <1> QED
    BY <1>1, <1>2

\* What a report of a local VM says.
LEMMA VmReport ==
    ASSUME NEW kind \in {"doctor", "matrix"}, flow = "local_vm", vm \in VmProvider \cup NoTarget
    PROVE  LET now == ReportOf(kind, flow) IN
             /\ now.ready \in BOOLEAN
             /\ now.ready \/ now.actions # {}
             /\ IF vm \in NoTarget
                THEN ~now.ready /\ \E a \in now.actions : a.act \in Naming
                ELSE /\ now.ready <=> ProviderUsable(vm)
                     /\ now.actions \subseteq {Advise("install", "vagrant")} \cup ProviderRemediation(vm)
                     /\ ~now.ready => ProviderRemediation(vm) \subseteq now.actions
  <1>1. /\ Missing(flow) \subseteq {"vagrant"} /\ Unsatisfied(flow) = {}
        /\ Missing(flow) = {} <=> Installed("vagrant")
    BY DEF Missing, Unsatisfied, Required, AnyOf
  <1>2. CASE vm = "misnamed"
    BY <1>2 DEF ReportOf, Advise, Naming, NoTarget
  <1>3. CASE vm # "misnamed"
    <2>1. ReportOf(kind, flow) = WorkflowReadiness(flow)
      BY <1>3 DEF ReportOf, Matrix, EnvironmentDoctor
    <2>2. /\ WorkflowReadiness(flow).ready = (Missing(flow) = {} /\ LocalVmStatus.usable)
          /\ WorkflowReadiness(flow).actions =
               {Advise("install", t) : t \in Missing(flow)}
                 \cup (IF LocalVmStatus.usable THEN {} ELSE LocalVmStatus.remediation)
      BY <1>1 DEF WorkflowReadiness
    <2>3. CASE vm \in NoTarget
      <3>1. /\ LocalVmStatus.usable = FALSE
            /\ \E a \in LocalVmStatus.remediation : a.act \in Naming
        BY <1>3, <2>3 DEF NoTarget, LocalVmStatus, Advise, Naming
      <3> QED
        BY <2>1, <2>2, <2>3, <3>1
    <2>4. CASE vm \in VmProvider
      <3>1. LocalVmStatus = [usable |-> ProviderUsable(vm), remediation |-> ProviderRemediation(vm)]
            /\ vm \notin NoTarget
        BY <2>4 DEF VmProvider, NoTarget, LocalVmStatus
      <3>2. ProviderUsable(vm) => Installed("vagrant")
        BY DEF ProviderUsable
      <3>3. ProviderRemediation(vm) # {}
        BY DEF ProviderRemediation, FirstOf
      <3>4. LocalVmStatus.usable = ProviderUsable(vm)
            /\ LocalVmStatus.remediation = ProviderRemediation(vm)
        BY <3>1
      <3>5. ProviderUsable(vm) \in BOOLEAN
        BY DEF ProviderUsable
      <3> QED
        BY <1>1, <2>1, <2>2, <3>1, <3>2, <3>3, <3>4, <3>5
    <2> QED
      BY <2>3, <2>4
  <1> QED
    BY <1>2, <1>3

\* A report with nothing left of the one before is one round further; the
\* third is ready.
LEMMA AskStays ==
    ASSUME AdviceInv, NEW kind \in {"doctor", "matrix"}, Ask(kind)
    PROVE  AdviceInv'
  <1> DEFINE now == ReportOf(kind, flow)
             again == report.kind = kind /\ advice = {}
  <1>1. /\ report' = [kind |-> kind, ready |-> now.ready, advised |-> now.actions # {}]
        /\ advice' = now.actions
        /\ rounds' = IF again THEN (IF rounds < Enough THEN rounds + 1 ELSE rounds) ELSE 0
        /\ UNCHANGED <<things, programs>>
    BY DEF Ask
  <1>2. /\ rounds \in 0..Enough /\ vm \in VmProvider \cup NoTarget
        /\ report.kind # "none" => Told
    BY DEF AdviceInv
  <1>3. /\ rounds' \in 0..Enough
        /\ rounds' = 0 \/ (again /\ (rounds' = rounds + 1 \/ (rounds' = rounds /\ rounds >= Enough)))
    BY <1>1, <1>2 DEF Enough
  <1>4. again => Told
    BY <1>2
  <1>5. /\ \A t : Installed(t)' <=> Installed(t)
        /\ Missing(flow)' = Missing(flow) /\ Unsatisfied(flow)' = Unsatisfied(flow)
        /\ UsableRuntimes' = UsableRuntimes
        /\ \A v : Supports(v)' <=> Supports(v)
        /\ ProviderUsable(vm)' <=> ProviderUsable(vm)
    BY <1>1 DEF things, Installed, Missing, Unsatisfied, UsableRuntimes, Compatible, Supports,
                ProviderUsable
  <1>6. /\ report'.kind = kind /\ report'.ready = now.ready
        /\ report'.advised = (now.actions # {}) /\ report'.kind # "none"
    BY <1>1
  <1>7. now.ready \in BOOLEAN /\ (now.ready \/ now.actions # {})
    BY <1>2, OtherReport, VmReport
  <1>8. (rounds' = Enough => now.ready) /\ Told'
    <2>1. CASE flow # "local_vm"
      <3>1. again => now.ready
        BY <1>4, <2>1, OtherReport DEF Told, ToolsTold, RuntimeTold
      <3>2. Told'
        <4>1. CASE flow = "local_runtime" /\ kind = "doctor"
          <5>1. RuntimeTold'
            BY <1>1, <1>5, <2>1, <4>1, OtherReport DEF RuntimeTold
          <5> QED
            BY <1>1, <1>6, <4>1, <5>1 DEF Told, things
        <4>2. CASE ~(flow = "local_runtime" /\ kind = "doctor")
          <5>1. /\ \A t \in Missing(flow) : Advise("install", t) \in now.actions
                /\ Unsatisfied(flow) # {} => Advise("choose", flow) \in now.actions
            BY <2>1, <4>2, OtherReport
          <5>2. flow' = flow
            BY <1>1 DEF things
          <5>3. ToolsTold'
            BY <1>1, <1>5, <5>1, <5>2 DEF ToolsTold
          <5> QED
            BY <1>6, <2>1, <4>2, <5>2, <5>3 DEF Told
        <4> QED
          BY <4>1, <4>2
      <3>3. rounds' = Enough => again
        BY <1>3 DEF Enough
      <3> QED
        BY <3>1, <3>2, <3>3
    <2>2. CASE flow = "local_vm"
      <3>1. IF vm \in NoTarget
            THEN ~now.ready /\ \E a \in now.actions : a.act \in Naming
            ELSE /\ now.ready <=> ProviderUsable(vm)
                 /\ now.actions \subseteq {Advise("install", "vagrant")} \cup ProviderRemediation(vm)
                 /\ ~now.ready => ProviderRemediation(vm) \subseteq now.actions
        BY <1>2, <2>2, VmReport
      <3>2. UNCHANGED <<vm, flow, working, plugins>>
        BY <1>1 DEF things
      <3>3. again => VmTold
        BY <1>4, <2>2 DEF Told
      <3>4. /\ rounds' >= 1 => vm \in VmProvider
            /\ rounds' >= 2 => Installed("vagrant") /\ Supports(vm)
            /\ rounds' >= 3 => ProviderUsable(vm)
        <4>1. again => vm \in VmProvider
          BY <3>3 DEF VmTold
        <4>2. again /\ rounds >= 1 => Installed("vagrant") /\ Supports(vm)
          BY <3>3 DEF VmTold
        <4>3. again /\ rounds >= 2 => ProviderUsable(vm)
          BY <3>3 DEF VmTold, ProviderUsable
        <4>4. rounds \in Nat /\ rounds' \in Nat
          BY <1>2, <1>3 DEF Enough
        <4>5. /\ rounds' >= 1 => again
              /\ rounds' >= 2 => again /\ rounds >= 1
              /\ rounds' >= 3 => again /\ rounds >= 2
          BY <1>3, <4>4 DEF Enough
        <4> QED
          BY <4>1, <4>2, <4>3, <4>5
      <3>5. VmProvider \cap NoTarget = {}
        BY DEF VmProvider, NoTarget
      <3>6. VmTold'
        <4>1. ASSUME vm' \notin VmProvider
              PROVE  rounds' = 0 /\ \E a \in advice' : a.act \in Naming
          BY <1>1, <1>2, <1>3, <3>1, <3>2, <3>4, <4>1
        <4>2. ASSUME rounds' >= 1
              PROVE  /\ \A a \in advice' : a.act \notin Naming
                     /\ ~Installed("vagrant")' => Advise("install", "vagrant") \in advice'
                     /\ ~Supports(vm)' => \E a \in advice' : a.act = "select"
          <5>1. /\ vm \in VmProvider
                /\ advice' \subseteq {Advise("install", "vagrant")} \cup ProviderRemediation(vm)
                /\ ~ProviderUsable(vm) => ProviderRemediation(vm) \subseteq advice'
            BY <1>1, <3>1, <3>4, <3>5, <4>2
          <5>2. \A a \in ProviderRemediation(vm) : a.act \notin Naming
            BY DEF ProviderRemediation, FirstOf, Advise, Naming
          <5>3. \A a \in advice' : a.act \notin Naming
            BY <5>1, <5>2 DEF Advise, Naming
          <5>4. ~Installed("vagrant") => Advise("install", "vagrant") \in advice'
            BY <5>1 DEF ProviderUsable, ProviderRemediation, FirstOf
          <5>5. ASSUME ~Supports(vm)
                PROVE  \E a \in advice' : a.act = "select"
            <6>1. Advise("select", vm) \in advice'
              BY <5>1, <5>5 DEF ProviderUsable, ProviderRemediation, FirstOf
            <6> QED
              BY <6>1 DEF Advise
          <5>6. Supports(vm)' <=> Supports(vm)
            BY <1>5, <3>2
          <5> QED
            BY <1>5, <5>3, <5>4, <5>5, <5>6
        <4>3. ASSUME rounds' >= 2
              PROVE  /\ Installed("vagrant")' /\ Supports(vm)'
                     /\ \A a \in advice' : a.act # "select"
                     /\ vm' \notin working' => Advise("enable", vm)' \in advice'
                     /\ NeedsPlugin(vm)' /\ vm' \notin plugins' => Advise("plugin", vm)' \in advice'
          <5>1. /\ vm \in VmProvider /\ Installed("vagrant") /\ Supports(vm)
                /\ advice' \subseteq {Advise("install", "vagrant")} \cup ProviderRemediation(vm)
                /\ ~ProviderUsable(vm) => ProviderRemediation(vm) \subseteq advice'
            BY <1>1, <1>3, <3>1, <3>4, <3>5, <4>3
          <5>2. \A a \in ProviderRemediation(vm) : a.act # "select"
            BY <5>1 DEF ProviderRemediation, FirstOf, Advise
          <5>3. \A a \in advice' : a.act # "select"
            BY <5>1, <5>2 DEF Advise
          <5>4. vm \notin working => Advise("enable", vm) \in advice'
            BY <5>1 DEF ProviderUsable, ProviderRemediation, FirstOf
          <5>5. NeedsPlugin(vm) /\ vm \notin plugins => Advise("plugin", vm) \in advice'
            BY <5>1 DEF ProviderUsable, ProviderRemediation
          <5>6. (Supports(vm)' <=> Supports(vm)) /\ (NeedsPlugin(vm)' <=> NeedsPlugin(vm))
            BY <1>5, <3>2 DEF NeedsPlugin
          <5> QED
            BY <1>5, <3>2, <5>1, <5>3, <5>4, <5>5, <5>6
        <4> QED
          BY <1>5, <3>4, <4>1, <4>2, <4>3 DEF VmTold, Enough
      <3> QED
        BY <2>2, <3>1, <3>2, <3>4, <3>5, <3>6 DEF Told, Enough
    <2> QED
      BY <2>1, <2>2
  <1> QED
    BY <1>1, <1>2, <1>3, <1>6, <1>7, <1>8 DEF AdviceInv, AdviceConverges, things

\* After a mishap there is no report to keep.
LEMMA MishapStays ==
    ASSUME AdviceInv, Mishap
    PROVE  AdviceInv'
  <1>1. report' = NoReport /\ rounds' = 0 /\ vm' \in VmProvider \cup NoTarget
    BY DEF Mishap, AdviceInv
  <1> QED
    BY <1>1 DEF AdviceInv, AdviceConverges, NoReport, Enough

\* For any hosts, workflows and starting points: whoever does what a report
\* says and asks again is done after three rounds, and a report of a host that
\* is not ready always has something to do.  (WorkflowReadiness,
\* ProviderRemediation and EnvironmentDoctor agree on what they look at.)
THEOREM AdviceReaches == ToolSpec => []AdviceConverges
  <1>1. ToolInit => AdviceInv
    BY DEF ToolInit, AdviceInv, AdviceConverges, NoReport, NoTarget, Enough
  <1>2. AdviceInv /\ [ToolNext]_toolVars => AdviceInv'
    <2> SUFFICES ASSUME AdviceInv, [ToolNext]_toolVars
                 PROVE  AdviceInv'
      OBVIOUS
    <2>1. ASSUME NEW kind \in {"doctor", "matrix"}, Ask(kind)
          PROVE  AdviceInv'
      BY <2>1, AskStays
    <2>2. CASE \/ \E t \in Candidates : BeginInstall(t)
               \/ \E ok \in BOOLEAN : RunCommand(ok)
               \/ InstallEnds
      BY <2>2, InstallFollows, FollowedStays
    <2>3. ASSUME NEW t \in Candidates, FollowNote(t)
          PROVE  AdviceInv'
      BY <2>3, NoteFollows, FollowedStays
    <2>4. ASSUME NEW a \in advice,
                 \/ \E v \in VmProvider : NameProvider(a, v)
                 \/ EnableProvider(a) \/ InstallPlugin(a)
                 \/ \E r \in WorkflowRuntime : StartRuntime(a, r)
          PROVE  AdviceInv'
      BY <2>4, HandFollows, FollowedStays
    <2>5. CASE Mishap
      BY <2>5, MishapStays
    <2>6. CASE UNCHANGED toolVars
      <3>1. Follows
        BY <2>6 DEF toolVars, Follows
      <3> QED
        BY <3>1, FollowedStays
    <2> QED
      BY <2>1, <2>2, <2>3, <2>4, <2>5, <2>6 DEF ToolNext
  <1>3. AdviceInv => AdviceConverges
    BY DEF AdviceInv
  <1> QED
    BY <1>1, <1>2, <1>3, PTL DEF ToolSpec

-----------------------------------------------------------------------------
(* A quickstart.                                                           *)

\* While the profile and the weights are what they were, a preview has
\* nothing to account for.
LEMMA QuietRun ==
    ASSUME QuickstartInv, UNCHANGED <<profile, weights, ask, before>>,
           phase # "idle" \/ answer # NoAnswer
    PROVE  ask'.dry => before' = <<profile, weights>>'
  BY DEF QuickstartInv, QuickstartTellsTheTruth, profile

\* The steps that make the profile.
LEMMA MakingStays ==
    ASSUME QuickstartInv, Create \/ RemoveOld \/ CopyTemplate
    PROVE  QuickstartInv'
  <1>1. CASE Create
    <2>1. /\ QsTypeOK'
          /\ phase' \in {"remove", "copy"} => ~ask'.dry
          /\ phase' = "load" => dir'.there \/ ask'.dry
          /\ phase' \notin {"hardware", "discovery", "pull", "status", "idle"}
          /\ answer' = NoAnswer
      BY <1>1 DEF Create, Creates, QuickstartInv, QsTypeOK, Reached, profile
    <2>2. ask'.dry => before' = <<profile, weights>>'
      BY <1>1, QuietRun DEF Create
    <2> QED
      BY <2>1, <2>2 DEF QuickstartInv, Reached, QuickstartTellsTheTruth, NoAnswer
  <1>2. CASE RemoveOld
    <2>1. ~ask'.dry /\ phase' \in {"remove", "copy"} /\ answer' = NoAnswer
      BY <1>2 DEF RemoveOld, QuickstartInv, Reached
    <2>2. QsTypeOK'
      <3>1. dir' \in [there : BOOLEAN, files : SUBSET ConfigFile]
        <4>1. dir \in [there : BOOLEAN, files : SUBSET ConfigFile]
          BY DEF QuickstartInv, QsTypeOK
        <4>2. \/ dir' = dir
              \/ \E b \in BOOLEAN : dir' = [there |-> b, files |-> {}]
              \/ \E f \in ConfigFile : dir' = [dir EXCEPT !.files = @ \ {f}]
          BY <1>2, <4>1 DEF RemoveOld
        <4> QED
          BY <4>1, <4>2
      <3> QED
        BY <1>2, <2>1, <3>1 DEF RemoveOld, QuickstartInv, QsTypeOK
    <2> QED
      BY <2>1, <2>2 DEF QuickstartInv, Reached, QuickstartTellsTheTruth, NoAnswer
  <1>3. CASE CopyTemplate
    <2>1. /\ ~ask'.dry /\ phase' \in {"copy", "load"} /\ answer' = NoAnswer
          /\ phase' = "load" => dir'.there
      BY <1>3 DEF CopyTemplate, QuickstartInv, Reached, Whole
    <2>2. QsTypeOK'
      <3>1. dir' \in [there : BOOLEAN, files : SUBSET ConfigFile]
        <4>1. dir \in [there : BOOLEAN, files : SUBSET ConfigFile]
          BY DEF QuickstartInv, QsTypeOK
        <4>2. \/ dir' = dir
              \/ \E b \in BOOLEAN : dir' = [there |-> b, files |-> {}]
              \/ \E f \in ConfigFile : dir' = [dir EXCEPT !.files = @ \cup {f}]
          BY <1>3, <4>1 DEF CopyTemplate
        <4> QED
          BY <4>1, <4>2
      <3> QED
        BY <1>3, <2>1, <3>1 DEF CopyTemplate, QuickstartInv, QsTypeOK
    <2> QED
      BY <2>1, <2>2 DEF QuickstartInv, Reached, QuickstartTellsTheTruth, NoAnswer
  <1> QED
    BY <1>1, <1>2, <1>3

\* The steps that work with the profile.
LEMMA UsingStays ==
    ASSUME QuickstartInv,
           \/ Load
           \/ \E b \in BOOLEAN : SelectHardware(b) \/ PullModel(b)
           \/ \E result \in {"none", "disabled", "enabled"}, failed \in BOOLEAN :
                 Discover(result, failed)
    PROVE  QuickstartInv'
  <1>1. CASE Load
    <2>1. /\ QsTypeOK'
          /\ phase' = "hardware" => Whole'
          /\ phase' = "status" => ask'.dry /\ ~dir'.there
          /\ phase' \in {"idle", "hardware", "status"}
          /\ phase' # "idle" => answer' = NoAnswer
          /\ answer'.status \in {"none", "error"}
          /\ phase # "idle"
          /\ UNCHANGED <<profile, weights, ask, before>>
      BY <1>1 DEF Load, End, QuickstartInv, QsTypeOK, Reached, Whole, profile, NoAnswer
    <2>2. ask'.dry => before' = <<profile, weights>>'
      BY <2>1, QuietRun
    <2> QED
      BY <2>1, <2>2 DEF QuickstartInv, Reached, QuickstartTellsTheTruth, NoAnswer
  <1>2. ASSUME NEW b \in BOOLEAN, SelectHardware(b)
        PROVE  QuickstartInv'
    <2>1. /\ QsTypeOK'
          /\ phase' = "discovery" /\ Whole' /\ answer' = NoAnswer
          /\ UNCHANGED <<dir, curated, found, weights, ask, before>>
          /\ ask.dry => hardware' = hardware
          /\ phase # "idle"
      BY <1>2 DEF SelectHardware, QuickstartInv, QsTypeOK, Reached, Whole
    <2>2. ask'.dry => before' = <<profile, weights>>'
      BY <2>1 DEF QuickstartInv, QuickstartTellsTheTruth, profile
    <2> QED
      BY <2>1, <2>2 DEF QuickstartInv, Reached, QuickstartTellsTheTruth, NoAnswer
  <1>3. ASSUME NEW b \in BOOLEAN, PullModel(b)
        PROVE  QuickstartInv'
    <2>1. /\ QsTypeOK'
          /\ phase' \in {"idle", "status"} /\ Whole'
          /\ phase' # "idle" => answer' = NoAnswer
          /\ answer'.status \in {"none", "error"}
          /\ UNCHANGED <<profile, ask, before>>
          /\ phase # "idle"
      BY <1>3 DEF PullModel, End, QuickstartInv, QsTypeOK, Reached, Whole, profile, NoAnswer
    <2>2. ask.dry => weights' = weights
      BY <1>3 DEF PullModel, QuickstartInv, QsTypeOK
    <2>3. ask'.dry => before' = <<profile, weights>>'
      BY <2>1, <2>2 DEF QuickstartInv, QuickstartTellsTheTruth, profile
    <2> QED
      BY <2>1, <2>3 DEF QuickstartInv, Reached, QuickstartTellsTheTruth, NoAnswer
  <1>4. ASSUME NEW result \in {"none", "disabled", "enabled"}, NEW failed \in BOOLEAN,
               Discover(result, failed)
        PROVE  QuickstartInv'
    <2>1. /\ QsTypeOK'
          /\ phase' \in {"idle", "pull", "status"} /\ Whole'
          /\ phase' # "idle" => answer' = NoAnswer
          /\ answer'.status \in {"none", "error"}
          /\ UNCHANGED <<dir, curated, hardware, weights, ask, before>>
          /\ phase # "idle"
      BY <1>4 DEF Discover, End, QuickstartInv, QsTypeOK, Reached, Whole, NoAnswer
    <2>2. ask.dry => found' = found
      BY <1>4 DEF Discover, Refreshed
    <2>3. ask'.dry => before' = <<profile, weights>>'
      BY <2>1, <2>2 DEF QuickstartInv, QuickstartTellsTheTruth, profile
    <2> QED
      BY <2>1, <2>3 DEF QuickstartInv, Reached, QuickstartTellsTheTruth, NoAnswer
  <1> QED
    BY <1>1, <1>2, <1>3, <1>4

\* The answer says what is on the disk.
LEMMA AnswerStays ==
    ASSUME QuickstartInv, Answer
    PROVE  QuickstartInv'
  <1>1. /\ phase = "status" /\ phase' = "idle"
        /\ UNCHANGED <<profile, weights, ask, before>>
        /\ answer' = IF ask.whole THEN Readiness ELSE [status |-> "bootstrapped", next |-> "none"]
    BY DEF Answer, End, Readiness
  <1>2. /\ QsTypeOK' /\ (Whole \/ (ask.dry /\ ~dir.there))
        /\ UNCHANGED <<dir, SomeEnabled, Whole>>
    BY <1>1 DEF QuickstartInv, QsTypeOK, Reached, Whole, SomeEnabled, profile
  <1>3. ask'.dry => before' = <<profile, weights>>'
    BY <1>1, QuietRun
  <1>4. /\ Readiness.status = "profile_required" => ~dir.there
        /\ Readiness.status \in {"model_required", "ready_to_export"} => dir.there
        /\ Readiness.status = "model_required" => ~SomeEnabled
        /\ Readiness.status = "ready_to_export" => SomeEnabled
    BY DEF Readiness
  <1>5. Whole => dir.there
    BY DEF Whole
  <1> QED
    BY <1>1, <1>2, <1>3, <1>4, <1>5 DEF QuickstartInv, Reached, QuickstartTellsTheTruth

\* For any flags, any files of a profile and any point at which a command is
\* killed: a preview leaves the profile and the weights alone, and the status
\* that is answered is true of the disk.
THEOREM QuickstartAnswers == QuickstartSpec => []QuickstartTellsTheTruth
  <1>1. QsInit => QuickstartInv
    <2> SUFFICES ASSUME QsInit
                 PROVE  QuickstartInv
      OBVIOUS
    <2>1. dir \in [there : BOOLEAN, files : SUBSET ConfigFile]
      <3>1. \E b \in BOOLEAN, f \in SUBSET ConfigFile : dir = [there |-> b, files |-> f]
        BY DEF QsInit
      <3> QED
        BY <3>1
    <2>2. ask \in QsFlag
      BY AsksAssumption DEF QsInit
    <2>3. phase = "idle" /\ answer = NoAnswer
      BY DEF QsInit
    <2>4. weights \in BOOLEAN
      BY DEF QsInit
    <2>5. QsTypeOK
      BY <2>1, <2>2, <2>3, <2>4 DEF QsTypeOK
    <2>6. Reached /\ QuickstartTellsTheTruth
      BY <2>3 DEF Reached, QuickstartTellsTheTruth, NoAnswer
    <2> QED
      BY <2>5, <2>6 DEF QuickstartInv
  <1>2. QuickstartInv /\ [QsNext]_qsVars => QuickstartInv'
    <2> SUFFICES ASSUME QuickstartInv, [QsNext]_qsVars
                 PROVE  QuickstartInv'
      OBVIOUS
    <2>1. ASSUME NEW q \in Asks, BeginRun(q)
          PROVE  QuickstartInv'
      BY <2>1, AsksAssumption
      DEF BeginRun, QuickstartInv, QsTypeOK, Reached, QuickstartTellsTheTruth, NoAnswer, profile
    <2>2. CASE Create \/ RemoveOld \/ CopyTemplate
      BY <2>2, MakingStays
    <2>3. CASE \/ Load
               \/ \E b \in BOOLEAN : SelectHardware(b) \/ PullModel(b)
               \/ \E result \in {"none", "disabled", "enabled"}, failed \in BOOLEAN :
                     Discover(result, failed)
      BY <2>3, UsingStays
    <2>4. CASE Answer
      BY <2>4, AnswerStays
    <2>5. CASE Killed
      <3>1. ask'.dry => before' = <<profile, weights>>'
        BY <2>5, QuietRun DEF Killed
      <3> QED
        BY <2>5, <3>1
        DEF Killed, End, QuickstartInv, QsTypeOK, Reached, QuickstartTellsTheTruth, profile
    <2>6. CASE Change
      <3>1. /\ phase' = "idle" /\ answer' = NoAnswer
            /\ UNCHANGED <<weights, ask>>
            /\ dir' \in [there : BOOLEAN, files : SUBSET ConfigFile]
        BY <2>6 DEF Change, QuickstartInv, QsTypeOK
      <3> QED
        BY <3>1 DEF QuickstartInv, QsTypeOK, Reached, QuickstartTellsTheTruth, NoAnswer
    <2>7. CASE UNCHANGED qsVars
      BY <2>7
      DEF qsVars, profile, QuickstartInv, QsTypeOK, Reached, QuickstartTellsTheTruth, Whole, SomeEnabled
    <2> QED
      BY <2>1, <2>2, <2>3, <2>4, <2>5, <2>6, <2>7 DEF QsNext
  <1>3. QuickstartInv => QuickstartTellsTheTruth
    BY DEF QuickstartInv
  <1> QED
    BY <1>1, <1>2, <1>3, PTL DEF QuickstartSpec
=============================================================================
