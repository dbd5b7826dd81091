------------------------------ MODULE Runtime ------------------------------
(***************************************************************************)
(* The model servers a stack runs on: the lifecycle commands of a stack    *)
(* (stacks prepare, start, stop, restart and deploy), the runtimes         *)
(* commands, and the helper script both call for every step.  The helper   *)
(* keeps a server it started as a background process whose PID it writes   *)
(* into a file, or as a docker container with a fixed name.                *)
(*                                                                         *)
(* Nothing is locked: two commands may be at any point of their scripts,   *)
(* servers end by themselves, and the PID of one that ended may be given   *)
(* to another program.                                                     *)
(***************************************************************************)
EXTENDS Integers, Sequences, FiniteSets

CONSTANTS
    Command,   \* commands that may run at the same time
    Pid,
    Mode,      \* kinds of runtime to look at, see Modes
    None

\* ollama: a native Ollama.  docker: Ollama in a container.  library: vLLM and
\* TGI, which are installed, downloaded and started as a process.  gguf:
\* llama.cpp with a model that is a direct URL; llamacpp: with any other.
\* transformers: a library without a server.  runner: Docker Model Runner,
\* which is not reached through the helper.
Modes == {"ollama", "docker", "library", "gguf", "llamacpp", "localai", "transformers",
          "lmstudio", "runner"}

\* For the others the helper prints how to do it, and exits with 0; the download
\* of a gguf exits with 0 also when the page that came is no model.
HelperInstalls == Modes \ {"gguf", "llamacpp", "lmstudio"}
HelperPulls == Modes \ {"gguf", "llamacpp", "localai", "lmstudio"}
HelperStarts == Modes \ {"transformers", "lmstudio"}

ASSUME RuntimeAssumption ==
    /\ Mode \subseteq Modes
    /\ None \notin Pid \cup {"service", "container"}
    /\ {"service", "container"} \cap Pid = {}

VARIABLES
    mode,          \* the runtime of the stack
    orchestrated,  \* the stack has an orchestrator with packages
    process,       \* [Pid -> what runs under it]
    port,          \* who listens on the endpoint of the runtime
    pidFile,       \* the PID the helper wrote, or None
    container,     \* the container with the helper's name
    installed,     \* the runtime is installed
    pulled,        \* the model of the stack is where the runtime looks for it
    packages,      \* the packages of the orchestrator are installed
    job,           \* [Command -> Job]
    calm           \* no command has been killed, has overlapped another, or has
                   \* failed to write the PID of the server it had started

hostVars == <<process, port, pidFile, container>>
doneVars == <<installed, pulled, packages>>
vars == <<mode, orchestrated, hostVars, doneVars, job, calm>>

Step == {"install", "pull", "packages", "start", "stop", "remove"}
Kind == {"prepare", "start", "stop", "restart", "deploy", "install", "pull",
         "remove"}

\* inner: the steps left of a prepare that a deploy runs as one step.
Job == [kind : Kind, at : {"idle", "step", "spawn", "record", "kill", "unlink", "run"},
        todo : Seq(Step), inner : Seq(Step), pid : Pid \cup {None},
        report : {"none", "completed", "failed"}]

\* Servers of the helper, and processes of this user and of other users that
\* have nothing to do with it.
Server == {"starting", "serving"}
Use == {"free", "starting", "serving", "ending", "mine", "foreign"}

TypeOK ==
    /\ mode \in Mode
    /\ {orchestrated, installed, pulled, packages, calm} \subseteq BOOLEAN
    /\ process \in [Pid -> Use]
    /\ port \in Pid \cup {"service", "container", None}
    /\ pidFile \in Pid \cup {None}
    /\ container \in {"absent", "running", "stopped"}
    /\ job \in [Command -> Job]

\* Helper scripts that keep a process with a PID file.
Managed == mode \in HelperStarts \ {"docker", "runner"}

-----------------------------------------------------------------------------
(* What a command does.                                                    *)

\* A Docker Model Runner stack returns before the orchestrator is looked at.
Prepare == <<"install", "pull">> \o
           (IF orchestrated /\ mode # "runner" THEN <<"packages">> ELSE <<>>)

Steps(kind) ==
    CASE kind = "prepare" -> Prepare
      [] kind = "restart" -> <<"stop", "start">>
      [] kind = "deploy"  -> <<"install", "pull", "start">>
      [] OTHER            -> <<kind>>

Idle == [kind |-> "stop", at |-> "idle", todo |-> <<>>, inner |-> <<>>,
         pid |-> None, report |-> "none"]

Init ==
    /\ mode \in Mode
    /\ orchestrated \in BOOLEAN
    /\ process = [p \in Pid |-> "free"]
    /\ port \in {None, "service"}
    /\ pidFile = None
    /\ container = "absent"
    /\ installed \in BOOLEAN /\ pulled \in BOOLEAN /\ packages = FALSE
    /\ job = [c \in Command |-> Idle]
    /\ calm = TRUE

\* A same-host stack, confirmed with --yes; other calls only print the plan.
Begin(c, kind) ==
    /\ job[c].at = "idle"
    /\ job' = [job EXCEPT ![c] =
                 [Idle EXCEPT !.kind = kind, !.at = "step", !.todo = Steps(kind),
                              !.inner = IF kind = "deploy" /\ orchestrated
                                        THEN Prepare ELSE <<>>]]
    /\ calm' = (calm /\ \A d \in Command : job[d].at = "idle")
    /\ UNCHANGED <<mode, orchestrated, hostVars, doneVars>>

Current(c) == IF job[c].inner # <<>> THEN Head(job[c].inner) ELSE Head(job[c].todo)

Doing(c, step) == job[c].at = "step" /\ Current(c) = step

Goto(c, at, pid) == job' = [job EXCEPT ![c].at = at, ![c].pid = pid]

\* The step exited with 0: the next one runs, or the action is completed.
StepDone(c) ==
    LET j == job[c]
        inner == IF j.inner # <<>> THEN Tail(j.inner) ELSE <<>>
        todo == IF j.inner # <<>> THEN j.todo ELSE Tail(j.todo)
        ends == inner \o todo = <<>>
    IN  job' = [job EXCEPT ![c] =
                  [j EXCEPT !.inner = inner, !.todo = todo, !.pid = None,
                            !.at = IF ends THEN "idle" ELSE "step",
                            !.report = IF ends THEN "completed" ELSE "none"]]

\* A failure that is taken for a success.
StepFailedUnseen(c) == StepDone(c)

\* The step failed and the steps after it are not run.  The prepare of a
\* deploy is a command of its own, which reports its failure and exits with 0.
StepFailed(c) ==
    LET j == job[c] IN
    job' = [job EXCEPT ![c] =
              IF j.inner # <<>>
              THEN [j EXCEPT !.inner = <<>>, !.pid = None, !.at = "step"]
              ELSE [j EXCEPT !.todo = <<>>, !.pid = None, !.at = "idle",
                             !.report = "failed"]]

-----------------------------------------------------------------------------
(* install, pull, remove and packages.                                     *)

\* The Ollama installer may set up a system service on the same port.  It is
\* piped into a shell, which exits with 0 also when nothing came.
Install(c) ==
    /\ Doing(c, "install")
    /\ StepDone(c)
    /\ \/ installed' = (installed \/ mode \in HelperInstalls) /\ UNCHANGED port
       \/ mode = "ollama" /\ installed' = TRUE /\ port = None /\ port' = "service"
       \/ mode = "ollama" /\ UNCHANGED <<installed, port>>
    /\ UNCHANGED <<mode, orchestrated, process, pidFile, container, pulled,
                   packages, calm>>

\* ollama pull and ollama rm talk to a server, docker exec needs the container,
\* a Docker Model Runner must be installed.
CanReachStore ==
    CASE mode = "ollama" -> installed /\ port # None
      [] mode = "docker" -> container = "running"
      [] mode = "runner" -> installed
      [] OTHER           -> TRUE

Pull(c) ==
    /\ Doing(c, "pull")
    /\ IF CanReachStore
       THEN /\ StepDone(c)
            /\ \/ pulled' = (pulled \/ mode \in HelperPulls)
               \/ mode = "gguf" /\ pulled' = ~pulled
       ELSE StepFailed(c) /\ UNCHANGED pulled
    /\ UNCHANGED <<mode, orchestrated, hostVars, installed, packages, calm>>

\* Only an Ollama helper and Docker Model Runner delete models.
Remove(c) ==
    /\ Doing(c, "remove")
    /\ IF mode \notin {"ollama", "docker", "runner"} THEN StepDone(c) /\ UNCHANGED pulled
       ELSE IF CanReachStore /\ pulled THEN StepDone(c) /\ pulled' = FALSE
       ELSE StepFailed(c) /\ UNCHANGED pulled
    /\ UNCHANGED <<mode, orchestrated, hostVars, installed, packages, calm>>

InstallPackages(c) ==
    /\ Doing(c, "packages")
    /\ StepDone(c)
    /\ packages' = TRUE
    /\ UNCHANGED <<mode, orchestrated, hostVars, installed, pulled, calm>>

\* Before it does or prints anything the helper may fail: the platform is not
\* supported, the alias of the model cannot be resolved, a directory not made.
EnvironmentFails(c) ==
    /\ \E step \in {"install", "pull", "packages", "start"} : Doing(c, step)
    /\ StepFailed(c)
    /\ UNCHANGED <<mode, orchestrated, hostVars, doneVars, calm>>

-----------------------------------------------------------------------------
(* start and stop of a process with a PID file.                            *)

\* kill -0: a process exists and this user may signal it.
Answers(p) == p # None /\ process[p] \notin {"free", "foreign"}

\* A bug: it is the endpoint that is looked at, where a server that was only
\* just started does not listen yet.
EnterStartByPort(c) ==
    /\ Managed /\ Doing(c, "start")
    /\ IF port # None THEN StepDone(c) ELSE Goto(c, "spawn", None)
    /\ UNCHANGED <<mode, orchestrated, hostVars, doneVars, calm>>

EnterStart(c) ==
    /\ Managed /\ Doing(c, "start")
    /\ IF Answers(pidFile) THEN StepDone(c) ELSE Goto(c, "spawn", None)
    /\ UNCHANGED <<mode, orchestrated, hostVars, doneVars, calm>>

Spawn(c) ==
    /\ job[c].at = "spawn"
    /\ \E p \in Pid :
          /\ process[p] = "free"
          /\ process' = [process EXCEPT ![p] = "starting"]
          /\ Goto(c, "record", p)
    /\ UNCHANGED <<mode, orchestrated, port, pidFile, container, doneVars, calm>>

\* The helper exits with 0 whatever becomes of the process.  When its PID
\* cannot be written the file stays as it is, or is left empty: then the
\* server runs and nothing names it.
Record(c) ==
    /\ job[c].at = "record"
    /\ \/ pidFile' = job[c].pid /\ StepDone(c) /\ UNCHANGED calm
       \/ pidFile' \in {pidFile, None} /\ StepFailed(c) /\ calm' = FALSE
    /\ UNCHANGED <<mode, orchestrated, process, port, container, doneVars>>

EnterStop(c) ==
    /\ Managed /\ Doing(c, "stop")
    /\ IF pidFile = None THEN StepDone(c)
       ELSE Goto(c, IF Answers(pidFile) THEN "kill" ELSE "unlink", pidFile)
    /\ UNCHANGED <<mode, orchestrated, hostVars, doneVars, calm>>

\* A kill that fails ends the script (set -e) before the file is removed.
\* Nothing waits for the process to end.
Kill(c) ==
    LET p == job[c].pid IN
    /\ job[c].at = "kill"
    /\ \/ /\ ~Answers(p)
          /\ StepFailed(c)
          /\ UNCHANGED process
       \/ /\ Answers(p)
          /\ Goto(c, "unlink", p)
          /\ process' = [process EXCEPT ![p] = IF @ \in Server THEN "ending" ELSE @]
    /\ UNCHANGED <<mode, orchestrated, port, pidFile, container, doneVars, calm>>

Unlink(c) ==
    /\ job[c].at = "unlink"
    /\ \/ pidFile' = None /\ StepDone(c)
       \/ UNCHANGED pidFile /\ StepFailed(c)
    /\ UNCHANGED <<mode, orchestrated, process, port, container, doneVars, calm>>

-----------------------------------------------------------------------------
(* start and stop of the container, of a runner, and of a runtime that the *)
(* helper does not start.                                                  *)

\* docker ps, then docker ps -a and docker rm of one that does not run.
EnterDockerStart(c) ==
    /\ mode = "docker" /\ Doing(c, "start")
    /\ IF container = "running" THEN StepDone(c) ELSE Goto(c, "run", None)
    /\ container' = IF container = "stopped" THEN "absent" ELSE container
    /\ UNCHANGED <<mode, orchestrated, process, port, pidFile, doneVars, calm>>

\* docker run pulls the image when it is missing.  It fails when the name was
\* taken in between or the port is.
DockerRun(c) ==
    /\ job[c].at = "run"
    /\ \/ /\ container = "absent" /\ port = None
          /\ container' = "running" /\ port' = "container" /\ installed' = TRUE
          /\ StepDone(c)
       \/ /\ container # "absent" \/ port # None
          /\ IF container = "absent" THEN container' \in {"absent", "stopped"}
                                     ELSE UNCHANGED container
          /\ StepFailed(c)
          /\ UNCHANGED <<port, installed>>
    /\ UNCHANGED <<mode, orchestrated, process, pidFile, pulled, packages, calm>>

\* docker rm -f of a container that does not exist fails or not, by version.
DockerStop(c) ==
    /\ mode = "docker" /\ Doing(c, "stop")
    /\ \/ StepDone(c)
       \/ container = "absent" /\ StepFailed(c)
    /\ container' = "absent"
    /\ port' = IF port = "container" THEN None ELSE port
    /\ UNCHANGED <<mode, orchestrated, process, pidFile, doneVars, calm>>

\* For a runtime it does not start the helper only prints how to.
OtherStartStop(c) ==
    /\ mode \notin HelperStarts \/ mode = "runner"
    /\ Doing(c, "start") \/ Doing(c, "stop")
    /\ \/ StepDone(c)
          /\ port' = IF mode \notin HelperStarts THEN port
                     ELSE IF Doing(c, "stop") THEN None ELSE "service"
       \/ mode = "runner" /\ StepFailed(c) /\ UNCHANGED port
    /\ UNCHANGED <<mode, orchestrated, process, pidFile, container, doneVars, calm>>

-----------------------------------------------------------------------------
(* The environment.                                                        *)

\* A server listens when the runtime is there and the port is free.
Listens(p) ==
    /\ process[p] = "starting" /\ installed /\ port = None
    /\ process' = [process EXCEPT ![p] = "serving"]
    /\ port' = p
    /\ UNCHANGED <<mode, orchestrated, pidFile, container, doneVars, job, calm>>

\* A process ends: a server that cannot listen, one that was told to, any.
Ends(p) ==
    /\ process[p] # "free"
    /\ process' = [process EXCEPT ![p] = "free"]
    /\ port' = IF port = p THEN None ELSE port
    /\ UNCHANGED <<mode, orchestrated, pidFile, container, doneVars, job, calm>>

OtherStarts(p) ==
    /\ process[p] = "free"
    /\ \E u \in {"mine", "foreign"} : process' = [process EXCEPT ![p] = u]
    /\ UNCHANGED <<mode, orchestrated, port, pidFile, container, doneVars, job, calm>>

ContainerExits ==
    /\ container = "running"
    /\ container' = "absent" /\ port' = None
    /\ UNCHANGED <<mode, orchestrated, process, pidFile, doneVars, job, calm>>

Dies(c) ==
    /\ job[c].at # "idle"
    /\ job' = [job EXCEPT ![c] = Idle]
    /\ calm' = FALSE
    /\ UNCHANGED <<mode, orchestrated, hostVars, doneVars>>

Runs(c) ==
    \/ Install(c) \/ Pull(c) \/ Remove(c) \/ InstallPackages(c)
    \/ EnterStart(c) \/ Spawn(c) \/ Record(c)
    \/ EnterStop(c) \/ Kill(c) \/ Unlink(c)
    \/ EnterDockerStart(c) \/ DockerRun(c) \/ DockerStop(c) \/ OtherStartStop(c)

Next ==
    \/ \E c \in Command : \/ \E kind \in Kind : Begin(c, kind)
                          \/ Runs(c) \/ EnvironmentFails(c) \/ Dies(c)
    \/ \E p \in Pid : Listens(p) \/ Ends(p) \/ OtherStarts(p)
    \/ ContainerExits

Spec == Init /\ [][Next]_vars

-----------------------------------------------------------------------------
(* Properties.                                                             *)

\* A server that was started and not told to end is named by the PID file, or
\* by the command that has just started it: the next stop finds it.  (Two
\* commands at once, a killed one, or a PID that cannot be written, lose it.)
NoServerIsLost ==
    calm => \A p \in Pid : process[p] \in Server =>
              pidFile = p \/ \E c \in Command : job[c].at = "record" /\ job[c].pid = p

\* When no command overlaps another, at most one server is running or about
\* to, so the next one does not die for want of the port.
OneServer ==
    calm => Cardinality({p \in Pid : process[p] \in Server}) <= 1

\* The listener is alive: a live process of the helper, the container or a
\* service; the container listens whenever it runs.
ListenerLives ==
    /\ port \in Pid => process[port] \in {"serving", "ending"}
    /\ (port = "container") = (container = "running")

\* What the steps of a prepare can bring about.  (Where the helper prints how
\* to install the runtime or to get the model, and for the packages of a
\* Docker Model Runner stack, a completed prepare promises nothing.)
Prepared ==
    /\ mode \in HelperInstalls => installed
    /\ mode \in HelperPulls => pulled
    /\ orchestrated /\ mode # "runner" => packages

\* A prepare that reports completed has installed what its helper installs and
\* pulled what it pulls, and the packages, whatever failed in the attempts
\* before it.  An Ollama installer that brought nothing is found out by the pull.
CompletedIsPrepared ==
    [][\A c \in Command :
         (/\ calm'
          /\ job[c].kind = "prepare" /\ job[c].report = "none"
          /\ job'[c].report = "completed")
            => Prepared']_vars

=============================================================================
