------------------------------ MODULE Toolchain ------------------------------
(***************************************************************************)
(* Preparing a host for a workflow: a report (tools matrix --workflow,     *)
(* environment doctor --workflow) says whether the host is ready and what  *)
(* to do next, the user does it, with tools install where there are        *)
(* commands and by hand where there is only a hint, and asks again.  For   *)
(* local VMs the report also looks at the provider of the chosen target.   *)
(*                                                                         *)
(* A program has the name of its tool, but for docker-compose, which asks  *)
(* for docker.  Descriptions, versions, health probes that no readiness    *)
(* depends on and optional tools are left out.                             *)
(***************************************************************************)
EXTENDS Naturals, Sequences, FiniteSets

CONSTANTS
    Hosts,       \* hosts: their platform and active environment mode
    Flows,       \* workflows the user may prepare
    AtFirst,     \* sets of programs a host may start with
    Serving,     \* sets of runtimes that may answer at first
    MaxMishaps   \* bound on what breaks or is changed behind the user's back

Platform == {"ubuntu", "debian", "fedora", "macos", "windows", "arch"}
EnvMode == {"system", "venv", "conda", "docker"}
VmProvider == {"virtualbox", "libvirt", "hyperv", "vmware_desktop"}
NoTarget == {"none", "several", "unknown", "misnamed"}

Iac == {"opentofu", "terraform", "pulumi"}

Required(w) ==
    CASE w = "local_container"    -> {"docker"}
      [] w = "local_vm"           -> {"vagrant"}
      [] w = "remote_workstation" -> {"openssh-client"}
      [] w = "cloud_vm"           -> {"azure-cli", "openssh-client"}
      [] w = "cloud_kubernetes"   -> {"azure-cli", "kubectl"}
      [] w = "quality"            -> {"ruff"}
      [] OTHER                    -> {}

\* Groups of which one tool is enough.
AnyOf(w) ==
    CASE w \in {"cloud_vm", "cloud_kubernetes"} -> {Iac}
      [] w = "benchmark_quality" -> {{"lm-evaluation-harness"}}
      [] w = "benchmark_serving" -> {{"vllm-benchmark-scripts", "locust"}}
      [] OTHER -> {}

WorkflowRuntime == {"ollama", "llamacpp", "mlx", "docker_model_runner", "lmstudio", "vllm"}

ASSUME HostsAssumption ==
    /\ Hosts \subseteq [platform : Platform, mode : EnvMode]
    /\ MaxMishaps \in Nat

VARIABLES
    host,       \* the host
    flow,       \* the workflow that is being prepared
    programs,   \* programs on the PATH
    vm,         \* provider of the local VM target, or why there is none
    working,    \* VM providers whose probe succeeds
    plugins,    \* VM providers whose Vagrant plugin is installed
    serving,    \* runtimes that are available
    install,    \* the tools install command that runs, or NoInstall
    report,     \* the last report, or NoReport
    advice,     \* its actions that are not done yet
    rounds,     \* reports in a row all of whose actions were done
    mishaps

toolVars == <<host, flow, programs, vm, working, plugins, serving, install, report,
              advice, rounds, mishaps>>
things == <<host, flow, vm, working, plugins, serving>>

NoInstall == [tool |-> "none", todo |-> <<>>]
NoReport == [kind |-> "none", ready |-> FALSE, advised |-> TRUE]

Advise(act, what) == [act |-> act, what |-> what]

(***************************************************************************)
(* Tools                                                                   *)
(***************************************************************************)
Program(t) == IF t = "docker-compose" THEN "docker" ELSE t
Installed(t) == Program(t) \in programs

PipTool == {"ansible", "ruff", "black", "lm-evaluation-harness", "vllm-benchmark-scripts",
            "locust"}
Named == {"ubuntu", "debian", "fedora", "macos"}
AnyLinux == {"pulumi", "devcontainer-cli"} \cup (PipTool \ {"ansible"})

\* Platforms on which the catalog only says where to read.
OnlyNotes(t, p) ==
    \/ p # "macos" /\ t \in {"opentofu", "vagrant", "packer", "docker"}
    \/ p \in {"ubuntu", "debian"} /\ t = "terraform"
    \/ p = "debian" /\ t = "kubectl"
    \/ p = "macos" /\ t \in {"docker", "docker-compose", "openssh-client",
                              "vllm-benchmark-scripts"}

TwoCommands(t, p) ==
    \/ p = "macos" /\ t \in {"azure-cli", "terraform", "vagrant"}
    \/ p = "fedora" /\ t = "azure-cli"

\* The commands for the platform, or those for any Linux: also on Windows.
InstallCommands(t, p) ==
    CASE p \notin Named /\ t \notin AnyLinux -> <<>>
      [] p \in Named /\ OnlyNotes(t, p) -> <<"note">>
      [] t \in PipTool /\ ~OnlyNotes(t, p) /\ (t = "ansible" => p \in Named \ {"macos"}) -> <<"pip">>
      [] TwoCommands(t, p) -> <<"run", "run">>
      [] OTHER -> <<"run">>

(***************************************************************************)
(* The provider of local VMs                                               *)
(***************************************************************************)
System(p) == CASE p = "macos" -> "Darwin" [] p = "windows" -> "Windows" [] OTHER -> "Linux"

Systems(v) ==
    CASE v = "libvirt" -> {"Linux"}
      [] v = "hyperv"  -> {"Windows"}
      [] OTHER         -> {"Darwin", "Linux", "Windows"}

Supports(v) == System(host.platform) \in Systems(v)
NeedsPlugin(v) == v \in {"libvirt", "vmware_desktop"}

\* Only plugins that "vagrant plugin list" shows count.
ProviderUsable(v) ==
    /\ Installed("vagrant") /\ Supports(v) /\ v \in working
    /\ NeedsPlugin(v) => v \in plugins

FirstOf(v) ==
    (IF Installed("vagrant") THEN {} ELSE {Advise("install", "vagrant")})
        \cup {IF Supports(v) THEN Advise("enable", v) ELSE Advise("select", v)}

\* A bug: the plugin is forgotten.
RemediationNoPlugin(v) == FirstOf(v)

ProviderRemediation(v) ==
    FirstOf(v) \cup {Advise("plugin", x) : x \in {y \in {v} : NeedsPlugin(y)}}

LocalVmStatus ==
    CASE vm \in {"several", "unknown"} ->
            [usable |-> FALSE, remediation |-> {Advise("set_default", vm)}]
      [] vm = "none" -> [usable |-> FALSE, remediation |-> {Advise("add_target", vm)}]
      [] OTHER -> [usable |-> ProviderUsable(vm), remediation |-> ProviderRemediation(vm)]

(***************************************************************************)
(* Runtimes                                                                *)
(***************************************************************************)
RuntimePrerequisites(r) ==
    CASE r = "ollama"            -> {"curl", "sh"}
      [] r \in {"vllm", "mlx"}   -> {"python", "pip"}
      [] r = "llamacpp"          -> {"llama-server"}
      [] OTHER                   -> {}

\* A macOS host of the model is an Apple Silicon one.
Compatible(r) == r = "mlx" => host.platform = "macos"

UsableRuntimes ==
    {r \in WorkflowRuntime : /\ RuntimePrerequisites(r) \subseteq programs
                             /\ Compatible(r) /\ r \in serving}

(***************************************************************************)
(* Reports                                                                 *)
(***************************************************************************)
Missing(w) == {t \in Required(w) : ~Installed(t)}
Unsatisfied(w) == {g \in AnyOf(w) : \A t \in g : ~Installed(t)}

WorkflowReadiness(w) ==
    [ready |-> Missing(w) = {} /\ Unsatisfied(w) = {} /\ (w = "local_vm" => LocalVmStatus.usable),
     actions |-> {Advise("install", t) : t \in Missing(w)}
                    \cup {Advise("choose", w) : g \in Unsatisfied(w)}
                    \cup (IF w = "local_vm" /\ ~LocalVmStatus.usable
                          THEN LocalVmStatus.remediation ELSE {})]

\* The matrix does not look at runtimes.
Matrix(w) == WorkflowReadiness(w)

\* The doctor judges local_runtime by its runtimes alone.
EnvironmentDoctor(w) ==
    IF w = "local_runtime"
    THEN [ready |-> UsableRuntimes # {},
          actions |-> IF UsableRuntimes = {} THEN {Advise("serve", w)} ELSE {}]
    ELSE WorkflowReadiness(w)

\* A provider name that is none ends the report, with the names it may have.
ReportOf(kind, w) ==
    IF w = "local_vm" /\ vm = "misnamed"
    THEN [ready |-> FALSE, actions |-> {Advise("name", "misnamed")}]
    ELSE IF kind = "matrix" THEN Matrix(w) ELSE EnvironmentDoctor(w)

Enough == 3

Ask(kind) ==
    /\ install = NoInstall
    /\ LET now == ReportOf(kind, flow)
       IN /\ report' = [kind |-> kind, ready |-> now.ready, advised |-> now.actions # {}]
          /\ advice' = now.actions
    /\ rounds' = IF report.kind = kind /\ advice = {}
                 THEN (IF rounds < Enough THEN rounds + 1 ELSE rounds) ELSE 0
    /\ UNCHANGED <<things, programs, install, mishaps>>

(***************************************************************************)
(* tools install                                                           *)
(***************************************************************************)
Advised(t) ==
    \/ Advise("install", t) \in advice
    \/ Advise("choose", flow) \in advice /\ \E g \in AnyOf(flow) : t \in g

BeginInstall(t) ==
    /\ install = NoInstall /\ Advised(t) /\ ~Installed(t)
    /\ InstallCommands(t, host.platform) # <<>>
    /\ install' = [tool |-> t, todo |-> InstallCommands(t, host.platform)]
    /\ UNCHANGED <<things, programs, report, advice, rounds, mishaps>>

\* pip runs in the active environment: what it installs in a virtual
\* environment, a conda one or a container is not on the PATH.
Lands(command) == command = "pip" => host.mode = "system"
CanRun(command) == command = "pip" /\ host.mode = "docker" => "docker" \in programs

\* A note is passed over, a command that fails is the last one, and the last
\* command brings the program.
RunCommand(ok) ==
    /\ install.todo # <<>>
    /\ LET command == Head(install.todo)
           rest == Tail(install.todo)
           runs == command # "note"
       IN /\ ok => runs /\ CanRun(command)
          /\ install' = [install EXCEPT !.todo = IF runs /\ ~ok THEN <<>> ELSE rest]
          /\ programs' = IF ok /\ rest = <<>> /\ Lands(command)
                         THEN programs \cup {Program(install.tool)} ELSE programs
    /\ UNCHANGED <<things, report, advice, rounds, mishaps>>

Done(a) ==
    \/ a.act = "install" /\ Installed(a.what)
    \/ a.act = "choose" /\ Unsatisfied(flow) = {}

InstallEnds ==
    /\ install # NoInstall /\ install.todo = <<>>
    /\ install' = NoInstall
    /\ advice' = {a \in advice : ~Done(a)}
    /\ UNCHANGED <<things, programs, report, rounds, mishaps>>

(***************************************************************************)
(* What the user does by hand                                              *)
(***************************************************************************)
FollowNote(t) ==
    /\ install = NoInstall /\ Advised(t)
    /\ InstallCommands(t, host.platform) = <<"note">>
    /\ programs' = programs \cup {Program(t)}
    /\ advice' = {a \in advice : /\ a # Advise("install", t)
                                 /\ a.act = "choose" => t \notin UNION AnyOf(flow)}
    /\ UNCHANGED <<things, install, report, rounds, mishaps>>

\* Any of the four providers may be written into the profile; the one that is
\* selected is supported here.
NameProvider(a, v) ==
    /\ install = NoInstall /\ a \in advice
    /\ \/ a.act \in {"set_default", "add_target", "name"}
       \/ a.act = "select" /\ Supports(v)
    /\ vm' = v /\ advice' = advice \ {a}
    /\ UNCHANGED <<host, flow, programs, working, plugins, serving, install, report, rounds,
                   mishaps>>

EnableProvider(a) ==
    /\ install = NoInstall /\ a \in advice /\ a.act = "enable"
    /\ Supports(a.what)
    /\ working' = working \cup {a.what} /\ advice' = advice \ {a}
    /\ UNCHANGED <<host, flow, programs, vm, plugins, serving, install, report, rounds, mishaps>>

InstallPlugin(a) ==
    /\ install = NoInstall /\ a \in advice /\ a.act = "plugin"
    /\ Installed("vagrant")
    /\ plugins' = plugins \cup {a.what} /\ advice' = advice \ {a}
    /\ UNCHANGED <<host, flow, programs, vm, working, serving, install, report, rounds, mishaps>>

\* The report shows what the runtime needs next to the advice to start one.
StartRuntime(a, r) ==
    /\ install = NoInstall /\ a \in advice /\ a.act = "serve"
    /\ Compatible(r)
    /\ programs' = programs \cup RuntimePrerequisites(r)
    /\ serving' = serving \cup {r} /\ advice' = advice \ {a}
    /\ UNCHANGED <<host, flow, vm, working, plugins, install, report, rounds, mishaps>>

(***************************************************************************)
(* What breaks meanwhile; the user then starts over                        *)
(***************************************************************************)
Mishap ==
    /\ mishaps < MaxMishaps /\ install = NoInstall
    /\ mishaps' = mishaps + 1
    /\ report' = NoReport /\ advice' = {} /\ rounds' = 0
    /\ \/ \E x \in programs : programs' = programs \ {x} /\ UNCHANGED <<vm, working, plugins, serving>>
       \/ \E v \in working : working' = working \ {v} /\ UNCHANGED <<programs, vm, plugins, serving>>
       \/ plugins' = {} /\ UNCHANGED <<programs, vm, working, serving>>
       \/ \E r \in serving : serving' = serving \ {r} /\ UNCHANGED <<programs, vm, working, plugins>>
       \/ flow = "local_vm" /\ \E v \in VmProvider \cup NoTarget :
              vm' = v /\ UNCHANGED <<programs, working, plugins, serving>>
    /\ UNCHANGED <<host, flow, install>>

ToolInit ==
    /\ host \in Hosts /\ flow \in Flows
    /\ programs \in AtFirst
    /\ IF flow = "local_vm"
       THEN vm \in VmProvider \cup NoTarget /\ working \in {{}, {v \in VmProvider : Supports(v)}}
       ELSE vm = "none" /\ working = {}
    /\ plugins = {}
    /\ IF flow = "local_runtime" THEN serving \in Serving ELSE serving = {}
    /\ install = NoInstall /\ report = NoReport /\ advice = {} /\ rounds = 0 /\ mishaps = 0

Candidates == Required(flow) \cup UNION AnyOf(flow)

ToolNext ==
    \/ \E kind \in {"doctor", "matrix"} : Ask(kind)
    \/ \E t \in Candidates : BeginInstall(t) \/ FollowNote(t)
    \/ \E ok \in BOOLEAN : RunCommand(ok)
    \/ InstallEnds
    \/ \E a \in advice :
          \/ \E v \in VmProvider : NameProvider(a, v)
          \/ EnableProvider(a) \/ InstallPlugin(a)
          \/ \E r \in WorkflowRuntime : StartRuntime(a, r)
    \/ Mishap

\* Who carries out everything a report says, and asks again, is done after
\* three rounds: advice never leads to a host that is still not ready and never
\* ends without something to do, whatever target, provider, plugin and program
\* was missing at first.
AdviceConverges ==
    /\ rounds = Enough => report.ready
    /\ ~report.ready => report.advised
=============================================================================
