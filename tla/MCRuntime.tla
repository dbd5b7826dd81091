----------------------------- MODULE MCRuntime -----------------------------
(* A behaviour is about the servers of a stack, about preparing a host for *)
(* a workflow, or about the first commands of a new profile.               *)
EXTENDS Runtime, Toolchain, Quickstart, TLC

CONSTANTS c1, c2, p1, p2, f1, f2

VARIABLE topic

On(p, m) == [platform |-> p, mode |-> m]

\* Every platform, and every way pip may miss the PATH.
MCHosts == {On("ubuntu", "system"), On("ubuntu", "venv"), On("debian", "docker"),
            On("fedora", "conda"), On("fedora", "system"), On("macos", "system"),
            On("windows", "system"), On("arch", "system")}
MCFlows == {"local_runtime", "local_container", "local_vm", "remote_workstation", "cloud_vm",
            "cloud_kubernetes", "quality", "benchmark_quality", "benchmark_serving"}
MCAtFirst == {{}, {"vagrant"}, {"openssh-client", "docker", "curl"}}
MCServing == {{}, {"ollama"}, {"mlx", "lmstudio"}}

Plain == [whole |-> TRUE, dry |-> FALSE, overwrite |-> FALSE, discovery |-> FALSE,
          closest |-> FALSE, disableNew |-> FALSE, pull |-> "none"]
Full == [Plain EXCEPT !.discovery = TRUE, !.closest = TRUE, !.pull = "own"]
MCAsks == {Plain, Full, [Full EXCEPT !.dry = TRUE], [Full EXCEPT !.dry = TRUE, !.overwrite = TRUE],
           [Plain EXCEPT !.overwrite = TRUE], [Full EXCEPT !.whole = FALSE, !.disableNew = TRUE],
           [Plain EXCEPT !.pull = "unknown"], [Plain EXCEPT !.dry = TRUE, !.pull = "managed"]}

\* The parts a behaviour is not about have one initial state.
ServersRest == mode = "lmstudio" /\ ~orchestrated /\ port = None /\ ~installed /\ ~pulled
HostRests == host = On("ubuntu", "system") /\ flow = "quality" /\ programs = {}
QuickstartRests == ~dir.there /\ ask = Plain

\* Of the runtimes with a PID file, one has a stack with packages; two, which differ
\* from the others in what install and pull do, begin with nothing prepared.
MCStacks ==
    /\ orchestrated => mode \in {"docker", "library", "transformers", "runner"}
    /\ mode \in {"gguf", "localai"} => ~installed /\ ~pulled

MCInit ==
    /\ topic \in {"servers", "host", "quickstart"}
    /\ Init /\ MCStacks /\ (topic # "servers" => ServersRest)
    /\ ToolInit /\ (topic # "host" => HostRests)
    /\ QsInit /\ (topic # "quickstart" => QuickstartRests)

MCNext ==
    /\ UNCHANGED topic
    /\ \/ topic = "servers" /\ Next /\ UNCHANGED <<toolVars, qsVars>>
       \/ topic = "host" /\ ToolNext /\ UNCHANGED <<vars, qsVars>>
       \/ topic = "quickstart" /\ QsNext /\ UNCHANGED <<vars, toolVars>>

MCSpec == MCInit /\ [][MCNext]_<<topic, vars, toolVars, qsVars>>

MCSymmetry == Permutations(Command) \cup Permutations(Pid)
=============================================================================
