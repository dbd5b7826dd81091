---------------------------- MODULE AgentArtifacts ----------------------------
(***************************************************************************)
(* What aiplane hands to an agent framework: the environment manifest of a *)
(* stack, a job for some of its roles, and the bundle of both with their   *)
(* checksums (AgentManager); and the checksummed record of one model       *)
(* decision (ModelHandoffManager).  A bundle is printed into a file, which *)
(* people copy, mix and edit before it is validated.                       *)
(*                                                                         *)
(* A checksum is the value it was taken of: equal checksums mean equal     *)
(* values.                                                                 *)
(***************************************************************************)
EXTENDS Stacks

CONSTANTS
    Task,       \* tasks of a job that pass the checks on length and secrets
    Targets,    \* lists of roles a job is given; the empty one means all roles
    MaxRenders  \* bound on the bundles rendered

VARIABLES
    rendered,   \* bundles and records that were rendered
    file        \* the file that is validated, or None

agentVars == <<rendered, file>>
artVars == <<intVars, stackVars, agentVars>>

ASSUME TargetsAssumption == Targets \subseteq Seq(STRING) /\ None # "langgraph"

SetOf(seq) == {seq[i] : i \in DOMAIN seq}

(***************************************************************************)
(* manifest, job, handoff                                                  *)
(***************************************************************************)
\* A role keeps the binding of the stack and gets its model from the catalog.
ManifestRole(b) == [binding |-> b, is |-> models[b.model], key |-> KeyEnvFor(models[b.model].provider)]

\* Limits that no guardrail can count are refused when the contract is made.
ManifestWorks(s) ==
    /\ PlanWorks(s) /\ s.limits
    /\ \A role \in DOMAIN RolePlan(s) : RolePlan(s)[role].model \in Known

\* The default of the command is the framework of a stack without orchestrator.
Framework(s) == IF s.orchestrator = None THEN "langgraph" ELSE s.orchestrator

Manifest(s) ==
    [stack |-> s.model, framework |-> Framework(s), limits |-> s.limits,
     roles |-> [role \in DOMAIN RolePlan(s) |-> ManifestRole(RolePlan(s)[role])]]

TargetRoles(env, roles) == IF roles = <<>> THEN DOMAIN env.roles ELSE SetOf(roles)

JobWorks(env, roles) ==
    /\ SetOf(roles) \subseteq DOMAIN env.roles
    /\ Cardinality(SetOf(roles)) = Len(roles)

\* The job refers to its environment by name, stack, framework and checksum.
Reference(env) == [stack |-> env.stack, framework |-> env.framework]

Job(env, task, roles) ==
    [task |-> task, roles |-> TargetRoles(env, roles), refers |-> Reference(env), sha |-> env]

\* Without its name and notes, which validation does not look at.
Bundle(env, job) ==
    [kind |-> "agent_handoff", environment |-> env, job |-> job,
     environment_sha |-> env, job_sha |-> job]

\* Nothing that is rendered depends on the servers, on what is installed, on the
\* grants or on what the last command printed: one state of them stands for all.
\* A stack whose machine is not registered is refused.
Bare ==
    /\ machine = <<{}, {}, {}>> /\ machines = Machine
    /\ granted = {} /\ out = Nothing /\ file = None

Handoff(task, roles) ==
    /\ Bare /\ stack # None /\ ManifestWorks(stack)
    /\ JobWorks(Manifest(stack), roles)
    /\ Cardinality(rendered) < MaxRenders
    /\ rendered' = rendered \cup {Bundle(Manifest(stack), Job(Manifest(stack), task, roles))}
    /\ UNCHANGED <<intVars, stackVars, file>>

\* models handoff-plan: one alias on one runtime, with the plan of a client.
ModelHandoff(a, r) ==
    LET flags == [tool |-> "continue", model |-> a, chat |-> a, runtime |-> r, best |-> FALSE,
                  remote |-> FALSE, api |-> None]
        payload == [alias |-> a, runtime |-> r, is |-> models[a], client |-> PlanFor(flags)]
    IN /\ Bare /\ Idle /\ Compatible(a, r) /\ CanPlan(flags)
       /\ Cardinality(rendered) < MaxRenders
       /\ rendered' = rendered \cup {[kind |-> "model_handoff", payload |-> payload,
                                      sha |-> payload]}
       /\ UNCHANGED <<intVars, stackVars, file>>

(***************************************************************************)
(* Files, and their validation                                             *)
(***************************************************************************)
Bundles == {b \in rendered : b.kind = "agent_handoff"}
Records == {b \in rendered : b.kind = "model_handoff"}

\* What an editor makes of one part: other limits, another task, no roles.
EditedEnvironment(env) == {[env EXCEPT !.limits = ~@], [env EXCEPT !.framework = None]}
EditedJob(job) == {[job EXCEPT !.task = t] : t \in Task} \cup {[job EXCEPT !.roles = {}]}

\* The parts of the file come from any of the bundles, and one may be edited.
Mixed ==
    /\ file = None
    /\ \E x, y \in Bundles :
          \E parts \in {<<x.environment, y.job>>}
                        \cup {<<env, y.job>> : env \in EditedEnvironment(x.environment)}
                        \cup {<<x.environment, job>> : job \in EditedJob(y.job)},
             s, t \in {x, y} :
             file' = [Bundle(parts[1], parts[2]) EXCEPT !.environment_sha = s.environment,
                                                        !.job_sha = t.job]
    /\ UNCHANGED <<intVars, stackVars, rendered>>

MixedRecord ==
    /\ file = None
    /\ \E x, y \in Records :
          file' \in {[kind |-> "model_handoff", payload |-> p, sha |-> y.payload] :
                        p \in {x.payload, [x.payload EXCEPT !.runtime = None]}}
    /\ UNCHANGED <<intVars, stackVars, rendered>>

ValidEnvironment(env) == env.stack # None /\ DOMAIN env.roles # {} /\ env.limits
ValidJob(job) == job.task \in Task /\ job.roles # {} /\ job.refers.framework # None

\* A bug: the job may have been rendered for another environment.
ValidHandoffOfParts(b) ==
    /\ ValidEnvironment(b.environment)
    /\ ValidJob(b.job)
    /\ b.job.refers = Reference(b.environment)
    /\ b.environment_sha = b.environment
    /\ b.job_sha = b.job

ValidHandoff(b) ==
    /\ ValidEnvironment(b.environment)
    /\ ValidJob(b.job)
    /\ b.job.refers = Reference(b.environment)
    /\ b.environment_sha = b.environment
    /\ b.job_sha = b.job
    /\ b.job.sha = b.environment

ValidRecord(b) == b.sha = b.payload

Validates(b) == IF b.kind = "agent_handoff" THEN ValidHandoff(b) ELSE ValidRecord(b)

ArtInit == IntInit /\ StackInit /\ rendered = {} /\ file = None

\* A saved plan or a setup, a stack, bundles and a file: one stage at a time.  Once
\* the last bundle is rendered nothing it was rendered from matters any more.
ArtNext ==
    \/ /\ stack = None /\ rendered = {} /\ granted = {}
       /\ IntCommands /\ UNCHANGED <<stackVars, agentVars>>
    \/ /\ file = None /\ ((IntChanges /\ UNCHANGED stackVars) \/ StackNext) /\ UNCHANGED agentVars
       /\ stack # None \/ rendered # {} => Idle
       /\ rendered # {} => Bare'
       /\ Cardinality(rendered) < MaxRenders
    \/ \E task \in Task, roles \in Targets : Handoff(task, roles)
    \/ \E a \in Alias, r \in Runtime : ModelHandoff(a, r)
    \/ Mixed
    \/ MixedRecord

ArtSpec == ArtInit /\ [][ArtNext]_artVars

\* manual-test-checklist.md:655: "The handoff embeds both environment and job
\* records with matching checksums; validation fails after either record is
\* edited."  A file validates exactly when its records and checksums are those
\* of one command, also when its parts come from bundles of the same stack at two
\* moments.
ValidExactlyWhenRendered == file # None => (Validates(file) <=> file \in rendered)
=============================================================================
