-------------------------------- MODULE Stacks --------------------------------
(***************************************************************************)
(* Stacks: a stored choice of machine, runtime and model, with the models  *)
(* of the roles of an orchestrator (StackManager, StackRolePlanner).       *)
(* setup checks the choice and stores it; plan, doctor, status and export  *)
(* read it later, under the catalog, the policy and the servers of then.   *)
(* What prepare, start and stop do to a server is in Runtime.              *)
(*                                                                         *)
(* A stack and a saved integration plan do not meet: one of them is there  *)
(* at a time.                                                              *)
(***************************************************************************)
EXTENDS Integrations

CONSTANTS
    Machine,        \* machines that can be registered
    Fits,           \* pairs of machine and alias that are not "not recommended"
    Orchestrator,   \* orchestrators with a definition
    BundleModes,    \* [Runtime -> the packages of PackedArtifact it has a mode for]
    Surroundings,   \* what a doctor may see, see Around
    Grants,         \* grants that may be in force, see granted
    Unreadable,     \* grants that cannot be read
    Wanted          \* the flags stacks setup is given, see Request

\* limits: the limits can be counted by a guardrail.  remote: reached through a
\* tunnel, at the endpoint that is given.
Request == [machine : Machine, runtime : Runtime, model : Alias,
            orchestrator : Orchestrator \cup {None}, remote : BOOLEAN,
            roles : UNION {[R -> Alias] : R \in SUBSET {"planner", "coder"}},
            limits : BOOLEAN]

PackedArtifact == {"dockerfile", "conda-yaml"}

\* mode: the active environment mode is one of those configured.  tools,
\* prerequisites: none is missing.  fit: how the aliases fit the machine.
\* tunnel: the SSH targets, "none", one that has no plan, or one without ssh.
\* quiet: no check of a stack's doctor that only warns finds anything.
Around == [mode : BOOLEAN, tools : BOOLEAN, prerequisites : BOOLEAN, machine : BOOLEAN,
           fit : {"no", "below recommended", "yes"}, quiet : BOOLEAN,
           tunnel : {"none", "no plan", "no ssh", "ready"}, providers : SUBSET Provider]

ASSUME WantedAssumption ==
    /\ Wanted \subseteq Request
    /\ Surroundings \subseteq Around
    /\ Grants \subseteq SUBSET (Alias \cup {"cloud"}) \cup {Unreadable}
    /\ BundleModes \in [Runtime -> SUBSET PackedArtifact]

VARIABLES
    machines,       \* registered machines
    stack,          \* the stored stack, or None
    granted         \* aliases, and "cloud", with an override in force, or Unreadable

stackVars == <<machines, stack, granted>>

Idle == plan = None /\ setup = None

(***************************************************************************)
(* setup                                                                   *)
(***************************************************************************)
Managed(a) == models[a].provider \notin Runtime

\* validate_model_runtime: the alias is known, its model is not a managed
\* service, and the runtime is among those it supports.
Compatible(a, r) ==
    a \in Known /\ ~Managed(a) /\ \E i \in DOMAIN Supported(a) : Supported(a)[i] = r

\* A managed model is bound to its provider, any other to the runtime of its own
\* row, whatever the stack's is.  The binding is a copy: it keeps what the catalog
\* says today.
Binding(a, q) ==
    LET r == IF Managed(a) THEN models[a].provider ELSE models[a].home
    IN [model |-> a, provider |-> models[a].provider, managed |-> Managed(a), runtime |-> r,
        endpoint |-> IF q.remote THEN Remote ELSE EndpointForProvider(r)]

NormalizeRoles(q) == [role \in DOMAIN q.roles |-> Binding(q.roles[role], q)]

SetupAccepts(q) ==
    /\ q.machine \in machines
    /\ Compatible(q.model, q.runtime)
    /\ \A role \in DOMAIN q.roles : q.roles[role] \in Known

StoredAs(q) ==
    [machine |-> q.machine, runtime |-> q.runtime, model |-> q.model,
     orchestrator |-> q.orchestrator, remote |-> q.remote, roles |-> NormalizeRoles(q),
     limits |-> q.limits]

\* A dry run answers with what it would store.
StackSetup(q, dry) ==
    /\ Idle /\ SetupAccepts(q)
    /\ stack' = IF dry THEN stack ELSE StoredAs(q)
    /\ out' = Nothing
    /\ UNCHANGED <<catalog, machine, plan, setup, machines, granted>>

(***************************************************************************)
(* plan, doctor                                                            *)
(***************************************************************************)
EndpointOf(s) == IF s.remote THEN Remote ELSE EndpointForProvider(s.runtime)

\* Without roles the stack has one, bound to its own model.
RolePlan(s) ==
    IF s.roles # <<>> THEN s.roles
    ELSE [role \in {"primary"} |->
             [model |-> s.model, provider |-> models[s.model].provider,
              managed |-> Managed(s.model), runtime |-> s.runtime,
              endpoint |-> EndpointOf(s)]]

\* The model and the machine must still be there.
PlanWorks(s) == s.model \in Known /\ s.machine \in machines

\* A bug: only the name of the model is looked up.
EvidenceOfKnown(s) == s.model \in Known

\* artifact_lock and launch_manifest raise, and the plan keeps the reason.
EvidenceRendered(s) == Compatible(s.model, s.runtime)

\* What the policy answers when it is asked for a decision: an override lifts a
\* refusal of the action it names and of no other, a disabled model included, and
\* grants that cannot be read refuse everything.
Overridden == IF granted = Unreadable THEN {} ELSE granted

CloudDecision == granted # Unreadable /\ (cloud \/ "cloud" \in Overridden)

ModelDecision(a) ==
    /\ granted # Unreadable
    /\ a \in Overridden \/ (models[a].enabled /\ Allowed(a))

RoleChecks(b) ==
    /\ b.model \in Known
    /\ models[b.model].enabled
    /\ ModelDecision(b.model)
    /\ b.runtime \in Runtime \/ b.managed
    /\ b.managed => b.endpoint # None

\* A stack behind a tunnel needs a target with a plan.
TunnelReady(s, h) == s.remote => h.tunnel \in {"no ssh", "ready"}

\* No check fails, those that only warn left out: ports in use, the controls of
\* the endpoint, risky tools, the cache and the controls a framework enforces.
DoctorPasses(s, h) ==
    /\ PlanWorks(s)
    /\ <<s.machine, s.model>> \in Fits
    /\ EvidenceRendered(s)
    /\ s.runtime \in up
    /\ h.prerequisites /\ TunnelReady(s, h)
    /\ \A role \in DOMAIN RolePlan(s) : RoleChecks(RolePlan(s)[role])

(***************************************************************************)
(* export                                                                  *)
(***************************************************************************)
ClientArtifact == {"continue", "openai-compatible"}
MetadataArtifact == {"compose", "framework"}

\* A package is written for a mode the runtime has, and for an id that may stand
\* in a file of commands.
Packs(s, artifact) == artifact \in BundleModes[s.runtime] /\ models[s.model].safe

\* A client configuration goes through the export of the integrations, with the
\* endpoint of the stack; the others carry the stack's metadata, its machine
\* included, and ask no policy.
StackExport(s, artifact) ==
    CASE ~Compatible(s.model, s.runtime) -> Refused
      [] artifact \in ClientArtifact /\ Compatible(s.model, s.runtime) ->
            ExportFor([tool |-> artifact, model |-> s.model, chat |-> None, runtime |-> None,
                       best |-> FALSE, remote |-> TRUE, api |-> None])
      [] OTHER -> IF (artifact \in PackedArtifact => Packs(s, artifact)) /\ s.machine \in machines
                  THEN Printed({Entry([name |-> s.model, provider |-> models[s.model].provider,
                                       endpoint |-> EndpointOf(s), key |-> None], None)})
                  ELSE Refused

(***************************************************************************)
(* What changes next to a stack                                            *)
(***************************************************************************)
MachineChanges(m) ==
    /\ Idle
    /\ machines' = (machines \ {m}) \cup ({m} \ machines)
    /\ UNCHANGED <<intVars, stack, granted>>

\* Someone starts a server; a one-model server with the model of his choice.
ServerStarts(r) ==
    /\ Idle /\ r \in installed \ up
    /\ up' = up \cup {r} /\ out' = Nothing
    /\ \E a \in Alias :
          present' = IF r \in OneModel THEN (present \ ({r} \X Alias)) \cup {<<r, a>>}
                     ELSE present
    /\ UNCHANGED <<catalog, installed, plan, setup, stackVars>>

\* Overrides are granted, revoked and expire; their file can be spoiled.
GrantsChange(g) ==
    /\ Idle
    /\ granted' = g
    /\ UNCHANGED <<intVars, machines, stack>>

StackInit == machines = Machine /\ stack = None /\ granted = {}

StackNext ==
    \/ \E q \in Wanted, dry \in BOOLEAN : StackSetup(q, dry)
    \/ \E m \in Machine : MachineChanges(m)
    \/ \E r \in Runtime : ServerStarts(r)
    \/ \E g \in Grants : GrantsChange(g)

\* What a stack can be exported as: a package only in a mode of its runtime.
Artifacts(s) ==
    ClientArtifact \cup MetadataArtifact
        \cup (IF models[s.model].safe THEN BundleModes[s.runtime] ELSE {})

\* A stack whose doctor finds nothing to repair can be exported as everything its
\* runtime can be packed as, as long as its own model is among those of its roles
\* and owes its place to no override: the doctor asks the policy of the roles
\* only, and an export asks it without the grants.
PassedStackExports ==
    stack # None => \A h \in Surroundings :
        (/\ DoctorPasses(stack, h)
         /\ stack.model \notin Overridden
         /\ stack.model \in {RolePlan(stack)[role].model : role \in DOMAIN RolePlan(stack)})
            => \A artifact \in Artifacts(stack) : StackExport(stack, artifact) # Refused
=============================================================================
