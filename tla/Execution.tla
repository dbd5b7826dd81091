----------------------------- MODULE Execution -----------------------------
(***************************************************************************)
(* One prompt: aiplane run (Router.route), aiplane code (CodeTaskRunner)   *)
(* and endpoint chat.  The command selects an alias of the catalog, checks *)
(* it, probes the runtimes the alias supports, sends the prompt to one     *)
(* backend and records the outcome.                                        *)
(*                                                                         *)
(* While it runs, servers come, hang and go, and other commands add and    *)
(* revoke grants, which every policy check reads again.                    *)
(***************************************************************************)
EXTENDS Integers, Sequences, FiniteSets

CONSTANTS
    Model,    \* aliases
    Backend,  \* runtimes and managed services
    Rows,     \* catalog rows an alias may have
    None

\* local: the flag of the row.  curated: it is in models.yaml, not only in the
\* generated catalog.  provider: the repository's allow-list has its provider.
\* fits: the machine meets its minimums.  capable: it has a role or a score for
\* the purpose.  service: the provider of a managed-service row, or None.
\* runtimes: those a self-managed row supports, the preferred one first.
IsRow(r) ==
    /\ \A f \in {"local", "enabled", "curated", "provider", "fits", "capable"} :
          r[f] \in BOOLEAN
    /\ r.service \in Backend \cup {None}
    /\ r.runtimes \in Seq(Backend)

ASSUME ExecutionAssumption ==
    /\ \A r \in Rows : IsRow(r)
    /\ None \notin Model \cup Backend
    /\ IsFiniteSet(Model)

VARIABLES
    rows,      \* [Model -> row]
    listing,   \* the aliases in catalog order, discovered ones first
    default,   \* the default alias of each role, or None
    cloud,     \* the repository allows cloud backends
    grants,    \* overrides active for the selected alias and backend:cloud
    up,        \* backends that answer
    job,       \* the command
    events,    \* what the command appended to the audit log
    answered,  \* ghost: a backend answered the prompt
    seen       \* ghost: grants that were active while the command ran

config == <<rows, listing, default, cloud>>
ghosts == <<answered, seen>>
vars == <<config, grants, up, job, events, ghosts>>

Grant == {"model", "cloud"}
Kind == {"route", "code", "chat"}
At == {"idle", "select", "policy", "cloud", "require", "probe", "ask", "record", "end"}
Outcome == {"none", "unknown", "refused", "failed", "answered", "dry_run"}

\* unlogged: its event could not be appended.  up: the runtimes that
\* answered their probe, todo: those to probe.
Job == [kind : Kind, at : At, name : Model \cup {None}, escalate : BOOLEAN,
        secret : BOOLEAN, ignore : BOOLEAN, dry : BOOLEAN, todo : Seq(Backend),
        up : Seq(Backend), backend : Backend \cup {None}, outcome : Outcome,
        event : {"none", "allowed", "blocked", "dry_run"},
        unlogged : BOOLEAN]

TypeOK ==
    /\ rows \in [Model -> Rows]
    /\ listing \in Seq(Model)
    /\ default \in [{"managed", "local"} -> Model \cup {None}]
    /\ cloud \in BOOLEAN
    /\ grants \subseteq Grant /\ seen \subseteq Grant
    /\ up \subseteq Backend
    /\ job \in Job
    /\ events \in Seq({"allowed", "blocked", "dry_run"})
    /\ answered \in BOOLEAN

NoJob == [kind |-> "chat", at |-> "idle", name |-> None, escalate |-> FALSE,
          secret |-> FALSE, ignore |-> FALSE, dry |-> FALSE, todo |-> <<>>,
          up |-> <<>>, backend |-> None, outcome |-> "none", event |-> "none",
          unlogged |-> FALSE]

Listings ==
    {s \in [1..Cardinality(Model) -> Model] :
        \A i, j \in DOMAIN s : i < j =>
            s[i] # s[j] /\ (rows[s[j]].curated \/ ~rows[s[i]].curated)}

Init ==
    /\ rows \in [Model -> Rows]
    /\ listing \in Listings
    /\ default \in [{"managed", "local"} -> Model \cup {None}]
    /\ cloud \in BOOLEAN
    /\ grants = {} /\ seen = {}
    /\ up = {}
    /\ job = NoJob
    /\ events = <<>>
    /\ answered = FALSE

Begin ==
    \E kind \in Kind, name \in Model \cup {None}, flags \in [1..4 -> BOOLEAN] :
        /\ job.at = "idle"
        /\ kind # "route" => name # None /\ ~(flags[1] \/ flags[2] \/ flags[3])
        /\ job' = [NoJob EXCEPT !.kind = kind, !.name = name, !.escalate = flags[1],
                     !.secret = flags[2], !.ignore = flags[3], !.dry = flags[4],
                     !.at = IF kind = "route" THEN "select" ELSE "require"]
        /\ UNCHANGED <<config, grants, up, events, ghosts>>

-----------------------------------------------------------------------------
(* Router: the alias and the checks before the prompt leaves.              *)

row == rows[job.name]

\* An exception after the outcome is known: the event is appended first.
Ended(outcome, event) ==
    job' = [job EXCEPT !.outcome = outcome, !.event = event,
                       !.at = IF event = "none" THEN "end" ELSE "record"]

Block == Ended("refused", "blocked")

\* The first enabled alias in catalog order with such a flag, if there is one.
Enabled(local) ==
    LET fit == {i \in DOMAIN listing : rows[listing[i]].enabled /\ rows[listing[i]].local \in local}
    IN  {listing[i] : i \in {i \in fit : \A j \in fit : i <= j}}

\* The default of a role, when its alias is enabled and of that kind.
DefaultOf(role, local) ==
    {m \in {default[role]} \ {None} : rows[m].enabled /\ rows[m].local = local}

Else(found, other) == IF found # {} THEN found ELSE other

\* The alias a route without a name takes.
SelectModel ==
    Else(IF job.escalate THEN Else(DefaultOf("managed", FALSE), Enabled({FALSE})) ELSE {},
         Else(DefaultOf("local", TRUE), Else(Enabled({TRUE}), Enabled({TRUE, FALSE}))))

Select ==
    LET choice == IF job.name = None THEN SelectModel
                  ELSE IF row.enabled THEN {job.name} ELSE {}
    IN
    /\ job.at = "select"
    /\ \/ job.escalate /\ job.secret /\ Block
       \/ /\ ~(job.escalate /\ job.secret)
          /\ IF choice = {} THEN Ended("unknown", "none")
             ELSE \E m \in choice : job' = [job EXCEPT !.name = m, !.at = "policy"]
    /\ grants' \in SUBSET Grant  \* nothing has looked at them before
    /\ seen' = grants'
    /\ UNCHANGED <<config, up, events, answered>>

\* PolicyEngine._model_base knows the curated rows only.
ModelBase(m) ==
    LET r == rows[m] IN r.curated /\ r.enabled /\ r.provider /\ (r.local \/ cloud)

CheckModelPolicy ==
    /\ job.at = "policy"
    /\ IF \/ ~(ModelBase(job.name) \/ "model" \in grants)
          \/ row.local /\ ~job.ignore /\ ~row.fits
       THEN Block
       ELSE job' = [job EXCEPT !.at = "cloud"]
    /\ UNCHANGED <<config, grants, up, events, ghosts>>

\* A dry run is recorded as allowed.
Admit == IF job.dry THEN Ended("dry_run", "allowed")
         ELSE job' = [job EXCEPT !.at = "require"]

\* The secret is looked for only where an escalation was asked for.
CheckCloudPolicyOnly ==
    /\ job.at = "cloud"
    /\ IF ~row.local /\ ~(cloud \/ "cloud" \in grants) THEN Block ELSE Admit
    /\ UNCHANGED <<config, grants, up, events, ghosts>>

CheckCloudAllowed ==
    /\ job.at = "cloud"
    /\ IF ~row.local /\ (job.secret \/ ~(cloud \/ "cloud" \in grants))
       THEN Block ELSE Admit
    /\ UNCHANGED <<config, grants, up, events, ghosts>>

-----------------------------------------------------------------------------
(* ModelExecution.complete.                                                *)

\* An error of the call is recorded by a route only.
CallFails ==
    job' = [job EXCEPT !.outcome = "failed",
                       !.event = IF job.kind = "route" THEN "blocked" ELSE "none",
                       !.at = IF job.kind = "route" THEN "record" ELSE "end"]

Backends == {row.runtimes[i] : i \in DOMAIN row.runtimes} \cup ({row.service} \ {None})

\* Code tasks and chat come here first and check nothing else.  A managed row
\* must not name runtimes.
RequireExecutionCapability ==
    /\ job.at = "require"
    /\ IF ~row.capable \/ (row.service # None /\ row.runtimes # <<>> /\ ~job.dry)
       THEN CallFails
       ELSE IF job.dry
       THEN Ended("dry_run", IF job.kind = "code" THEN "dry_run" ELSE "none")
       ELSE job' = [job EXCEPT !.at = IF row.service = None THEN "probe" ELSE "ask",
                               !.backend = row.service, !.todo = row.runtimes]
    /\ up' \in SUBSET Backends  \* nothing has looked at them before
    /\ UNCHANGED <<config, grants, events, ghosts>>

\* Every supported runtime is probed; one that hangs times out.
RuntimeAvailable ==
    /\ job.at = "probe" /\ job.todo # <<>>
    /\ LET b == Head(job.todo) IN
       job' = [job EXCEPT !.todo = Tail(@),
                          !.up = IF b \in up THEN Append(@, b) ELSE @]
    /\ UNCHANGED <<config, grants, up, events, ghosts>>

SelectRuntime ==
    /\ job.at = "probe" /\ job.todo = <<>>
    /\ IF job.up = <<>> THEN CallFails
       ELSE job' = [job EXCEPT !.at = "ask", !.backend = Head(job.up)]
    /\ UNCHANGED <<config, grants, up, events, ghosts>>

Answer == Ended("answered", IF job.kind = "chat" THEN "none" ELSE "allowed")

\* The event is appended before the call, as if the answer were certain.
ChatRecordedFirst ==
    /\ job.at = "ask"
    /\ \/ job.backend \in up /\ Answer /\ answered' = TRUE
       \/ Answer /\ UNCHANGED answered
    /\ UNCHANGED <<config, grants, up, events, seen>>

\* The server answers, refuses or reports an error, or the request times out.
Chat ==
    /\ job.at = "ask"
    /\ \/ job.backend \in up /\ Answer /\ answered' = TRUE
       \/ CallFails /\ UNCHANGED answered
    /\ UNCHANGED <<config, grants, up, events, seen>>

\* AuditLogger.record raises when the log cannot be locked or written: the
\* command fails although the model has answered.
Record ==
    /\ job.at = "record"
    /\ \/ events' = Append(events, job.event) /\ job' = [job EXCEPT !.at = "end"]
       \/ job' = [job EXCEPT !.at = "end", !.unlogged = TRUE]
          /\ UNCHANGED events
    /\ UNCHANGED <<config, grants, up, ghosts>>

-----------------------------------------------------------------------------
(* The environment.                                                        *)

ServerChanges ==
    /\ job.at \in {"probe", "ask"}
    /\ up' \in SUBSET Backends
    /\ UNCHANGED <<config, grants, job, events, answered, seen>>

\* Another command adds or revokes an override, or one expires.
GrantsChange ==
    /\ job.at \in {"policy", "cloud"}
    /\ grants' \in SUBSET Grant
    /\ seen' = seen \cup grants'
    /\ UNCHANGED <<config, up, job, events, answered>>

\* The command returns, or its process dies at any point.
Over ==
    /\ job.at # "idle"
    /\ job' = NoJob /\ events' = <<>> /\ answered' = FALSE
    /\ grants' = {} /\ seen' = {} /\ up' = {}
    /\ UNCHANGED config

Runs ==
    \/ Select \/ CheckModelPolicy \/ CheckCloudAllowed
    \/ RequireExecutionCapability \/ RuntimeAvailable \/ SelectRuntime \/ Chat
    \/ Record

Next == Begin \/ Runs \/ ServerChanges \/ GrantsChange \/ Over

Spec == Init /\ [][Next]_vars

-----------------------------------------------------------------------------
(* Properties.                                                             *)

\* Router: however the alias of a route was found (by name, default, order or
\* escalation), a backend gets the prompt only when the alias is enabled, its
\* policy or a grant seen during the command allows it, the machine fits or the
\* check was waived, and a prompt with a secret stays with rows marked local.
OnlyAdmitted ==
    job.kind = "route" /\ (job.at = "ask" \/ answered) =>
        /\ row.enabled
        /\ ModelBase(job.name) \/ "model" \in seen
        /\ row.local \/ (~job.secret /\ (cloud \/ "cloud" \in seen))
        /\ row.local /\ ~row.fits => job.ignore

\* The event a command owes the log for what happened at the backend.
Due ==
    IF job.kind = "chat" THEN "none"
    ELSE IF answered THEN "allowed"
    ELSE IF job.outcome = "dry_run" THEN IF job.kind = "code" THEN "dry_run" ELSE "allowed"
    ELSE IF job.kind = "route" /\ job.outcome # "unknown" THEN "blocked" ELSE "none"

\* Audit: a command that ended with a writable log has recorded exactly what
\* happened at the backend: an answer as allowed, once; a route that selected
\* an alias and got no answer as blocked, once; nothing else but dry runs.  An
\* event is never there before its cause.
AuditTruth ==
    /\ Len(events) <= 1
    /\ events = <<"allowed">> => answered \/ job.dry
    /\ job.at = "end" /\ ~job.unlogged =>
         events = IF Due = "none" THEN <<>> ELSE <<Due>>

=============================================================================
