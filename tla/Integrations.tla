---------------------------- MODULE Integrations ----------------------------
(***************************************************************************)
(* What aiplane prints for other programs: integrations plan, export,      *)
(* export --from-plan and setup (IntegrationManager).  A plan selects an   *)
(* alias for each role the tool needs, and may be saved; an export turns a *)
(* selection into the configuration of the tool; a setup installs and      *)
(* starts the selected runtimes and pulls the selected models.             *)
(*                                                                         *)
(* Between two commands the catalog, the policy and the servers change.    *)
(* A direct export and a setup neither read nor write the saved plan: they *)
(* are looked at while none is saved.                                      *)
(***************************************************************************)
EXTENDS Naturals, Sequences, FiniteSets

CONSTANTS
    Alias,      \* aliases of the catalog
    Names,      \* the aliases in the order of their names
    Rows,       \* catalog rows an alias may have
    Provider,   \* entries of the provider list
    Runtime,    \* self-managed runtimes with a server
    Keyed,      \* providers with a credential
    ApisOf,     \* [Provider -> the APIs it declares or has by default]
    OneModel,   \* runtimes whose server lists the one model it was started with
    Pulls,      \* [Runtime -> sources it can pull from]
    Defaults,   \* [default role -> alias or None]
    Asked,      \* the flags commands are given, see Flag
    MaxEdits,   \* bound on the edits of catalog and policy
    None

API == {"responses", "chat_completions", "messages"}
HostTools == {"codex", "copilot-cli", "copilot-vscode"}
McpTools == {"generic-mcp", "vscode-mcp", "continue-mcp", "cline-mcp"}
Tools == {"continue", "cline", "zed", "aider", "openai-compatible"} \cup HostTools \cup McpTools
Remote == "given"  \* the endpoint of --endpoint, on another host

\* tool, model and chat are --model and --chat; best stands for --select-best,
\* --provider and --capability, remote for --endpoint, api for --api-type.
Flag == [tool : Tools, model : Alias \cup {None}, chat : Alias \cup {None},
          runtime : Runtime \cup {None}, best : BOOLEAN, remote : BOOLEAN,
          api : API \cup {None}]

\* roles: what the row is listed for; able: the roles whose capabilities all
\* score at least 1, and score their sum.  source is where the weights come from,
\* url that the model id is the address of a GGUF file, home the runtime the model
\* prefers or its provider has, safe that its id may stand in a package.
ASSUME AskedAssumption == Asked \subseteq Flag /\ None \notin Alias

VARIABLES
    models,     \* [Alias -> row or None]
    denied,     \* providers outside the repository's allow-list
    cloud,      \* the repository allows cloud backends
    up,         \* runtimes whose server answers
    installed,  \* runtimes that are installed
    present,    \* <<provider, alias>>: listed as usable, once the provider answers
    plan,       \* the saved plan, or None
    setup,      \* the setup that runs, or None
    out,        \* what the last command printed
    edits       \* edits made so far

catalog == <<models, denied, cloud, edits>>
machine == <<up, installed, present>>
intVars == <<catalog, machine, plan, setup, out>>

Known == {a \in Alias : models[a] # None}

Nothing == [kind |-> "nothing", entries |-> {}]
Refused == [kind |-> "refused", entries |-> {}]
Printed(entries) == [kind |-> "config", entries |-> entries]

(***************************************************************************)
(* Selection                                                               *)
(***************************************************************************)
Allowed(a) ==
    /\ models[a].provider \notin denied
    /\ models[a].local \/ cloud

\* The first of the default roles that names an alias, or the first enabled one.
FirstDefault(roles) ==
    LET named == {i \in DOMAIN roles : Defaults[roles[i]] \in Known}
        on == {i \in DOMAIN Names : Names[i] \in Known /\ models[Names[i]].enabled}
        first(S) == CHOOSE i \in S : \A j \in S : i <= j
    IN IF named # {} THEN Defaults[roles[first(named)]]
       ELSE IF on # {} THEN Names[first(on)] ELSE None

ChatDefaults == <<"chat_model", "code_model", "self_managed_model">>

DefaultFor(role) ==
    CASE role = "chat" -> FirstDefault(ChatDefaults)
      [] role = "autocomplete" ->
            FirstDefault(<<"autocomplete_model", "completion_model", "code_model">>)
      [] role = "embedding" -> FirstDefault(<<"embedding_model">>)

Supported(a) == models[a].runtimes

\* The available runtime that comes first, or just the first, or the provider.
SelectRuntime(a) ==
    LET order == Supported(a)
        answers == {i \in DOMAIN order : order[i] \in up}
    IN IF answers # {} THEN order[CHOOSE i \in answers : \A j \in answers : i <= j]
       ELSE IF order # <<>> THEN order[1] ELSE models[a].provider

\* Every candidate has the capabilities of the role; the role itself is dropped
\* when nothing is left.  The best score wins, and the last name among equals.
BestModelForRole(role, f) ==
    LET fits == {a \in Known : /\ models[a].enabled
                               /\ role \in models[a].able
                               /\ f.runtime = None \/ \E i \in DOMAIN Supported(a) :
                                                         Supported(a)[i] = f.runtime}
        listed == {a \in fits : role \in models[a].roles}
        pool == IF listed # {} THEN listed ELSE fits
        at(a) == CHOOSE i \in DOMAIN Names : Names[i] = a
        score(a) == models[a].score[role]
        beats(a, b) == score(a) > score(b) \/ (score(a) = score(b) /\ at(a) > at(b))
    IN IF pool = {} THEN None
       ELSE CHOOSE a \in pool : \A b \in pool \ {a} : beats(a, b)

EndpointForProvider(p) == p
KeyEnvFor(p) == IF p \in Keyed THEN p ELSE None

Selectable(a, f) ==
    /\ a \in Known
    /\ Allowed(a)
    /\ f.runtime = None \/ \E i \in DOMAIN Supported(a) : Supported(a)[i] = f.runtime

\* The row of a plan: its endpoint is that of the runtime, its key that of the
\* provider, its APIs those the provider declares.
SelectionRow(role, a, f) ==
    LET m == models[a]
        r == IF f.runtime # None THEN f.runtime ELSE SelectRuntime(a)
    IN [role |-> role, name |-> a, provider |-> m.provider, runtime |-> r,
        source |-> m.source, url |-> m.url,
        endpoint |-> IF f.remote THEN Remote
                     ELSE EndpointForProvider(IF r \in Provider THEN r ELSE m.provider),
        key |-> KeyEnvFor(m.provider), tools |-> m.tools, streams |-> m.streams,
        apis |-> ApisOf[m.provider]]

(***************************************************************************)
(* Targets                                                                 *)
(***************************************************************************)
\* --api-type is for the host clients; codex and the Copilots have fixed APIs.
TargetOptionsFit(f) == f.api = None \/ f.tool \in HostTools

AgentSupports(tool, row) ==
    /\ row.tools # "no"
    /\ tool = "copilot-cli" => row.streams # "no"

\* The API of a host client, or None when there is none it can use.
SelectApiType(tool, row, override) ==
    LET wanted == IF override # None THEN override
                  ELSE IF row.provider = "anthropic" THEN "messages"
                  ELSE IF tool = "codex" THEN "responses"
                  ELSE IF tool = "copilot-cli" THEN "chat_completions"
                  ELSE IF "responses" \in row.apis THEN "responses"
                  ELSE IF "chat_completions" \in row.apis THEN "chat_completions"
                  ELSE IF "messages" \in row.apis THEN "messages" ELSE None
        fits == /\ row.provider # "ollama" /\ row.apis # {} => wanted \in row.apis
                /\ tool = "codex" /\ row.provider # "ollama" => wanted = "responses"
                /\ tool = "copilot-cli" /\ row.provider \notin {"anthropic", "azure_openai"}
                      => wanted = "chat_completions"
    IN IF fits THEN wanted ELSE None

HostSupports(tool, row, override) ==
    AgentSupports(tool, row) /\ SelectApiType(tool, row, override) # None

\* The part of a configuration that comes from one row.
Entry(row, api) == [alias |-> row.name, provider |-> row.provider,
                    endpoint |-> row.endpoint, key |-> row.key, api |-> api]

\* Codex has its own Ollama provider, for the local host only.
CodexAccepts(row) == row.provider = "ollama" => row.endpoint # Remote

HostClientExport(tool, row, override) ==
    IF HostSupports(tool, row, override) /\ (tool = "codex" => CodexAccepts(row))
    THEN Printed({Entry(row, SelectApiType(tool, row, override))}) ELSE Refused

OneModelExport(row) == Printed({Entry(row, None)})
McpExport == Printed({})

(***************************************************************************)
(* plan                                                                    *)
(***************************************************************************)
Selects(f) == f.best \/ f.runtime # None

RolesOf(tool) == IF tool = "continue" THEN <<"chat", "autocomplete", "embedding">>
                 ELSE <<"chat">>

\* --chat for Continue, --model for the others, else the best or the default.
AliasFor(role, f) ==
    LET given == IF f.tool = "continue" THEN (IF role = "chat" THEN f.chat ELSE None)
                 ELSE f.model
    IN CASE given # None -> given
         [] given = None /\ Selects(f) -> BestModelForRole(role, f)
         [] OTHER -> DefaultFor(role)

PlanRows(f) == [i \in DOMAIN RolesOf(f.tool) |->
                   SelectionRow(RolesOf(f.tool)[i], AliasFor(RolesOf(f.tool)[i], f), f)]

CanPlan(f) ==
    /\ TargetOptionsFit(f)
    /\ f.tool \notin McpTools =>
          /\ f.tool # "continue" => f.chat = None
          /\ \A i \in DOMAIN RolesOf(f.tool) : Selectable(AliasFor(RolesOf(f.tool)[i], f), f)
          /\ f.tool \in HostTools => HostSupports(f.tool, PlanRows(f)[1], f.api)

\* The plan the flags give; a command that cannot make one fails.
PlanFor(f) ==
    IF f.tool \in McpTools THEN [tool |-> f.tool, api |-> None, rows |-> <<>>]
    ELSE [tool |-> f.tool, api |-> f.api, rows |-> PlanRows(f)]

Plan(f) ==
    /\ setup = None
    /\ plan' = IF CanPlan(f) THEN PlanFor(f) ELSE None
    /\ out' = IF CanPlan(f) THEN Nothing ELSE Refused
    /\ UNCHANGED <<catalog, machine, setup>>

(***************************************************************************)
(* export                                                                  *)
(***************************************************************************)
\* A bug: the roles of a plan are taken as they were checked when it was made.
ContinueExportUnchecked(p) == Printed({Entry(p.rows[i], None) : i \in DOMAIN p.rows})

\* Every role is checked again: the catalog and the policy of now, the row of
\* the plan.
ContinueExportFromPlan(p) ==
    IF \A i \in DOMAIN p.rows : p.rows[i].name \in Known /\ Allowed(p.rows[i].name)
    THEN Printed({Entry(p.rows[i], None) : i \in DOMAIN p.rows}) ELSE Refused

ExportFromPlan(p) ==
    CASE p.tool = "continue" -> ContinueExportFromPlan(p)
      [] p.tool \in McpTools -> McpExport
      [] OTHER -> IF p.rows[1].name \notin Known \/ ~Allowed(p.rows[1].name) THEN Refused
                  ELSE IF p.tool \in HostTools
                       THEN HostClientExport(p.tool, p.rows[1], p.api)
                       ELSE OneModelExport(p.rows[1])

\* The row of an export without a plan: the endpoint of the provider, the APIs
\* of the model itself when it has some.
DirectRow(a, f) ==
    LET m == models[a]
    IN [SelectionRow("chat", a, [f EXCEPT !.runtime = None]) EXCEPT
           !.endpoint = IF f.remote THEN Remote ELSE EndpointForProvider(m.provider),
           !.apis = IF m.apis # None THEN m.apis ELSE ApisOf[m.provider]]

\* The selection flags count when no model is named; then the plan is made, and
\* of it only the name is kept.
DirectAlias(f) ==
    IF f.model # None THEN f.model
    ELSE IF f.tool # "continue" /\ Selects(f)
         THEN (IF CanPlan(f) THEN PlanFor(f).rows[1].name ELSE None)
         ELSE FirstDefault(ChatDefaults)

ExportFor(f) ==
    CASE ~TargetOptionsFit(f) -> Refused
      [] f.tool \in McpTools /\ TargetOptionsFit(f) -> McpExport
      [] f.tool = "continue" /\ f.model = None /\ TargetOptionsFit(f) ->
            IF CanPlan(f) THEN ContinueExportFromPlan(PlanFor(f)) ELSE Refused
      [] OTHER ->
            LET a == DirectAlias(f)
            IN IF a \notin Known \/ (a \in Known /\ ~Allowed(a)) THEN Refused
               ELSE IF f.tool \in HostTools
                    THEN HostClientExport(f.tool, DirectRow(a, f), f.api)
                    ELSE OneModelExport(DirectRow(a, f))

Export(f) ==
    /\ setup = None /\ plan = None
    /\ out' = ExportFor(f)
    /\ UNCHANGED <<catalog, machine, plan, setup>>

ExportSaved ==
    /\ setup = None /\ plan # None
    /\ out' = ExportFromPlan(plan)
    /\ UNCHANGED <<catalog, machine, plan, setup>>

(***************************************************************************)
(* setup: for each selected role first its runtime, then its model         *)
(***************************************************************************)
\* A setup makes its own plan: the catalog before an edit stands for the one after.
SetupBegin(f) ==
    /\ setup = None /\ plan = None /\ edits = 0 /\ f.tool \notin McpTools /\ CanPlan(f)
    /\ setup' = [todo |-> PlanFor(f).rows, done |-> <<>>, asked |-> {}, forked |-> {},
                 found |-> {}, pulled |-> {}, cached |-> {}, ready |-> FALSE, clean |-> TRUE]
    /\ out' = Nothing
    /\ UNCHANGED <<catalog, machine, plan>>

\* A runtime that does not answer is installed when the helper can and started,
\* once.  Of both only the exit code is looked at: the installer's pipe may exit
\* with 0 and bring nothing, and a start forks the server and exits with 0 also
\* when there is no program to run.
SetupRuntime(install, brings, start) ==
    /\ setup # None /\ setup.todo # <<>> /\ ~setup.ready
    /\ LET row == Head(setup.todo)
           r == row.runtime
           asks == r \notin up /\ r \notin setup.asked
           installs == asks /\ r = "ollama" /\ r \notin installed
       IN /\ installed' = IF installs /\ brings THEN installed \cup {r} ELSE installed
          /\ setup' = [setup EXCEPT
                          !.ready = TRUE,
                          !.asked = IF asks THEN @ \cup {r} ELSE @,
                          !.forked = IF asks /\ start /\ r \in installed'
                                     THEN @ \cup {<<r, row.name>>} ELSE @,
                          !.clean = @ /\ (installs => install) /\ (asks => start)]
    /\ UNCHANGED <<catalog, up, present, plan, out>>

ModelPresent(a) ==
    /\ models[a].enabled
    /\ models[a].provider \in up \/ models[a].provider \notin Runtime
    /\ <<models[a].provider, a>> \in present

\* llama.cpp takes the address of a file; any other runtime has its sources, and
\* looks for the provider among them as well.
RuntimePullSupport(r, row) ==
    IF r = "llamacpp" THEN row.url
    ELSE r \in Runtime /\ {row.source, row.provider} \cap Pulls[r] # {}

\* A bug: one pull for each runtime.
PullKeyOfRuntime(r, a) == r

\* What was pulled is remembered by runtime and alias.
PullKey(r, a) == <<r, a>>

\* A model its provider does not list is pulled into the runtime that was
\* selected, once.  Ollama pulls through its server and lists what it has; the
\* others fill a cache that only their server reads, when it starts.
SetupModel(pull) ==
    /\ setup # None /\ setup.todo # <<>> /\ setup.ready
    /\ LET row == Head(setup.todo)
           r == row.runtime
           absent == ~ModelPresent(row.name)
           pulls == absent /\ PullKey(r, row.name) \notin setup.pulled
           done == pulls /\ RuntimePullSupport(r, row) /\ pull
       IN /\ (done /\ r = "ollama") => r \in up
          /\ present' = IF done /\ r \notin OneModel THEN present \cup {<<r, row.name>>}
                        ELSE present
          /\ setup' = [setup EXCEPT
                          !.todo = Tail(@), !.done = Append(@, row), !.ready = FALSE,
                          !.found = IF absent THEN @ ELSE @ \cup {row.name},
                          !.cached = IF done /\ r \in OneModel THEN @ \cup {<<r, row.name>>}
                                     ELSE @,
                          !.pulled = IF pulls THEN @ \cup {PullKey(r, row.name)} ELSE @,
                          !.clean = @ /\ (pulls => done)]
    /\ UNCHANGED <<catalog, up, installed, plan, out>>

\* A failure is recorded, and the next action is tried all the same.
SetupEnd ==
    /\ setup # None /\ setup.todo = <<>>
    /\ setup' = None
    /\ UNCHANGED <<catalog, machine, plan, out>>

\* A forked server answers at last, or never; a one-model server lists the model
\* it was started with.
ForkedComesUp(r, a) ==
    /\ setup # None /\ <<r, a>> \in setup.forked /\ r \notin up
    /\ up' = up \cup {r}
    /\ present' = IF r \in OneModel THEN (present \ ({r} \X Alias)) \cup {<<r, a>>}
                  ELSE present
    /\ UNCHANGED <<catalog, installed, plan, setup, out>>

(***************************************************************************)
(* What changes between two commands                                       *)
(***************************************************************************)
EditCatalog(a, row) ==
    /\ setup = None /\ edits < MaxEdits
    /\ models' = [models EXCEPT ![a] = row]
    /\ edits' = edits + 1 /\ out' = Nothing
    /\ UNCHANGED <<denied, cloud, machine, plan, setup>>

ChangePolicy(p, allowed) ==
    /\ setup = None /\ edits < MaxEdits
    /\ denied' = (denied \ {p}) \cup ({p} \ denied) /\ cloud' = allowed
    /\ edits' = edits + 1 /\ out' = Nothing
    /\ UNCHANGED <<models, machine, plan, setup>>

\* Also in the middle of a setup.
ServerStops(r) ==
    /\ r \in up
    /\ up' = up \ {r} /\ out' = Nothing
    /\ UNCHANGED <<catalog, installed, present, plan, setup>>

IntInit ==
    /\ models \in [Alias -> Rows] /\ denied = {} /\ cloud = TRUE /\ edits = 0
    /\ installed \in {{}, Runtime} /\ up \in {{}, installed}
    /\ present \in {{}} \cup {((Provider \ OneModel) \X Alias) \cup (OneModel \X {a}) : a \in Alias}
    /\ plan = None /\ setup = None /\ out = Nothing

IntCommands ==
    \/ \E f \in Asked : Plan(f) \/ Export(f) \/ SetupBegin(f)
    \/ ExportSaved
    \/ \E install, brings, start \in BOOLEAN : SetupRuntime(install, brings, start)
    \/ \E pull \in BOOLEAN : SetupModel(pull)
    \/ \E r \in Runtime, a \in Alias : ForkedComesUp(r, a)
    \/ SetupEnd

IntChanges ==
    \/ \E a \in Alias, row \in Rows \cup {None} : EditCatalog(a, row)
    \/ \E p \in Provider, b \in BOOLEAN : ChangePolicy(p, b)
    \/ \E r \in Runtime : ServerStops(r)

\* What is printed for another program names only aliases that are in the
\* catalog and that the repository policy allows at that moment, also when it
\* comes from a plan that was saved under another catalog or another policy.
ExportsAreAllowed ==
    \A e \in out.entries : e.alias \in Known /\ Allowed(e.alias)

\* What a pull into a runtime leaves behind.
Stored(r, a) == <<r, a>> \in (IF r \in OneModel THEN setup.cached ELSE present)

\* A setup none of whose actions failed or was skipped has looked at every model
\* it selected: either its provider listed it then, or it is now in the store of
\* the runtime that was selected.  It says nothing of the servers: a start that
\* succeeded is a process that was forked.  The pull of llama.cpp is left out,
\* whose exit code is 0 also for a page that says "not found".
CleanSetupFetches ==
    setup # None /\ setup.clean =>
        \A i \in DOMAIN setup.done :
            LET row == setup.done[i]
            IN row.runtime # "llamacpp" =>
                  row.name \in setup.found \/ Stored(row.runtime, row.name)
=============================================================================
