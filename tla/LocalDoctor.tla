----------------------------- MODULE LocalDoctor -----------------------------
(***************************************************************************)
(* aiplane doctor (local_coding_doctor): one report on everything a coding *)
(* setup needs, as checks that pass, warn or block, and an exit code.  It  *)
(* reads the catalog, the policy, the servers and the stack of the other   *)
(* modules; what it sees besides is a record of its own, see Around       *)
(*                                                                         *)
(* A check is [name, of, ok, warning].  Left out are checks that compare   *)
(* two tables of the program (the MCP section), checks that always pass,   *)
(* and the wording of reasons and actions; the roles of a row stand for    *)
(* an alias's roles and positive capability scores.                        *)
(***************************************************************************)
EXTENDS Stacks

CONSTANTS
    DefaultRoles   \* the names of the defaults that end in _model

Check(name, of, ok, warning) == [name |-> name, of |-> of, ok |-> ok, warning |-> warning]
Pass(name, of, ok) == Check(name, of, ok, FALSE)

CodingDefaults == {"chat_model", "autocomplete_model", "embedding_model", "code_model"}

ASSUME DefaultsAssumption == CodingDefaults \subseteq DefaultRoles

Suitable(default) ==
    CASE default = "chat_model"         -> {"chat", "generation"}
      [] default = "autocomplete_model" -> {"completion", "autocomplete", "code", "chat"}
      [] default = "embedding_model"    -> {"embedding"}
      [] default = "code_model"         -> {"completion", "generation", "refactor", "code", "chat"}

RoleCapability(default, a) == a \in Known /\ models[a].roles \cap Suitable(default) # {}

\* The aliases of the four defaults, each once, that the catalog has.
ConfiguredDefaults == {Defaults[d] : d \in CodingDefaults} \cap Known

StatusUsable(a) == ModelPresent(a)

(***************************************************************************)
(* Sections                                                                *)
(***************************************************************************)
\* A profile with a file missing is not loaded, and there is no report.
ProfileSection(h) == {Pass("active_mode", None, h.mode)}

EnvironmentSection(h) ==
    {Pass("required_tools", None, h.tools), Pass("runtime_prerequisites", None, h.prerequisites)}

\* A default that is not set only warns; one that names no model blocks.
DefaultCheck(d) ==
    LET a == Defaults[d]
        fine == a \in Known /\ models[a].enabled /\ RoleCapability(d, a)
    IN CASE a = None -> Check("default", d, TRUE, TRUE)
         [] OTHER    -> Check("default", d, fine, fine /\ ~StatusUsable(a))

ModelDefaultsSection ==
    {DefaultCheck(d) : d \in CodingDefaults} \cup {Pass("model_catalog", None, Known # {})}

EndpointSection(h) ==
    {Pass("role_default_endpoints", None, ConfiguredDefaults # {})}
        \cup {Pass("endpoint", a, models[a].provider \in h.providers /\ StatusUsable(a)) :
                  a \in ConfiguredDefaults}

HardwareSection(h) ==
    {Pass("active_machine", None, h.machine)}
        \cup {Check("model_fit", a, h.fit # "no", h.fit = "below recommended") :
                  a \in ConfiguredDefaults}

ProviderSection(h) == {Pass("providers_enabled", None, h.providers # {})}

\* Bug: only the default of the chat is asked about.
PolicyOfChat ==
    {Pass("cloud_backends", None, CloudDecision)}
        \cup {Pass("model_policy", a, a \in Known /\ ModelDecision(a)) :
                  a \in {Defaults["chat_model"]} \ {None}}

\* Every default that is set, those the four roles do not use included.  Both
\* decisions heed the overrides; an alias that is missing no override brings back.
PolicySection ==
    {Pass("cloud_backends", None, CloudDecision)}
        \cup {Pass("model_policy", a, a \in Known /\ ModelDecision(a)) :
                  a \in {Defaults[d] : d \in DefaultRoles} \ {None}}

\* An SSH target without a plan blocks, one without ssh warns, and so does a
\* remote stack whose own doctor finds something, if only to warn of.
RemoteSection(h) ==
    {Check("remote_target", None, h.tunnel # "no plan", h.tunnel = "no ssh")}
        \cup (IF stack # None /\ stack.remote
              THEN {Check("stack_doctor", None, TRUE, ~(DoctorPasses(stack, h) /\ h.quiet))} ELSE {})

IntegrationDefault(role) ==
    CASE role = "autocomplete" -> "autocomplete_model"
      [] role = "embedding"    -> "embedding_model"
      [] OTHER                 -> "chat_model"

IntegrationSection ==
    {Check("integration", tool, TRUE,
           \E i \in DOMAIN RolesOf(tool) :
               LET d == IntegrationDefault(RolesOf(tool)[i]) IN ~RoleCapability(d, Defaults[d])) :
         tool \in Tools \ McpTools}

(***************************************************************************)
(* The report                                                              *)
(***************************************************************************)
Report(h) ==
    ProfileSection(h) \cup EnvironmentSection(h) \cup ModelDefaultsSection
        \cup EndpointSection(h) \cup HardwareSection(h) \cup ProviderSection(h)
        \cup PolicySection \cup RemoteSection(h) \cup IntegrationSection

Severity(check) ==
    IF ~check.ok THEN "blocking" ELSE IF check.warning THEN "advisory" ELSE "pass"

Overall(h) ==
    LET found == {Severity(c) : c \in Report(h)}
    IN IF "blocking" \in found THEN "blocking"
       ELSE IF "advisory" \in found THEN "advisory" ELSE "healthy"

ExitCode(h) ==
    CASE Overall(h) = "healthy" -> 0 [] Overall(h) = "advisory" -> 1 [] OTHER -> 2

PlainExport(tool) ==
    ExportFor([tool |-> tool, model |-> None, chat |-> None, runtime |-> None, best |-> FALSE,
               remote |-> FALSE, api |-> None])

\* No command is under way, nothing is printed, and no stack adds a warning.
AtRest == Idle /\ out = Nothing /\ stack = None

\* No default is there by an override, which the doctor heeds and an export does
\* not.
NoDefaultOverridden == Overridden \cap {Defaults[d] : d \in DefaultRoles} = {}

\* A doctor that exits with 0 is followed by an export that works: in the same
\* state none of the exports that take a model as it is, Continue with its
\* three roles included, is refused, unless a default is allowed by an override.
\* An override of the cloud alone opens no model.  Host clients ask more of a
\* model than the doctor looks at.
HealthyExports ==
    AtRest /\ NoDefaultOverridden => \A h \in Surroundings :
        ExitCode(h) = 0 => \A tool \in Tools \ HostTools : PlainExport(tool) # Refused
=============================================================================
