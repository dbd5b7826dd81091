---------------------------- MODULE MCExecution ----------------------------
EXTENDS Execution, Connections

CONSTANTS m1, m2, ollama, vllm, openai, a1, a2, work, token, x, y, z

VARIABLE topic

\* A good local row and one change at a time of it, and rows that are not local.
Good == [local |-> TRUE, enabled |-> TRUE, curated |-> TRUE, provider |-> TRUE,
         fits |-> TRUE, capable |-> TRUE, service |-> None,
         runtimes |-> <<ollama, vllm>>]
Remote == [Good EXCEPT !.local = FALSE, !.service = openai, !.runtimes = <<>>]

\* Disabled, only discovered, too big for the machine, and a discovered remote
\* row that has no role; a managed row that names runtimes, and a server of the
\* team that the repository's allow-list leaves out.
MCRows ==
    {Good, [Good EXCEPT !.enabled = FALSE], [Good EXCEPT !.curated = FALSE],
     [Good EXCEPT !.fits = FALSE],
     Remote, [Remote EXCEPT !.curated = FALSE, !.capable = FALSE],
     [Remote EXCEPT !.runtimes = <<vllm>>],
     [Remote EXCEPT !.service = None, !.runtimes = <<vllm>>, !.provider = FALSE]}

-----------------------------------------------------------------------------
(* A hosted API with a key, the same without one, with a key from a          *)
(* credential or by default, services with an adapter of their own, sources  *)
(* of models and local servers.                                              *)

Hosted == [enabled |-> TRUE, managed |-> TRUE, adapter |-> "openai",
           protocol |-> "openai_compatible", required |-> TRUE, endpoint |-> TRUE,
           fallback |-> FALSE, ref |-> Unset, env |-> token]

MCSettings ==
    {Hosted, [Hosted EXCEPT !.required = FALSE, !.managed = FALSE, !.env = Unset],
     [Hosted EXCEPT !.ref = work, !.endpoint = FALSE],
     [Hosted EXCEPT !.adapter = "anthropic", !.protocol = "anthropic_api", !.endpoint = FALSE,
        !.fallback = TRUE, !.required = Unset, !.env = Unset],
     [Hosted EXCEPT !.adapter = "azure_openai", !.protocol = "azure_openai", !.ref = work],
     [Hosted EXCEPT !.adapter = "civitai", !.protocol = "other", !.managed = FALSE,
        !.required = FALSE],
     [Hosted EXCEPT !.adapter = "ollama", !.protocol = "ollama", !.managed = FALSE,
        !.required = Unset, !.env = Unset],
     [Hosted EXCEPT !.adapter = "profile_catalog", !.protocol = "ollama_cloud"],
     [Hosted EXCEPT !.enabled = FALSE]}

Own == [enabled |-> TRUE, ref |-> Unset, env |-> Unset]
MCModels == {Own, [Own EXCEPT !.ref = work], [Own EXCEPT !.enabled = FALSE, !.env = token]}

Item(id, found) == [id |-> id, found |-> found]
MCListing ==
    {<<>>, <<Item(x, FALSE), Item(y, FALSE)>>, <<Item(a1, TRUE), Item(a1, TRUE), Item(x, TRUE)>>,
     <<Item(x, FALSE), Item(a1, TRUE), Item(a2, FALSE), Item(y, TRUE)>>,
     <<Item(a1, TRUE), Item(a2, TRUE), Item(x, TRUE), Item(y, TRUE), Item(z, TRUE)>>}

MCAlias == <<a1, a2>>

\* A behaviour is about a prompt on its way to a backend, or about what is
\* asked of one provider.
MCInit ==
    /\ topic \in {"prompt", "provider"}
    /\ IF topic = "prompt"
       THEN /\ Init
            /\ setting = Hosted /\ model = [a \in {a1, a2} |-> Own]
            /\ environ = [v \in Var |-> NoKey] /\ store = [r \in Ref |-> Unset]
            /\ accepts = {} /\ query = NoQuery
       ELSE /\ ConnectionsInit
            /\ rows = [m \in Model |-> Good] /\ listing = <<>>
            /\ default = [r \in {"managed", "local"} |-> None]
            /\ cloud = FALSE /\ grants = {} /\ seen = {} /\ up = {}
            /\ job = NoJob /\ events = <<>> /\ answered = FALSE

MCNext ==
    /\ UNCHANGED topic
    /\ \/ topic = "prompt" /\ Next /\ UNCHANGED connectionVars
       \/ topic = "provider" /\ ConnectionsNext /\ UNCHANGED vars

MCSpec == MCInit /\ [][MCNext]_<<topic, vars, connectionVars>>

MCSymmetry == Permutations(Model)
=============================================================================
