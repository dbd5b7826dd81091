---------------------------- MODULE Connections ----------------------------
(***************************************************************************)
(* What a command learns from one provider: its models (providers models,  *)
(* models refresh), whether a connection works (providers test), which     *)
(* aliases are usable (models doctor), and the answer to a prompt          *)
(* (ModelExecution and its backends).                                      *)
(*                                                                         *)
(* The credentials file is read anew wherever a key is needed, and other   *)
(* commands change it meanwhile.  The service comes, goes and changes the  *)
(* keys it accepts.                                                        *)
(***************************************************************************)
EXTENDS Integers, Sequences, SequencesExt

CONSTANTS
    Ref,        \* names of credentials, <provider>.<account>
    Var,        \* environment variables that may hold a key
    WellKnown,  \* the variable an adapter falls back to
    Key,
    NoKey,      \* an empty value, or none
    Unset,      \* a field that is absent
    Alias,      \* the models of the provider, in catalog order
    Settings,   \* the provider as it may be configured
    Models,     \* an alias as it may be configured
    Listing,    \* what the service may list: ids and whether a query finds them
    Limit,      \* --limit
    PageSize,   \* items of a page, 100
    MaxChunks   \* bound: pieces of a streamed answer

VARIABLES
    setting,  \* the provider
    model,    \* [alias -> its row]
    environ,  \* [Var -> Key or NoKey]
    store,    \* the credentials file: [Ref -> [key, endpoint] or Unset]
    accepts,  \* the keys the service answers to now
    query     \* the command, with what the service lists or says meanwhile

conf == <<setting, model, environ>>
connectionVars == <<conf, store, accepts, query>>

Credential == [key : Key \cup {NoKey}, endpoint : BOOLEAN] \cup {Unset}

Adapters == {"profile_catalog", "huggingface", "huggingface_gguf", "civitai",
             "ollama", "openai", "anthropic", "azure_openai", "elevenlabs"}
NeedKey == {"anthropic", "azure_openai", "elevenlabs"}

\* For models and test, the provider's entries merged (_resolved_provider); for
\* doctor and chat, the entry of its endpoint, which a self-managed model has
\* chosen before (Execution).  required: auth.required, or Unset.  fallback: an endpoint is known without
\* being configured.
IsSetting(s) ==
    /\ s.enabled \in BOOLEAN /\ s.managed \in BOOLEAN
    /\ s.adapter \in Adapters
    /\ s.protocol \in {"ollama", "ollama_cloud", "openai_compatible", "azure_openai",
                       "anthropic_api", "other"}
    /\ s.required \in BOOLEAN \cup {Unset}
    /\ s.endpoint \in BOOLEAN /\ s.fallback \in BOOLEAN
    /\ s.ref \in Ref \cup {Unset} /\ s.env \in Var \cup {Unset}

IsModel(m) ==
    /\ m.enabled \in BOOLEAN
    /\ m.ref \in Ref \cup {Unset} /\ m.env \in Var \cup {Unset}

ASSUME ConnectionsAssumption ==
    /\ \A s \in Settings : IsSetting(s)
    /\ \A m \in Models : IsModel(m)
    /\ \A l \in Listing : l \in Seq(ToSet(l)) /\ \A i \in DOMAIN l : l[i].found \in BOOLEAN
    /\ Limit \subseteq Nat \ {0} /\ PageSize \in Nat \ {0}

NoQuery == [kind |-> "none", at |-> "idle"]

\* models: the command lists; test: it tests; doctor; chat.
Start ==
    /\ query = NoQuery
    /\ \/ \E online, search \in BOOLEAN, limit \in Limit, listing \in Listing :
             query' = [kind |-> "models", at |-> "ready", online |-> online, listing |-> listing,
                       search |-> search, limit |-> limit, ids |-> <<>>, page |-> 1,
                       source |-> "none"]
       \/ \E ref \in Ref \cup {Unset} :
             query' = [kind |-> "test", at |-> "test", ref |-> ref, ok |-> FALSE]
       \/ \E listing \in Listing :
             query' = [kind |-> "doctor", at |-> "examine", listing |-> listing,
                       todo |-> Alias, probes |-> {}, verdicts |-> {}]
       \/ \E a \in ToSet(Alias), stream \in BOOLEAN, says \in 0..MaxChunks :
             query' = [kind |-> "chat", at |-> "send", alias |-> a, stream |-> stream,
                       says |-> says, got |-> 0, answered |-> FALSE]
    /\ UNCHANGED <<conf, store, accepts>>

Proceeds(next) ==
    /\ query' = next
    /\ UNCHANGED <<conf, store, accepts>>

Goes(at) == Proceeds([query EXCEPT !.at = at])

Reply(key) == key \in accepts

-----------------------------------------------------------------------------
(* providers models: readiness, the online query and the local answer.     *)

HasKey(ref) == store[ref] # Unset /\ store[ref].key # NoKey

CredentialReady ==
    IF setting.ref # Unset THEN HasKey(setting.ref)
    ELSE setting.env # Unset /\ environ[setting.env] # NoKey

EndpointReady ==
    \/ setting.endpoint
    \/ setting.adapter \notin NeedKey \cup {"openai"}
    \/ setting.required = TRUE /\ setting.ref # Unset
         /\ store[setting.ref] # Unset /\ store[setting.ref].endpoint

DiscoveryReadiness ==
    /\ setting.enabled
    /\ setting.adapter # "profile_catalog"
    /\ EndpointReady
    /\ setting.required = TRUE => CredentialReady

Ends(source, ids) == Proceeds([query EXCEPT !.at = "end", !.source = source, !.ids = ids])

FirstOf(s) == SubSeq(s, 1, Min({query.limit, Len(s)}))

\* The items at some places of a sequence, in order.
Kept(s, places) ==
    FoldLeftDomain(LAMBDA got, i : IF i \in places THEN Append(got, s[i]) ELSE got, <<>>, s)

Distinct(s) == Kept(s, {i \in DOMAIN s : \A j \in 1..(i - 1) : s[j] # s[i]})

Ids(items) == [i \in DOMAIN items |-> items[i].id]

Matching ==
    LET items == query.listing
    IN  IF query.search THEN Kept(items, {i \in DOMAIN items : items[i].found}) ELSE items

\* What the profile knows is no answer of a managed service.
LocalModels(failed) ==
    IF failed /\ setting.managed THEN Ends("error", <<>>)
    ELSE Ends("profile_catalog", <<>>)

Ready ==
    /\ query.at = "ready"
    /\ IF ~setting.enabled THEN Ends("disabled", <<>>)
       ELSE IF ~query.online THEN LocalModels(FALSE)
       ELSE IF ~DiscoveryReadiness THEN Ends("configuration_error", <<>>)
       ELSE Goes("ask")

\* The key of the online query; Unset when there is no such credential.
QueryKey ==
    LET env == IF setting.env = Unset /\ setting.adapter \in NeedKey THEN WellKnown
               ELSE setting.env
    IN  IF setting.adapter \notin NeedKey \cup {"openai"} THEN NoKey
        ELSE IF setting.ref # Unset
        THEN IF store[setting.ref] = Unset THEN Unset ELSE store[setting.ref].key
        ELSE IF env = Unset THEN NoKey ELSE environ[env]

\* Each adapter looks at its own endpoint and key once more.
Askable ==
    /\ setting.adapter \in NeedKey \cup {"openai"} => setting.endpoint \/ setting.fallback
    /\ QueryKey # Unset
    /\ \/ setting.adapter \in NeedKey
       \/ setting.adapter = "openai" /\ setting.required # FALSE
       => QueryKey # NoKey

\* How an adapter reads one answer.  An OpenAI-compatible list is cut before
\* repeated ids go, Anthropic's after.
CompatibleModels == Distinct(FirstOf(Ids(Matching)))
Deployments == CompatibleModels
Voices == CompatibleModels
\* The hub is asked for the filter and the limit, and keeps to them.
HubModels == CompatibleModels
AnthropicModels == FirstOf(Distinct(Ids(Matching)))

\* Ollama's page is taken as it is when nothing on it matches.
LibraryModels ==
    FirstOf(Distinct(Ids(IF Matching = <<>> THEN query.listing ELSE Matching)))

Listed ==
    CASE setting.adapter = "anthropic" -> AnthropicModels
      [] setting.adapter = "azure_openai" -> Deployments
      [] setting.adapter = "elevenlabs" -> Voices
      [] setting.adapter \in {"huggingface", "huggingface_gguf"} -> HubModels
      [] setting.adapter = "ollama" -> LibraryModels
      [] OTHER -> CompatibleModels

OnlineModels ==
    /\ query.at = "ask"
    /\ \/ Askable /\ Reply(QueryKey) /\ setting.adapter # "civitai" /\ Ends("live", Listed)
       \/ Askable /\ Reply(QueryKey) /\ setting.adapter = "civitai" /\ Goes("page")
       \/ LocalModels(TRUE)

\* Page n of the given size.
Page(items, size) ==
    SubSeq(items, (query.page - 1) * size + 1, Min({query.page * size, Len(items)}))

CivitaiModels ==
    /\ query.at = "page"
    /\ \/ /\ Reply(NoKey)
          /\ LET size == Min({PageSize, query.limit - Len(query.ids)})
                 ids == query.ids \o Ids(Page(Matching, size))
             IN  IF Len(ids) < query.limit /\ Len(Matching) > query.page * size
                 THEN Proceeds([query EXCEPT !.ids = ids, !.page = @ + 1])
                 ELSE Ends("live", Distinct(ids))
       \/ LocalModels(TRUE)

-----------------------------------------------------------------------------
(* providers test                                                          *)

TestRef == IF query.ref # Unset THEN query.ref ELSE setting.ref

TestConnection ==
    /\ query.at = "test"
    /\ LET missing == TestRef # Unset /\ store[TestRef] = Unset
           key == IF TestRef # Unset THEN store[TestRef].key
                  ELSE IF setting.env # Unset THEN environ[setting.env] ELSE NoKey
           required == IF setting.required = Unset THEN setting.protocol # "ollama"
                       ELSE setting.required
           endpoint == \/ setting.endpoint \/ setting.adapter # "azure_openai"
                       \/ TestRef # Unset /\ store[TestRef].endpoint
       IN  IF missing THEN Goes("failed")
           ELSE \/ Goes("end")
                \/ /\ required => key # NoKey
                   /\ endpoint
                   /\ setting.protocol # "other" \/ setting.adapter = "elevenlabs"
                   /\ Reply(key)
                   /\ Proceeds([query EXCEPT !.at = "end", !.ok = TRUE])

-----------------------------------------------------------------------------
(* models doctor                                                           *)

RefOf(m) == IF m.ref # Unset THEN m.ref ELSE setting.ref
EnvOf(m) == IF m.env # Unset THEN m.env ELSE setting.env

KeyFrom(ref, env) ==
    IF ref # Unset /\ store[ref].key # NoKey THEN store[ref].key
    ELSE IF env # Unset THEN environ[env] ELSE NoKey

\* The key a request for an alias carries.  Ollama has one per provider.
RequestRef(m) == IF setting.protocol \in {"ollama", "ollama_cloud"} THEN setting.ref ELSE RefOf(m)
ApiKey(m) ==
    IF setting.protocol \in {"ollama", "ollama_cloud"} THEN KeyFrom(setting.ref, setting.env)
    ELSE KeyFrom(RefOf(m), EnvOf(m))

CredentialProblem(m) ==
    \/ RefOf(m) # Unset /\ store[RefOf(m)].key = NoKey
    \/ RefOf(m) = Unset /\ EnvOf(m) # Unset /\ environ[EnvOf(m)] = NoKey

Unknown(ref) == ref # Unset /\ store[ref] = Unset

\* key: the one that was tried, or Unset.
Verdict(usable, key) ==
    Proceeds([query EXCEPT !.at = "examine", !.todo = Tail(@),
                !.verdicts = @ \cup {[alias |-> Head(query.todo), usable |-> usable, key |-> key]}])

this == model[Head(query.todo)]

\* _status, up to the probe.  A reference to no credential ends the command.
Examine ==
    /\ query.at = "examine" /\ query.todo # <<>>
    /\ IF ~this.enabled THEN Verdict(FALSE, Unset)
       ELSE CASE setting.protocol = "ollama" -> Goes("probe")
              [] setting.protocol = "ollama_cloud" ->
                   IF setting.env # Unset /\ environ[setting.env] = NoKey
                   THEN Verdict(FALSE, Unset) ELSE Goes("probe")
              [] OTHER ->
                   IF Unknown(RefOf(this)) THEN Goes("failed")
                   ELSE IF setting.protocol = "other"
                   THEN Verdict(IF RefOf(this) # Unset THEN store[RefOf(this)].key # NoKey
                                ELSE setting.env # Unset /\ environ[setting.env] # NoKey, Unset)
                   ELSE IF CredentialProblem(this) THEN Verdict(FALSE, Unset)
                   ELSE IF ~setting.enabled THEN Verdict(FALSE, Unset)
                   ELSE IF setting.protocol = "openai_compatible" THEN Goes("probe")
                   ELSE Verdict(setting.protocol = "azure_openai" => setting.endpoint, Unset)

\* Mutant of Cached: one probe of a provider does for all its models.
CachedByProvider(key) == query.probes

\* A probe of this run with the same headers is not repeated.
Cached(key) == {p \in query.probes : p.key = key}

Lists(probe, a) ==
    /\ probe.up
    /\ \/ a \in probe.ids
       \/ setting.protocol = "openai_compatible" /\ probe.ids = {}

Probe ==
    /\ query.at = "probe"
    /\ IF Unknown(RequestRef(this)) THEN Goes("failed")
       ELSE IF setting.protocol = "openai_compatible" /\ ~setting.endpoint /\ ~setting.fallback
       THEN Goes("failed")
       ELSE LET key == ApiKey(this)
                judge(p) == Proceeds([query EXCEPT !.at = "examine", !.todo = Tail(@),
                    !.probes = @ \cup {p},
                    !.verdicts = @ \cup {[alias |-> Head(query.todo), key |-> key,
                                          usable |-> Lists(p, Head(query.todo))]}])
            IN  IF Cached(key) # {} THEN \E p \in Cached(key) : judge(p)
                ELSE \/ judge([key |-> key, up |-> FALSE, ids |-> {}])
                     \/ Reply(key) /\ judge([key |-> key, up |-> TRUE,
                                             ids |-> ToSet(Ids(query.listing))])
                     \/ Goes("failed")  \* the answer is no JSON

DoctorDone == query.at = "examine" /\ query.todo = <<>> /\ Goes("end")

-----------------------------------------------------------------------------
(* ModelExecution.complete and the backends                                *)

Answered == Proceeds([query EXCEPT !.at = "end", !.answered = TRUE])

\* No backend for the protocol, no endpoint, or no such credential.
NotWired ==
    \/ setting.protocol = "other"
    \/ setting.protocol = "azure_openai" /\ ~setting.endpoint
    \/ setting.protocol = "openai_compatible" /\ ~setting.endpoint /\ ~setting.fallback
    \/ Unknown(RequestRef(model[query.alias]))

\* An answer in one piece; without choices it is an empty text.
WholeAnswer ==
    Proceeds([query EXCEPT !.at = "end", !.answered = TRUE, !.got = query.says])

Send ==
    /\ query.at = "send"
    /\ \/ Goes("failed")
       \/ /\ ~NotWired
          /\ Reply(ApiKey(model[query.alias]))
          /\ IF query.stream /\ setting.protocol \in {"ollama", "ollama_cloud"}
             THEN Goes("stream") ELSE WholeAnswer

\* The next line of a stream holds a piece of the text.
ReadContent ==
    /\ query.at = "stream" /\ query.got < query.says
    /\ Proceeds([query EXCEPT !.got = @ + 1])

\* The record that ends the answer.
ReadFinal == query.at = "stream" /\ query.got = query.says /\ Answered

\* Mutant of StreamEnds: what has arrived by then is the answer.
StreamEndsQuietly == query.at = "stream" /\ Answered

\* The connection closes, breaks or brings what is no JSON before that.
StreamEnds == query.at = "stream" /\ Goes("failed")

-----------------------------------------------------------------------------
(* The environment                                                         *)

Waiting == query.at \in {"ask", "page", "examine", "probe", "stream"}

\* Someone edits the credentials file.
StoreChanges ==
    /\ Waiting
    /\ \E r \in Ref, c \in Credential : store' = [store EXCEPT ![r] = c]
    /\ UNCHANGED <<conf, accepts, query>>

ServiceChanges ==
    /\ Waiting
    /\ accepts' \in SUBSET (Key \cup {NoKey})
    /\ UNCHANGED <<conf, store, query>>

\* The command returns or dies.
Leave ==
    /\ query # NoQuery
    /\ query' = NoQuery
    /\ UNCHANGED <<conf, store, accepts>>

ConnectionsInit ==
    /\ setting \in Settings
    /\ model \in [ToSet(Alias) -> Models]
    /\ environ \in [Var -> Key \cup {NoKey}]
    /\ store \in [Ref -> Credential]
    /\ accepts \in SUBSET (Key \cup {NoKey})
    /\ query = NoQuery

ConnectionsNext ==
    \/ Start
    \/ Ready \/ OnlineModels \/ CivitaiModels
    \/ TestConnection
    \/ Examine \/ Probe \/ DoctorDone
    \/ Send \/ ReadContent \/ ReadFinal \/ StreamEnds
    \/ StoreChanges \/ ServiceChanges \/ Leave

-----------------------------------------------------------------------------
(* Properties.                                                             *)

\* A listing holds only what was listed and found, at most limit of it, nothing
\* twice, and all there is below the limit, as long as the service repeats
\* nothing (and a limit over one page of Civitai is a number of whole pages: the
\* size of the last page shifts where it starts).
ListingIsTrue ==
    query.kind = "models" /\ query.at = "end" /\ query.online /\ query.source = "live" =>
        /\ ToSet(query.ids) \subseteq ToSet(Ids(query.listing))
        /\ Len(query.ids) <= query.limit
        /\ Cardinality(ToSet(query.ids)) = Len(query.ids)
        /\ setting.adapter # "ollama" => ToSet(query.ids) \subseteq ToSet(Ids(Matching))
        /\ /\ Distinct(Ids(query.listing)) = Ids(query.listing)
           /\ setting.adapter = "civitai" =>
                query.limit <= PageSize \/ query.limit % PageSize = 0
           => Len(query.ids) >= Min({query.limit, Len(Matching)})

\* A managed service is never answered for from the profile, and a streamed
\* text has every piece of the answer.
AnswerIsWhole ==
    /\ /\ query.kind = "models" /\ query.at = "end" /\ query.online
       /\ query.source = "profile_catalog"
       => ~setting.managed
    /\ query.kind = "chat" /\ query.at = "end" /\ query.answered => query.got = query.says

\* providers models and chat: what is reported as the answer of a service came
\* from it, and whole.
OnlyWhatWasAnswered == ListingIsTrue /\ AnswerIsWhole

\* models doctor: one probe serves all models of a provider that would be
\* called with the same key, and no other: each verdict is what the service
\* said to the key the model's own requests carry, though the credentials file
\* changes during the command.
VerdictsAreOwn ==
    query.kind = "doctor" => \A v \in query.verdicts :
        v.key # Unset => \E p \in query.probes : p.key = v.key /\ v.usable = Lists(p, v.alias)
=============================================================================
