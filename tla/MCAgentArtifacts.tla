-------------------------- MODULE MCAgentArtifacts --------------------------
(* Two aliases whose rows differ in one thing at a time, two runtimes and a *)
(* managed service, and flags that reach every kind of target.             *)
EXTENDS AgentArtifacts, LocalDoctor
CONSTANTS small, large, unreadable
MCNames == <<small, large>>
Roles == {"chat", "autocomplete", "embedding"}
Row(p, rs, on, ts, score) ==
    [provider |-> p, runtimes |-> rs, local |-> p # "openai", enabled |-> on, tools |-> ts,
     streams |-> "unknown", apis |-> None, roles |-> {"chat"}, able |-> Roles,
     score |-> [role \in Roles |-> score], source |-> p, url |-> FALSE, home |-> p, safe |-> TRUE]

\* A model of Ollama; one with an id that fits no package, which vLLM takes from
\* Hugging Face and which does not embed; a managed one; and one that is disabled.
MCRows == {[Row("ollama", <<"ollama", "vllm">>, TRUE, "yes", 2) EXCEPT
               !.roles = {"chat", "embedding"}],
           [Row("vllm", <<"vllm">>, TRUE, "unknown", 1) EXCEPT
               !.able = {"chat", "autocomplete"}, !.source = "huggingface", !.safe = FALSE],
           [Row("openai", <<>>, TRUE, "yes", 3) EXCEPT
               !.apis = {"chat_completions"}, !.roles = {"chat", "embedding"},
               !.score = [role \in Roles |-> IF role = "autocomplete" THEN 1 ELSE 3]],
           [Row("ollama", <<"ollama">>, FALSE, "no", 1) EXCEPT !.home = "vllm"]}
MCApisOf == [p \in {"ollama", "vllm", "openai"} |->
                IF p = "openai" THEN {"responses", "chat_completions"} ELSE {"chat_completions"}]
MCPulls == [r \in {"ollama", "vllm"} |-> IF r = "ollama" THEN {r} ELSE {"huggingface"}]
MCBundleModes == [r \in {"ollama", "vllm"} |->
                     IF r = "ollama" THEN {"dockerfile"} ELSE {"dockerfile", "conda-yaml"}]
MCDefaults == [d \in {"chat_model", "code_model", "self_managed_model", "autocomplete_model",
                      "completion_model", "embedding_model"} |->
                  IF d \in {"chat_model", "code_model", "autocomplete_model"} THEN small
                  ELSE IF d = "embedding_model" THEN large ELSE None]
MCDefaultRoles == DOMAIN MCDefaults

\* Everything in order, all providers enabled or one of them not.
Fine == [mode |-> TRUE, tools |-> TRUE, prerequisites |-> TRUE, machine |-> TRUE, fit |-> "yes",
         quiet |-> TRUE,
         tunnel |-> "ready", providers |-> {"ollama", "vllm", "openai"}]
MCSurroundings == {Fine, [Fine EXCEPT !.providers = {"ollama", "openai"}, !.tunnel = "none"]}
Plain(t) == [tool |-> t, model |-> None, chat |-> None, runtime |-> None, best |-> FALSE,
             remote |-> FALSE, api |-> None]
MCAsked ==
    {Plain(t) : t \in {"continue", "codex", "generic-mcp"}}
    \cup {[Plain(t) EXCEPT !.best = TRUE] : t \in {"continue", "codex"}}
    \cup {[Plain(t) EXCEPT !.runtime = "vllm"] : t \in {"continue", "copilot-vscode"}}
    \cup {[Plain("continue") EXCEPT !.chat = large], [Plain("continue") EXCEPT !.model = small],
          [Plain("aider") EXCEPT !.model = large],
          [Plain("codex") EXCEPT !.remote = TRUE], [Plain("aider") EXCEPT !.api = "responses"],
          [Plain("copilot-cli") EXCEPT !.api = "chat_completions"]}

MCGrants == {{}, {small}, {"cloud"}, unreadable}

\* A stack without roles, one of Ollama, and one whose planner has the other model;
\* two have limits that nothing counts.
Stack == [machine |-> "box", runtime |-> "vllm", model |-> small, orchestrator |-> None,
          remote |-> FALSE, roles |-> <<>>, limits |-> TRUE]
Team == [Stack EXCEPT !.orchestrator = "langgraph",
                      !.roles = [role \in {"planner", "coder"} |-> IF role = "planner" THEN large ELSE small]]
MCWanted == {Stack, [Stack EXCEPT !.runtime = "ollama", !.limits = FALSE], Team,
             [Team EXCEPT !.remote = TRUE, !.limits = FALSE]}
MCFits == {<<"box", small>>, <<"box", large>>}
MCTargets == {<<>>, <<"planner">>, <<"coder", "coder">>, <<"tester">>}
=============================================================================
