---------------------------- MODULE MCGovernance ----------------------------
(* What stands between a request and its effect, asked of one run: the       *)
(* commands that ask the policy of a profile and write the audit log         *)
(* (Governance), and the hooks of a framework that ask its budget            *)
(* (Guardrails).  They share no state: a behaviour is about one of them.     *)
EXTENDS Governance, Guardrails, TLC

CONSTANTS c1, c2, c3, t1, t2

VARIABLE gate

MCEvent == Call \X Decision

\* Two grants race for a tool; one is granted, revoked and used.
Exceptions == {c1 :> "grant" @@ c2 :> second @@ c3 :> "tool" :
                  second \in {"grant", "revoke"}}

\* Commands that act and share the log, next to one that finds nothing.
Gates == {c1 :> first @@ c2 :> second @@ c3 :> "revoke" :
             first \in {"tool", "patch"}, second \in {"mcp", "patch"}}

MCMixes == Exceptions \cup Gates

\* Limits that two hooks can reach, and usage that is over a limit, priced by
\* the rate card, or refused half way.
MCLimits == [key \in LimitKey |->
                CASE key = "max_model_calls" -> 2
                  [] key = "max_tool_calls" -> 1
                  [] key = "max_retries" -> 0
                  [] key = "max_total_tokens" -> 2
                  [] key = "max_cost_usd" -> 3
                  [] key = "max_wall_seconds" -> 9
                  [] OTHER -> Nothing]

MCRates == [input |-> 1, output |-> 2]
MCEstimate == {[tokens |-> 1, cost |-> 1]}
MCUsage == {[input |-> 1, output |-> 0, cost |-> 0],
            [input |-> 1, output |-> 1, cost |-> Nothing],
            [input |-> 3, output |-> -1, cost |-> 1]}

\* The commands rest where the behaviour is about a budget.
PolicyRests ==
    /\ op = c1 :> "grant" @@ c2 :> "revoke" @@ c3 :> "tool"
    /\ \A action \in Action : base[action] = "blocked"
    /\ \A c \in Call : loaded[c] = "blocked"

GateInit ==
    /\ gate \in {"policy", "budget"}
    /\ Init /\ (gate = "budget" => PolicyRests)
    /\ BudgetInit

GateNext ==
    /\ UNCHANGED gate
    /\ \/ gate = "policy" /\ Next /\ UNCHANGED budgetVars
       \/ gate = "budget" /\ BudgetNext /\ UNCHANGED vars

GateSpec == GateInit /\ [][GateNext]_<<gate, vars, budgetVars>>

MCSymmetry == Permutations(Thread)
=============================================================================
