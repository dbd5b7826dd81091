----------------------------- MODULE Guardrails -----------------------------
(***************************************************************************)
(* GuardrailAdapter (agent_guardrails.py): the budget of one agent run,    *)
(* kept in the process of the framework.  The exported guardrails.py makes *)
(* one adapter per process and every model-calling node calls its hooks,   *)
(* so threads of the framework interleave in them; there is no lock.  The  *)
(* interpreter switches threads at calls and loop ends only, so a counter  *)
(* is incremented in one step but a check and the increment are two.       *)
(***************************************************************************)
EXTENDS Integers, Sequences, FiniteSets

CONSTANTS
    Thread,       \* threads of the framework that call the hooks
    Limits,       \* [LimitKey -> Nat or Nothing]: the limits of the contract
    Rates,        \* [input, output]: the rate card, in cost units per token
    Estimate,     \* what before_model_call is told: [tokens, cost]
    Usage,        \* what record_model_response is told: [input, output, cost];
                  \* cost may be Nothing, and a negative number is refused
    KeepsReceipt, \* a receipt path is configured
    MaxHooks,     \* bound: hooks called
    Nothing

Gate == {"before_model_call", "before_tool_call", "record_retry"}

Hook == Gate \cup {"record_tool_result", "record_model_response"}

Counter == {"model_calls", "tool_calls", "retries", "input_tokens",
            "output_tokens", "total_tokens", "cost_usd"}

\* The counter a gate increments.
CountedBy == [before_model_call |-> "model_calls",
              before_tool_call |-> "tool_calls",
              record_retry |-> "retries"]

\* The counter a limit is compared with; the wall clock is not a counter.
Measured == [max_model_calls |-> "model_calls",
             max_tool_calls |-> "tool_calls",
             max_retries |-> "retries",
             max_input_tokens |-> "input_tokens",
             max_output_tokens |-> "output_tokens",
             max_total_tokens |-> "total_tokens",
             max_cost_usd |-> "cost_usd"]

LimitKey == DOMAIN Measured \cup {"max_wall_seconds"}

Counters == [Counter -> Nat]

\* What the receipt file tells of a run.
Receipt == [counters : Counters, stop_reason : LimitKey \cup {Nothing}]

ASSUME GuardrailsAssumption ==
    /\ IsFiniteSet(Thread)
    /\ Limits \in [LimitKey -> Nat \cup {Nothing}]
    /\ Rates \in [input : Nat, output : Nat]
    /\ Estimate \subseteq [tokens : Nat, cost : Nat]
    /\ Usage \subseteq [input : Int, output : Int, cost : Int \cup {Nothing}]
    /\ KeepsReceipt \in BOOLEAN
    /\ MaxHooks \in Nat
    /\ Nothing \notin Int \cup LimitKey \cup Hook
    /\ Nothing \notin Estimate \cup Usage
    /\ Nothing \notin Receipt

VARIABLES
    counters,     \* the counters of the adapter
    stop_reason,  \* the limit that stopped the run, or Nothing
    late,         \* more than max_wall_seconds have passed
    receipt,      \* the receipt file: [counters, stop_reason], or Nothing
    hook,         \* [Thread -> Hook or Nothing]: the hook a thread is in
    at,           \* [Thread -> HookPoint] in it
    step,         \* [Thread -> 1..5]: the check, or response value, it is at
    arg,          \* [Thread -> Estimate, Usage or Nothing]
    reason,       \* the limit a thread found exceeded, or Nothing
    draft,        \* the receipt a thread is about to write, or Nothing
    begun,        \* hooks called so far
    granted,      \* history: [Gate -> Nat], hooks that returned normally
    lateGrants,   \* history: model calls granted while stop_reason was set
    overlap,      \* history: most other hooks that were in progress with one
    mishaps       \* history: "rejected" response values, "unsaved" receipts

threadVars == <<hook, at, step, arg, reason, draft>>
historyVars == <<granted, lateGrants, overlap, mishaps>>
budgetVars == <<counters, stop_reason, late, receipt, threadVars, begun, historyVars>>

HookPoint == {"idle", "check", "count", "add", "total", "stop", "receipt",
             "encode", "write"}

\* The checks of a hook, in their order.
Checks == [before_model_call |->
              <<"max_wall_seconds", "max_model_calls", "max_input_tokens",
                "max_total_tokens", "max_cost_usd">>,
           before_tool_call |-> <<"max_wall_seconds", "max_tool_calls">>,
           record_retry |-> <<"max_retries">>,
           record_tool_result |-> <<"max_wall_seconds">>]

ResponseValues == <<"input_tokens", "output_tokens", "cost_usd">>

ResponseLimits == <<"max_input_tokens", "max_output_tokens",
                    "max_total_tokens", "max_cost_usd">>

Busy == {t \in Thread : hook[t] # Nothing}

BudgetInit ==
    /\ counters = [c \in Counter |-> 0]
    /\ stop_reason = Nothing
    /\ late = FALSE
    /\ receipt = Nothing
    /\ hook = [t \in Thread |-> Nothing]
    /\ at = [t \in Thread |-> "idle"]
    /\ step = [t \in Thread |-> 1]
    /\ arg = [t \in Thread |-> Nothing]
    /\ reason = [t \in Thread |-> Nothing]
    /\ draft = [t \in Thread |-> Nothing]
    /\ begun = 0
    /\ granted = [g \in Gate |-> 0]
    /\ lateGrants = 0
    /\ overlap = 0
    /\ mishaps = {}

MoveTo(t, location) == at' = [at EXCEPT ![t] = location]

\* Where a hook goes when nothing is left but to keep the receipt.
Persisting == IF KeepsReceipt THEN "receipt" ELSE "write"

\* Thread t calls a hook.
EnterHook(t, h, a, location) ==
    /\ hook[t] = Nothing
    /\ begun < MaxHooks
    /\ begun' = begun + 1
    /\ hook' = [hook EXCEPT ![t] = h]
    /\ arg' = [arg EXCEPT ![t] = a]
    /\ MoveTo(t, location)
    /\ overlap' = IF Cardinality(Busy) > overlap THEN Cardinality(Busy)
                  ELSE overlap
    /\ UNCHANGED <<counters, stop_reason, late, receipt, step, reason, draft,
                   granted, lateGrants, mishaps>>

\* The hook returns, or raises when a reason was found in a gate.
LeaveHook(t) ==
    /\ hook' = [hook EXCEPT ![t] = Nothing]
    /\ MoveTo(t, "idle")
    /\ step' = [step EXCEPT ![t] = 1]
    /\ arg' = [arg EXCEPT ![t] = Nothing]
    /\ reason' = [reason EXCEPT ![t] = Nothing]
    /\ draft' = [draft EXCEPT ![t] = Nothing]

-----------------------------------------------------------------------------
(* The gates: before_model_call, before_tool_call, record_retry; and       *)
(* record_tool_result, which only looks at the clock.                      *)

\* A stopped run refuses at once, which changes nothing.
BeforeModelCall(t) ==
    /\ stop_reason = Nothing
    /\ \E e \in Estimate : EnterHook(t, "before_model_call", e, "check")

\* These do not look at stop_reason.
BeforeOther(t) ==
    \E h \in {"before_tool_call", "record_retry", "record_tool_result"} :
        EnterHook(t, h, Nothing, "check")

\* What the call in hand adds to the counter of a limit.
Demand(t, key) ==
    CASE key \in {"max_input_tokens", "max_total_tokens"} -> arg[t].tokens
      [] key = "max_cost_usd" -> arg[t].cost
      [] OTHER -> 1

Exceeds(t, key) ==
    /\ Limits[key] # Nothing
    /\ IF key = "max_wall_seconds" THEN late
       ELSE counters[Measured[key]] + Demand(t, key) > Limits[key]

\* _check finds the limit exceeded: it will set stop_reason and raise.
CheckFails(t) ==
    /\ at[t] = "check"
    /\ Exceeds(t, Checks[hook[t]][step[t]])
    /\ reason' = [reason EXCEPT ![t] = Checks[hook[t]][step[t]]]
    /\ MoveTo(t, "stop")
    /\ UNCHANGED <<counters, stop_reason, late, receipt, hook, step, arg,
                   draft, begun, historyVars>>

CheckPasses(t) ==
    /\ at[t] = "check"
    /\ ~Exceeds(t, Checks[hook[t]][step[t]])
    /\ IF step[t] < Len(Checks[hook[t]])
       THEN step' = [step EXCEPT ![t] = @ + 1] /\ UNCHANGED at
       ELSE /\ MoveTo(t, IF hook[t] \in Gate THEN "count" ELSE Persisting)
            /\ UNCHANGED step
    /\ UNCHANGED <<counters, stop_reason, late, receipt, hook, arg, reason,
                   draft, begun, historyVars>>

\* Mutant of Count: the counter is left for the answer.
CountNothing(t) ==
    /\ at[t] = "count"
    /\ MoveTo(t, Persisting)
    /\ UNCHANGED <<counters, stop_reason, late, receipt, hook, step, arg,
                   reason, draft, begun, historyVars>>

Count(t) ==
    /\ at[t] = "count"
    /\ counters' = [counters EXCEPT ![CountedBy[hook[t]]] = @ + 1]
    /\ MoveTo(t, Persisting)
    /\ UNCHANGED <<stop_reason, late, receipt, hook, step, arg, reason, draft,
                   begun, historyVars>>

-----------------------------------------------------------------------------
(* record_model_response                                                   *)

RecordModelResponse(t) ==
    \E u \in Usage : EnterHook(t, "record_model_response", u, "add")

\* A cost that is not reported comes from the rate card.
ReportedUsage(u, counter) ==
    CASE counter = "input_tokens" -> u.input
      [] counter = "output_tokens" -> u.output
      [] counter = "cost_usd" /\ u.cost # Nothing -> u.cost
      [] OTHER -> u.input * Rates.input + u.output * Rates.output

AddValue(t) ==
    /\ at[t] = "add"
    /\ LET counter == ResponseValues[step[t]]
           value == ReportedUsage(arg[t], counter)
       IN /\ value >= 0
          /\ counters' = [counters EXCEPT ![counter] = @ + value]
    /\ IF step[t] < 3
       THEN step' = [step EXCEPT ![t] = @ + 1] /\ UNCHANGED at
       ELSE MoveTo(t, "total") /\ UNCHANGED step
    /\ UNCHANGED <<stop_reason, late, receipt, hook, arg, reason, draft, begun,
                   historyVars>>

\* ValueError: what was added before stays, and there is no total, no
\* judgement and no receipt.
RejectValue(t) ==
    /\ at[t] = "add"
    /\ ReportedUsage(arg[t], ResponseValues[step[t]]) < 0
    /\ LeaveHook(t)
    /\ mishaps' = mishaps \cup {"rejected"}
    /\ UNCHANGED <<counters, stop_reason, late, receipt, begun, granted,
                   lateGrants, overlap>>

\* The first response limit, in order, that the counters exceed.
FirstExceeded(c) ==
    LET over == {i \in 1..4 : /\ Limits[ResponseLimits[i]] # Nothing
                              /\ c[Measured[ResponseLimits[i]]]
                                   > Limits[ResponseLimits[i]]}
    IN IF over = {} THEN Nothing
       ELSE ResponseLimits[CHOOSE i \in over : \A j \in over : i <= j]

\* Mutant of Total: the limits are judged by the total of before.
TotalAfterwards(t) ==
    /\ at[t] = "total"
    /\ counters' = [counters EXCEPT !["total_tokens"] =
                      counters["input_tokens"] + counters["output_tokens"]]
    /\ reason' = [reason EXCEPT ![t] = FirstExceeded(counters)]
    /\ MoveTo(t, IF reason'[t] = Nothing THEN Persisting ELSE "stop")
    /\ UNCHANGED <<stop_reason, late, receipt, hook, step, arg, draft, begun,
                   historyVars>>

\* The total is renewed and the four counters are read for the judgement.
Total(t) ==
    /\ at[t] = "total"
    /\ counters' = [counters EXCEPT !["total_tokens"] =
                      counters["input_tokens"] + counters["output_tokens"]]
    /\ reason' = [reason EXCEPT ![t] = FirstExceeded(counters')]
    /\ MoveTo(t, IF reason'[t] = Nothing THEN Persisting ELSE "stop")
    /\ UNCHANGED <<stop_reason, late, receipt, hook, step, arg, draft, begun,
                   historyVars>>

-----------------------------------------------------------------------------
(* The end of every hook: stop_reason, and the receipt of _persist.        *)

Stop(t) ==
    /\ at[t] = "stop"
    /\ stop_reason' = reason[t]
    /\ MoveTo(t, Persisting)
    /\ UNCHANGED <<counters, late, receipt, hook, step, arg, reason, draft,
                   begun, historyVars>>

\* receipt() reads stop_reason and refers to the counters ...
ReadStopReason(t) ==
    /\ at[t] = "receipt"
    /\ draft' = [draft EXCEPT ![t] = [counters |-> counters,
                                      stop_reason |-> stop_reason]]
    /\ MoveTo(t, "encode")
    /\ UNCHANGED <<counters, stop_reason, late, receipt, hook, step, arg,
                   reason, begun, historyVars>>

\* ... whose values are read when json.dumps comes to them.
Encode(t) ==
    /\ at[t] = "encode"
    /\ draft' = [draft EXCEPT ![t].counters = counters]
    /\ MoveTo(t, "write")
    /\ UNCHANGED <<counters, stop_reason, late, receipt, hook, step, arg,
                   reason, begun, historyVars>>

\* A gate that returns normally grants what it was asked for.
Grants(t) == hook[t] \in Gate /\ reason[t] = Nothing

\* The receipt is replaced, if one is kept, and the hook returns or raises
\* BudgetExceeded.
Finish(t) ==
    /\ at[t] = "write"
    /\ receipt' = IF KeepsReceipt THEN draft[t] ELSE receipt
    /\ granted' = IF Grants(t) THEN [granted EXCEPT ![hook[t]] = @ + 1]
                  ELSE granted
    /\ lateGrants' = IF /\ Grants(t)
                        /\ hook[t] = "before_model_call"
                        /\ stop_reason # Nothing
                     THEN lateGrants + 1 ELSE lateGrants
    /\ LeaveHook(t)
    /\ UNCHANGED <<counters, stop_reason, late, begun, overlap, mishaps>>

\* atomic_write_text fails, or its lock times out: the hook raises that.
FinishUnsaved(t) ==
    /\ at[t] = "write"
    /\ KeepsReceipt
    /\ LeaveHook(t)
    /\ mishaps' = mishaps \cup {"unsaved"}
    /\ UNCHANGED <<counters, stop_reason, late, receipt, begun, granted,
                   lateGrants, overlap>>

-----------------------------------------------------------------------------
\* The wall clock passes the limit of the run.
TimePasses ==
    /\ ~late
    /\ late' = TRUE
    /\ UNCHANGED <<counters, stop_reason, receipt, threadVars, begun,
                   historyVars>>

Step(t) ==
    \/ BeforeModelCall(t) \/ BeforeOther(t) \/ RecordModelResponse(t)
    \/ CheckFails(t) \/ CheckPasses(t) \/ Count(t)
    \/ AddValue(t) \/ RejectValue(t) \/ Total(t)
    \/ Stop(t) \/ ReadStopReason(t) \/ Encode(t)
    \/ Finish(t) \/ FinishUnsaved(t)

BudgetNext == TimePasses \/ \E t \in Thread : Step(t)

BudgetSpec == BudgetInit /\ [][BudgetNext]_budgetVars

-----------------------------------------------------------------------------
(* Properties                                                              *)

\* Every variable keeps its type.
BudgetTypeOK ==
    /\ counters \in Counters
    /\ stop_reason \in LimitKey \cup {Nothing}
    /\ late \in BOOLEAN
    /\ receipt \in Receipt \cup {Nothing}
    /\ hook \in [Thread -> Hook \cup {Nothing}]
    /\ at \in [Thread -> HookPoint]
    /\ step \in [Thread -> 1..5]
    /\ arg \in [Thread -> Estimate \cup Usage \cup {Nothing}]
    /\ reason \in [Thread -> LimitKey \cup {Nothing}]
    /\ draft \in [Thread -> Receipt \cup {Nothing}]
    /\ begun \in 0..MaxHooks
    /\ granted \in [Gate -> Nat]
    /\ lateGrants \in Nat
    /\ overlap \in Nat
    /\ mishaps \subseteq {"rejected", "unsaved"}

\* The limit that bounds a gate.
LimitOf == [before_model_call |-> Limits["max_model_calls"],
            before_tool_call |-> Limits["max_tool_calls"],
            record_retry |-> Limits["max_retries"]]

\* A gate lets through no more calls than its limit, and at most one more for
\* each other hook that was in progress at once: the check and the increment
\* are two steps without a lock.  With one thread the limit is exact.
GrantsWithinLimits ==
    \A g \in Gate : LimitOf[g] # Nothing => granted[g] <= LimitOf[g] + overlap

\* Once a limit stopped the run, the model calls still let through are those
\* whose hooks were already in progress: with one thread there are none.
LateGrantsBounded == lateGrants <= overlap

\* What responses really reported against a limit.
Spent(key) ==
    IF key = "max_total_tokens"
    THEN counters["input_tokens"] + counters["output_tokens"]
    ELSE counters[Measured[key]]

\* Unless a response was rejected half way, an overage is a gate for the next
\* model call as soon as no response is being recorded.
OverageStops ==
    (\A t \in Thread : at[t] \notin {"add", "total", "stop"}) =>
        \A i \in 1..4 :
            LET key == ResponseLimits[i] IN
              (Limits[key] # Nothing /\ Spent(key) > Limits[key]) =>
                 stop_reason # Nothing \/ "rejected" \in mishaps

-----------------------------------------------------------------------------
(* The inductive invariant behind the bounds                               *)

\* The check of a gate that looks at the counter it increments.
CountCheck == [before_model_call |-> 2, before_tool_call |-> 2,
               record_retry |-> 1]

\* The call is let through, and not counted yet.
Passed(g) ==
    {t \in Thread : /\ hook[t] = g
                    /\ \/ at[t] = "count"
                       \/ at[t] = "check" /\ step[t] > CountCheck[g]}

\* The call is counted, and its hook has not returned yet.
Counted(g) ==
    {t \in Thread : /\ hook[t] = g
                    /\ reason[t] = Nothing
                    /\ at[t] \in {"receipt", "encode", "write"}}

\* The call may still be granted.
InFlight ==
    {t \in Thread : hook[t] = "before_model_call" /\ reason[t] = Nothing}

\* A thread is where its hook can be, with what it needs there.
FrameOK(t) ==
    /\ hook[t] = Nothing <=> at[t] = "idle"
    /\ at[t] = "idle" => step[t] = 1 /\ reason[t] = Nothing
    /\ at[t] = "check" =>
          /\ hook[t] \in DOMAIN Checks
          /\ step[t] <= Len(Checks[hook[t]])
          /\ hook[t] = "before_model_call" => arg[t] \in Estimate
          /\ reason[t] = Nothing
    /\ at[t] = "count" => hook[t] \in Gate /\ reason[t] = Nothing
    /\ at[t] \in {"add", "total"} =>
          /\ hook[t] = "record_model_response"
          /\ step[t] <= 3
          /\ arg[t] \in Usage
          /\ reason[t] = Nothing
    /\ at[t] = "stop" => reason[t] # Nothing
    /\ at[t] = "encode" => draft[t] \in Receipt
    /\ at[t] = "write" /\ KeepsReceipt => draft[t] \in Receipt

FramesOK == \A t \in Thread : FrameOK(t)

\* The history of overlaps knows of the hooks now in progress.
OverlapKnown == Cardinality(Busy) <= overlap + 1

\* Calls counted and calls let through together exceed a limit by no more
\* than the hooks that overlapped.
RoomLeft ==
    \A g \in Gate : LimitOf[g] # Nothing =>
        counters[CountedBy[g]] + Cardinality(Passed(g)) <= LimitOf[g] + overlap

\* Every grant was counted before.
GrantsCounted ==
    \A g \in Gate :
        granted[g] + Cardinality(Counted(g)) <= counters[CountedBy[g]]

\* A stopped run has no more grants to come than hooks that overlapped.
LateOnesKnown ==
    IF stop_reason = Nothing THEN lateGrants = 0
    ELSE lateGrants + Cardinality(InFlight) <= overlap

\* The invariant that carries the bounds on the grants, and the stop that
\* follows an overage, from step to step.
GuardrailsInv ==
    /\ BudgetTypeOK
    /\ FramesOK
    /\ OverlapKnown
    /\ RoomLeft
    /\ GrantsCounted
    /\ LateOnesKnown
    /\ OverageStops
=============================================================================
