----------------------------- MODULE Governance -----------------------------
(***************************************************************************)
(* Commands that ask the policy, do something and say so in the audit log: *)
(*   "tool"    ToolExecutor.run                                            *)
(*   "patch"   PatchManager.apply                                          *)
(*   "mcp"     AiplaneMcpServer.call_tool with a mutating tool             *)
(*   "grant"   policy grant --yes: an expiring exception for one action    *)
(*   "revoke"  policy revoke --yes                                         *)
(* The commands are processes that interleave; time passes, the profile's  *)
(* policy is edited and commands die between any two steps.  The grants    *)
(* file is written by atomic_update_json, which Persistence shows to take  *)
(* effect at one instant; a read of it is therefore one step too.          *)
(***************************************************************************)
EXTENDS Naturals, Sequences, FiniteSets, AuditLog

CONSTANTS
    Call,        \* the commands; each runs once, and names the grant it makes
    Action,      \* the policy actions
    Mixes,       \* \subseteq [Call -> Op]: what the commands may be
    Lifetime,    \* durations of --expires-in
    MaxTime,     \* bound: the clock stops there
    Malformed    \* a grants file that does not parse

VARIABLES
    clock,     \* 0..MaxTime
    base,      \* [Action -> Base]: what the profile says now
    grants,    \* Seq(Grant) or Malformed: the grants file
    op,        \* [Call -> Op]
    pc,        \* [Call -> Location]
    act,       \* [Call -> Action]: the action the command is about
    loaded,    \* [Call -> Base]: the profile's word when it was loaded
    since,     \* [Call -> Nat]: the "now" a grant was computed with
    say,       \* [Call -> decision]: what the next audit event tells
    effects    \* the commands whose action took effect

callVars == <<op, pc, act, loaded, since, say>>
vars == <<clock, base, grants, callVars, effects, logVars>>

Op == {"tool", "patch", "mcp", "grant", "revoke"}

\* blocked: not allowed; approval: allowed with requires_approval.
Base == {"blocked", "approval", "allowed"}

Decision == {"allowed", "failed", "blocked", "approval_denied", "granted",
             "revoked", "validation_failed", "confirmation_required"}

Location == {"new", "loaded", "granting", "ask", "run", "audit", "returned",
             "raised", "dead"}

Ended == {"returned", "raised", "dead"}

Kind == {"temporary_approval", "override"}

Grant == [id : Call, action : Action, kind : Kind, expiry : Nat]

ASSUME GovernanceAssumption ==
    /\ Mixes \subseteq [Call -> Op]
    /\ Event = Call \X Decision
    /\ MaxTime \in Nat
    /\ Lifetime \subseteq Nat \ {0}

TypeOK ==
    /\ LogTypeOK
    /\ clock \in 0..MaxTime
    /\ base \in [Action -> Base]
    /\ grants # Malformed => \A i \in DOMAIN grants : grants[i] \in Grant
    /\ op \in Mixes
    /\ pc \in [Call -> Location]
    /\ act \in [Call -> Action]
    /\ loaded \in [Call -> Base]
    /\ since \in [Call -> 0..MaxTime]
    /\ say \in [Call -> Decision]
    /\ effects \subseteq Call

Init ==
    /\ LogInit
    /\ clock = 0
    /\ base \in [Action -> Base]
    /\ grants = <<>>
    /\ op \in Mixes
    /\ pc = [c \in Call |-> "new"]
    /\ act \in [Call -> Action]
    /\ loaded = [c \in Call |-> "blocked"]
    /\ since = [c \in Call |-> 0]
    /\ say = [c \in Call |-> "failed"]
    /\ effects = {}

Goto(c, location) == pc' = [pc EXCEPT ![c] = location]

\* The command ends; what it had read is gone.
End(c, how) ==
    /\ Goto(c, how)
    /\ loaded' = [loaded EXCEPT ![c] = "blocked"]
    /\ since' = [since EXCEPT ![c] = 0]

\* The event the command will record next.
Say(c, decision) ==
    /\ say' = [say EXCEPT ![c] = decision]
    /\ Goto(c, "audit")

-----------------------------------------------------------------------------
(* The policy.                                                             *)

\* PolicyGrantStore.active
Active(a, now) ==
    {i \in DOMAIN grants : grants[i].action = a /\ grants[i].expiry > now}

\* Mutant of Usable: any active grant of the action counts.
UsableOfAnyKind(a, word) == Active(a, clock)

\* The grants _apply_grant lets change the profile's word.
Usable(a, word) ==
    {i \in Active(a, clock) :
        \/ grants[i].kind = "temporary_approval" /\ word = "approval"
        \/ grants[i].kind = "override" /\ word = "blocked"}

\* PolicyEngine.tool_decision; a file that does not parse blocks everything.
Outcome(a, word) ==
    IF grants = Malformed THEN "blocked"
    ELSE IF Usable(a, word) # {} THEN "allowed"
    ELSE word

-----------------------------------------------------------------------------
(* The commands.                                                           *)

\* load_profile: the policy of this command from here on.
LoadProfile(c) ==
    /\ pc[c] = "new"
    /\ loaded' = [loaded EXCEPT ![c] = base[act[c]]]
    /\ Goto(c, "loaded")
    /\ UNCHANGED <<clock, base, grants, op, act, since, say, effects, logVars>>

\* The command raises before it has anything to record.
Refuse(c) ==
    /\ End(c, "raised")
    /\ UNCHANGED <<clock, base, grants, op, act, say, effects, logVars>>

DecideTool(c) ==
    /\ pc[c] = "loaded"
    /\ op[c] = "tool"
    /\ \/ Outcome(act[c], loaded[c]) = "blocked" /\ Say(c, "blocked")
       \/ Outcome(act[c], loaded[c]) = "approval" /\ Goto(c, "ask") /\ UNCHANGED say
       \/ Outcome(act[c], loaded[c]) = "allowed" /\ Goto(c, "run") /\ UNCHANGED say
    /\ UNCHANGED <<clock, base, grants, op, act, loaded, since, effects, logVars>>

\* ApprovalHandler.approve: --yes, or the operator's answer, or no terminal.
Approve(c) ==
    /\ pc[c] = "ask"
    /\ \/ Goto(c, "run") /\ UNCHANGED say
       \/ Say(c, "approval_denied")
    /\ UNCHANGED <<clock, base, grants, op, act, loaded, since, effects, logVars>>

\* Validation first, then the write_file policy, then --yes, which stands for
\* the approval too.
DecidePatch(c) ==
    /\ pc[c] = "loaded"
    /\ op[c] = "patch"
    /\ \/ Say(c, "validation_failed")
       \/ /\ Outcome(act[c], loaded[c]) = "blocked"
          /\ Say(c, "blocked")
       \/ /\ Outcome(act[c], loaded[c]) # "blocked"
          /\ \/ Say(c, "confirmation_required")
             \/ Goto(c, "run") /\ UNCHANGED say
    /\ UNCHANGED <<clock, base, grants, op, act, loaded, since, effects, logVars>>

\* A patch that cannot be read, or is unsafe, raises without an event.
PatchUnreadable(c) ==
    /\ pc[c] = "loaded"
    /\ op[c] = "patch"
    /\ Refuse(c)

\* The server's --allow-writes and the call's confirm, no policy.
GateMcp(c) ==
    /\ pc[c] = "loaded"
    /\ op[c] = "mcp"
    /\ \/ Say(c, "blocked")
       \/ Goto(c, "run") /\ UNCHANGED say
    /\ UNCHANGED <<clock, base, grants, op, act, loaded, since, effects, logVars>>

\* Mutant of Handle: a handler's error is recorded like its success.
HandleSwallowed(c) ==
    /\ pc[c] = "run"
    /\ \/ effects' = effects \cup {c}
       \/ UNCHANGED effects
    /\ Say(c, "allowed")
    /\ UNCHANGED <<clock, base, grants, op, act, loaded, since, logVars>>

\* The handler runs; one that raises may have done part of its work.  A tool
\* that is allowed may have no handler.
Handle(c) ==
    /\ pc[c] = "run"
    /\ \/ op[c] = "tool" /\ UNCHANGED effects /\ Say(c, "blocked")
       \/ effects' = effects \cup {c} /\ Say(c, "allowed")
       \/ UNCHANGED effects /\ Say(c, "failed")
       \/ op[c] # "patch" /\ effects' = effects \cup {c} /\ Say(c, "failed")
    /\ UNCHANGED <<clock, base, grants, op, act, loaded, since, logVars>>

KindFor(word) == IF word = "blocked" THEN "override" ELSE "temporary_approval"

\* policy grant: --override is for blocked actions, a plain grant for those
\* that require approval; the grant's times are computed here, before the lock.
BeginGrant(c) ==
    /\ pc[c] = "loaded"
    /\ op[c] = "grant"
    /\ loaded[c] \in {"blocked", "approval"}
    /\ since' = [since EXCEPT ![c] = clock]
    /\ Goto(c, "granting")
    /\ UNCHANGED <<clock, base, grants, op, act, loaded, say, effects, logVars>>

GrantNotApplicable(c) ==
    /\ pc[c] = "loaded"
    /\ op[c] = "grant"
    /\ Refuse(c)

CommitGrant(c) ==
    /\ pc[c] = "granting"
    /\ grants # Malformed
    /\ Active(act[c], since[c]) = {}
    /\ \E lifetime \in Lifetime :
          grants' = Append(grants, [id |-> c, action |-> act[c],
                                    kind |-> KindFor(loaded[c]),
                                    expiry |-> since[c] + lifetime])
    /\ effects' = effects \cup {c}
    /\ Say(c, "granted")
    /\ UNCHANGED <<clock, base, op, act, loaded, since, logVars>>

\* An active grant exists, the file does not parse, or the update times out.
GrantRefused(c) ==
    /\ pc[c] = "granting"
    /\ Refuse(c)

CommitRevoke(c) ==
    /\ pc[c] = "loaded"
    /\ op[c] = "revoke"
    /\ grants # Malformed
    /\ \E i \in DOMAIN grants :
          grants' = SelectSeq(grants, LAMBDA g : g.id # grants[i].id)
    /\ effects' = effects \cup {c}
    /\ Say(c, "revoked")
    /\ UNCHANGED <<clock, base, op, act, loaded, since, logVars>>

RevokeRefused(c) ==
    /\ pc[c] = "loaded"
    /\ op[c] = "revoke"
    /\ Refuse(c)

-----------------------------------------------------------------------------
(* The audit event of a command.                                           *)

RecordOutcome(c) ==
    /\ pc[c] = "audit"
    /\ Record(<<c, say[c]>>)
    /\ End(c, IF say[c] \in {"allowed", "granted", "revoked"}
              \/ op[c] = "patch" THEN "returned" ELSE "raised")
    /\ UNCHANGED <<clock, base, grants, op, act, say, effects>>

\* After a failed append: the tool executor takes its own audit error for an
\* error of the tool and records that; the other commands raise.
AuditError(c) ==
    IF op[c] = "tool" /\ say[c] = "allowed"
    THEN Say(c, "failed") /\ UNCHANGED <<loaded, since>>
    ELSE End(c, "raised") /\ UNCHANGED say

\* The append fails: before the write, in it, or at its fsync.
RecordFails(c) ==
    /\ pc[c] = "audit"
    /\ \/ UNCHANGED logVars
       \/ Tear(<<c, say[c]>>)
       \/ Record(<<c, say[c]>>)
    /\ AuditError(c)
    /\ UNCHANGED <<clock, base, grants, op, act, effects>>

-----------------------------------------------------------------------------
(* The environment.                                                        *)

\* A command is killed; one that is appending leaves what it has written.
Die(c) ==
    /\ pc[c] \notin Ended
    /\ End(c, "dead")
    /\ \/ UNCHANGED logVars
       \/ pc[c] = "audit" /\ Tear(<<c, say[c]>>)
    /\ UNCHANGED <<clock, base, grants, op, act, say, effects>>

Tick ==
    /\ clock < MaxTime
    /\ clock' = clock + 1
    /\ UNCHANGED <<base, grants, callVars, effects, logVars>>

\* The profile's policy is edited.
EditPolicy ==
    /\ \E a \in Action, word \in Base : base' = [base EXCEPT ![a] = word]
    /\ UNCHANGED <<clock, grants, callVars, effects, logVars>>

\* The grants file is edited by hand, wrongly.
SpoilGrants ==
    /\ grants # Malformed
    /\ grants' = Malformed
    /\ UNCHANGED <<clock, base, callVars, effects, logVars>>

Next ==
    \/ \E c \in Call :
          \/ LoadProfile(c)
          \/ DecideTool(c) \/ Approve(c)
          \/ DecidePatch(c) \/ PatchUnreadable(c)
          \/ GateMcp(c)
          \/ Handle(c)
          \/ BeginGrant(c) \/ GrantNotApplicable(c)
          \/ CommitGrant(c) \/ GrantRefused(c)
          \/ CommitRevoke(c) \/ RevokeRefused(c)
          \/ RecordOutcome(c) \/ RecordFails(c)
          \/ Die(c)
    \/ Tick
    \/ EditPolicy
    \/ SpoilGrants

Spec == Init /\ [][Next]_vars

-----------------------------------------------------------------------------
(* Properties.                                                             *)

\* A tool or a patch passes the gate only on the profile's word, on the
\* operator's word where the profile asks for it, or on a grant that is in the
\* file, unexpired, for this action and of the kind the profile's word calls
\* for.  A blocked action has no way around an override.
GateHonoursPolicy ==
    [][\A c \in Call :
          pc[c] # "run" /\ pc'[c] = "run" /\ op[c] \in {"tool", "patch"} =>
             \/ loaded[c] = "allowed"
             \/ loaded[c] = "approval" /\ (pc[c] = "ask" \/ op[c] = "patch")
             \/ /\ grants # Malformed
                /\ \E i \in DOMAIN grants :
                      /\ grants[i].action = act[c]
                      /\ grants[i].expiry > clock
                      /\ grants[i].kind = KindFor(loaded[c])]_vars

\* The log tells the truth: an action it calls allowed, granted or revoked has
\* taken effect, one it calls blocked or denied has not, a command that
\* returned normally has its event in the file, and each interrupted append
\* costs the reader at most one such event.
LogTellsTheTruth ==
    LET Returned == {c \in Call : pc[c] = "returned"}
    IN /\ \A c \in Call :
             /\ \A good \in {"allowed", "granted", "revoked"} :
                   <<c, good>> \in Written => c \in effects
             /\ \A bad \in Decision \ {"allowed", "granted", "revoked", "failed"} :
                   <<c, bad>> \in Written => c \notin effects
       /\ \A c \in Returned : <<c, say[c]>> \in Written
       /\ Cardinality({c \in Returned : <<c, say[c]>> \notin Reported}) <= tears
=============================================================================
