--------------------------- MODULE GovernanceProofs ---------------------------
(***************************************************************************)
(* What the repository's policy lets out, for any number of commands.      *)
(*                                                                         *)
(* First the gate of an action: nothing passes it but on the policy's      *)
(* word, and the audit log tells the truth.  The invariant says why the    *)
(* log is honest: a command has no event in it and no effect before it has *)
(* come to its outcome, and what it is about to say agrees with what it    *)
(* did, also where an append of it has failed.                             *)
(*                                                                         *)
(* Then what is printed for other programs, for any catalog and any        *)
(* changes of it: that it is allowed, that what a doctor passes is         *)
(* exported, that a bundle validates only as it was rendered, and that a   *)
(* clean setup prepares what it selected.                                  *)
(***************************************************************************)
EXTENDS Governance, AgentArtifacts, LocalDoctor, FiniteSetTheorems, SequenceTheorems, TLAPS

Good == {"allowed", "granted", "revoked"}
Bad == Decision \ {"allowed", "granted", "revoked", "failed"}

\* Nothing is decided yet, or what was decided is being done.
Early == {"new", "loaded", "granting", "ask", "run"}

TypesOK ==
    /\ base \in [Action -> Base]
    /\ act \in [Call -> Action]
    /\ loaded \in [Call -> Base]
    /\ pc \in [Call -> Location]
    /\ say \in [Call -> Decision]
    /\ op \in [Call -> Op]
    /\ effects \subseteq Call

LinesOK == lines \in Seq(Seq(Event \cup {Part})) /\ lines # <<>>

\* Only a tool whose action requires approval waits for the operator.
AskedForApproval ==
    \A c \in Call : pc[c] = "ask" => loaded[c] = "approval" /\ op[c] = "tool"

NothingEarly ==
    \A c \in Call :
        pc[c] \in Early =>
            c \notin effects /\ \A d \in Decision : <<c, d>> \notin Written

SayAgrees ==
    \A c \in Call :
        pc[c] = "audit" => /\ say[c] \in Good => c \in effects
                           /\ say[c] \in Bad => c \notin effects

\* The part of LogTellsTheTruth that speaks of single events.
EventsAreTrue ==
    \A c \in Call : /\ \A good \in Good : <<c, good>> \in Written => c \in effects
                    /\ \A bad \in Bad : <<c, bad>> \in Written => c \notin effects

ReturnedIsLogged ==
    \A c \in Call : pc[c] = "returned" => <<c, say[c]>> \in Written

GovernanceInv ==
    /\ TypesOK
    /\ LinesOK
    /\ AskedForApproval
    /\ NothingEarly
    /\ SayAgrees
    /\ EventsAreTrue
    /\ ReturnedIsLogged

-----------------------------------------------------------------------------

\* What an append does to the events of the file: a complete one adds its own,
\* a torn one adds its own or none.
LEMMA TextIsAdded ==
    ASSUME LinesOK, NEW text \in Event \cup {Part}
    PROVE  /\ AddToLastLine(text) \in Seq(Seq(Event \cup {Part}))
           /\ Len(AddToLastLine(text)) = Len(lines)
           /\ \A i \in DOMAIN lines :
                 AddToLastLine(text)[i] = IF i = Len(lines)
                                          THEN Append(lines[i], text) ELSE lines[i]
<1>1. Len(lines) \in DOMAIN lines /\ lines[Len(lines)] \in Seq(Event \cup {Part})
  BY DEF LinesOK
<1>2. Append(lines[Len(lines)], text) \in Seq(Event \cup {Part})
  BY <1>1
<1> QED BY <1>1, <1>2 DEF AddToLastLine, LinesOK

EventsOf(all) ==
    (UNION {{all[i][j] : j \in DOMAIN all[i]} : i \in DOMAIN all}) \ {Part}

\* Text added to the last line is one event more, or a part that is none.
LEMMA EventsAdded ==
    ASSUME LinesOK, NEW text \in Event \cup {Part}
    PROVE  EventsOf(AddToLastLine(text)) = (EventsOf(lines) \cup {text}) \ {Part}
<1> DEFINE new == AddToLastLine(text)
           last == Len(lines)
<1>1. /\ last \in DOMAIN lines /\ DOMAIN new = DOMAIN lines
      /\ \A i \in DOMAIN lines :
            new[i] = IF i = last THEN Append(lines[i], text) ELSE lines[i]
      /\ \A i \in DOMAIN lines : lines[i] \in Seq(Event \cup {Part})
  BY TextIsAdded DEF LinesOK
<1>2. {new[last][j] : j \in DOMAIN new[last]}
        = {lines[last][j] : j \in DOMAIN lines[last]} \cup {text}
  <2>1. new[last] = Append(lines[last], text) /\ lines[last] \in Seq(Event \cup {Part})
    BY <1>1
  <2> HIDE DEF new, last
  <2>2. /\ DOMAIN new[last] = DOMAIN lines[last] \cup {Len(lines[last]) + 1}
        /\ \A j \in DOMAIN lines[last] : new[last][j] = lines[last][j]
        /\ new[last][Len(lines[last]) + 1] = text
    BY <2>1
  <2> QED BY <2>2
<1>3. \A i \in DOMAIN lines \ {last} : new[i] = lines[i]
  BY <1>1
<1> HIDE DEF new, last
<1>4. UNION {{new[i][j] : j \in DOMAIN new[i]} : i \in DOMAIN new}
        = (UNION {{lines[i][j] : j \in DOMAIN lines[i]} : i \in DOMAIN lines})
             \cup {text}
  <2> DEFINE NewOf(i) == {new[i][j] : j \in DOMAIN new[i]}
             OldOf(i) == {lines[i][j] : j \in DOMAIN lines[i]}
  <2>1. /\ last \in DOMAIN lines /\ DOMAIN new = DOMAIN lines
        /\ NewOf(last) = OldOf(last) \cup {text}
        /\ \A i \in DOMAIN lines \ {last} : NewOf(i) = OldOf(i)
    BY <1>1, <1>2, <1>3
  <2> HIDE DEF NewOf, OldOf
  <2>2. UNION {NewOf(i) : i \in DOMAIN new}
          = (UNION {OldOf(i) : i \in DOMAIN lines}) \cup {text}
    BY <2>1
  <2> QED BY <2>2 DEF NewOf, OldOf
<1> QED BY <1>4 DEF EventsOf, new

\* A new line holds no event yet.
LEMMA LineEndAddsNone ==
    ASSUME NEW all \in Seq(Seq(Event \cup {Part}))
    PROVE  EventsOf(Append(all, <<>>)) = EventsOf(all)
<1> DEFINE new == Append(all, <<>>)
           NewOf(i) == {new[i][j] : j \in DOMAIN new[i]}
           OldOf(i) == {all[i][j] : j \in DOMAIN all[i]}
<1>1. /\ DOMAIN new = DOMAIN all \cup {Len(all) + 1}
      /\ \A i \in DOMAIN all : new[i] = all[i]
      /\ new[Len(all) + 1] = <<>>
  OBVIOUS
<1>2. \A i \in DOMAIN all : NewOf(i) = OldOf(i)
  BY <1>1
<1>3. NewOf(Len(all) + 1) = {}
  BY <1>1
<1> HIDE DEF NewOf, OldOf
<1>4. UNION {NewOf(i) : i \in DOMAIN new} = UNION {OldOf(i) : i \in DOMAIN all}
  BY <1>1, <1>2, <1>3
<1> QED BY <1>4 DEF EventsOf, NewOf, OldOf

\* An append that completes adds its event.
LEMMA RecordAdds ==
    ASSUME LinesOK, NEW e \in Event, Record(e)
    PROVE  LinesOK' /\ Written' = Written \cup {e}
<1>1. e \in Event \cup {Part} /\ e # Part
  BY AuditAssumption
<1>2. AddToLastLine(e) \in Seq(Seq(Event \cup {Part}))
  BY <1>1, TextIsAdded
<1>3. LinesOK'
  BY <1>2 DEF Record, LinesOK
<1>4. EventsOf(lines') = EventsOf(AddToLastLine(e))
  BY <1>2, LineEndAddsNone DEF Record
<1>5. EventsOf(AddToLastLine(e)) = (EventsOf(lines) \cup {e}) \ {Part}
  BY <1>1, EventsAdded
<1>6. EventsOf(lines') = EventsOf(lines) \cup {e}
  BY <1>1, <1>4, <1>5 DEF EventsOf
<1> QED BY <1>3, <1>6 DEF EventsOf, Written

\* An append that is interrupted adds its event or nothing.
LEMMA TearAdds ==
    ASSUME LinesOK, NEW e \in Event, Tear(e)
    PROVE  LinesOK' /\ (Written' = Written \/ Written' = Written \cup {e})
<1>1. PICK text \in {Part, e} : lines' = AddToLastLine(text)
  BY DEF Tear
<1>2. text \in Event \cup {Part} /\ e # Part
  BY AuditAssumption
<1>3. LinesOK'
  <2>1. Len(lines') = Len(lines) /\ lines' \in Seq(Seq(Event \cup {Part}))
    BY <1>1, <1>2, TextIsAdded
  <2> QED BY <2>1 DEF LinesOK
<1>4. EventsOf(lines') = (EventsOf(lines) \cup {text}) \ {Part}
  BY <1>1, <1>2, EventsAdded
<1>5. EventsOf(lines') = EventsOf(lines) \/ EventsOf(lines') = EventsOf(lines) \cup {e}
  BY <1>2, <1>4 DEF EventsOf
<1> QED BY <1>3, <1>5 DEF EventsOf, Written

-----------------------------------------------------------------------------

\* At first no command has decided anything and the log is empty.
LEMMA GovernanceStarts == Init => GovernanceInv
<1> SUFFICES ASSUME Init PROVE GovernanceInv
  OBVIOUS
<1>1. lines = << <<>> >>
  BY DEF Init, LogInit
<1>2. LinesOK
  BY <1>1 DEF LinesOK
<1>3. Written = {}
  BY <1>1 DEF Written
<1>4. \A c \in Call : pc[c] = "new" /\ c \notin effects
  BY DEF Init
<1>5. TypesOK
  BY GovernanceAssumption DEF Init, TypesOK, Base, Location, Decision
<1> QED BY <1>2, <1>3, <1>4, <1>5
        DEF GovernanceInv, AskedForApproval, NothingEarly, SayAgrees, EventsAreTrue,
            ReturnedIsLogged

\* A step of one command that appends nothing, leaves it where its parts of the
\* invariant hold, and gives it no effect that an event of it denies.
LEMMA QuietStep ==
    ASSUME GovernanceInv, NEW c \in Call, UNCHANGED <<lines, op, act, base>>,
           NEW l \in Location, pc' = [pc EXCEPT ![c] = l],
           NEW w \in Base, loaded' = [loaded EXCEPT ![c] = w],
           NEW d \in Decision, say' = [say EXCEPT ![c] = d],
           effects' = effects \/ effects' = effects \cup {c},
           l = "ask" => w = "approval" /\ op[c] = "tool",
           l \in Early => pc[c] \in Early /\ effects' = effects,
           l = "audit" => /\ d \in Good => c \in effects'
                          /\ d \in Bad => c \notin effects',
           effects' # effects => pc[c] \in Early,
           l # "returned"
    PROVE  GovernanceInv'
<1>1. Written' = Written
  BY DEF Written
<1>2. TypesOK' /\ LinesOK'
  BY DEF GovernanceInv, TypesOK, LinesOK
<1>3. \A x \in Call \ {c} : /\ pc'[x] = pc[x] /\ say'[x] = say[x]
                            /\ loaded'[x] = loaded[x]
                            /\ (x \in effects') = (x \in effects)
  BY DEF GovernanceInv, TypesOK
<1>4. pc'[c] = l /\ say'[c] = d /\ loaded'[c] = w
  BY DEF GovernanceInv, TypesOK
<1>5. AskedForApproval'
  BY <1>3, <1>4 DEF GovernanceInv, AskedForApproval
<1>6. NothingEarly'
  BY <1>1, <1>3, <1>4 DEF GovernanceInv, NothingEarly
<1>7. SayAgrees'
  BY <1>3, <1>4 DEF GovernanceInv, SayAgrees
<1>8. EventsAreTrue'
  <2>1. c \in effects' /\ c \notin effects => \A b \in Bad : <<c, b>> \notin Written
    BY DEF GovernanceInv, NothingEarly, Bad
  <2> QED BY <1>1, <1>3, <2>1 DEF GovernanceInv, EventsAreTrue
<1>9. ReturnedIsLogged'
  BY <1>1, <1>3, <1>4 DEF GovernanceInv, ReturnedIsLogged
<1> QED BY <1>2, <1>5, <1>6, <1>7, <1>8, <1>9 DEF GovernanceInv

\* A step of a command that is about to append: its event, or nothing, is in
\* the file afterwards, and it stops there or says that it failed.
LEMMA LoggingStep ==
    ASSUME GovernanceInv, NEW c \in Call, pc[c] = "audit",
           UNCHANGED <<op, act, base, effects>>, LinesOK',
           Written' = Written \/ Written' = Written \cup {<<c, say[c]>>},
           NEW l \in {"returned", "raised", "dead", "audit"},
           pc' = [pc EXCEPT ![c] = l],
           NEW w \in Base, loaded' = [loaded EXCEPT ![c] = w],
           NEW d \in Decision, say' = [say EXCEPT ![c] = d],
           l = "audit" => d = "failed",
           l = "returned" => d = say[c] /\ <<c, d>> \in Written'
    PROVE  GovernanceInv'
<1>1. TypesOK'
  BY DEF GovernanceInv, TypesOK, Location
<1>2. \A x \in Call \ {c} : /\ pc'[x] = pc[x] /\ say'[x] = say[x]
                            /\ loaded'[x] = loaded[x]
                            /\ \A y : (<<x, y>> \in Written') = (<<x, y>> \in Written)
  BY DEF GovernanceInv, TypesOK
<1>3. pc'[c] = l /\ say'[c] = d /\ loaded'[c] = w
  BY DEF GovernanceInv, TypesOK
<1>4. AskedForApproval'
  BY <1>2, <1>3 DEF GovernanceInv, AskedForApproval
<1>5. NothingEarly'
  BY <1>2, <1>3 DEF GovernanceInv, NothingEarly, Early
<1>6. SayAgrees'
  BY <1>2, <1>3 DEF GovernanceInv, SayAgrees, Good, Bad
<1>7. EventsAreTrue'
  BY <1>2 DEF GovernanceInv, SayAgrees, EventsAreTrue
<1>8. ReturnedIsLogged'
  BY <1>2, <1>3 DEF GovernanceInv, ReturnedIsLogged
<1> QED BY <1>1, <1>4, <1>5, <1>6, <1>7, <1>8 DEF GovernanceInv

\* End and Say in the terms of the two lemmas.
LEMMA EndMoves ==
    ASSUME TypesOK, NEW c \in Call, NEW l, End(c, l)
    PROVE  /\ pc' = [pc EXCEPT ![c] = l]
           /\ loaded' = [loaded EXCEPT ![c] = "blocked"]
           /\ UNCHANGED say => say' = [say EXCEPT ![c] = say[c]]
BY DEF End, Goto, TypesOK

\* What a step leaves of a command can be written as a change to the same value.
LEMMA Unchanging ==
    ASSUME TypesOK, NEW c \in Call
    PROVE  /\ say = [say EXCEPT ![c] = say[c]] /\ say[c] \in Decision
           /\ loaded = [loaded EXCEPT ![c] = loaded[c]] /\ loaded[c] \in Base
BY DEF TypesOK

\* Asking the operator means that the policy said so.
LEMMA AskingIsBased ==
    ASSUME NEW a, NEW word, Outcome(a, word) = "approval"
    PROVE  word = "approval"
BY DEF Outcome

\* Each step of a command keeps the invariant.
LEMMA CallKeeps ==
    ASSUME GovernanceInv, NEW c \in Call,
           \/ LoadProfile(c) \/ DecideTool(c) \/ Approve(c)
           \/ DecidePatch(c) \/ PatchUnreadable(c) \/ GateMcp(c) \/ Handle(c)
           \/ BeginGrant(c) \/ GrantNotApplicable(c) \/ CommitGrant(c)
           \/ GrantRefused(c) \/ CommitRevoke(c) \/ RevokeRefused(c)
           \/ RecordOutcome(c) \/ RecordFails(c) \/ Die(c)
    PROVE  GovernanceInv'
<1> USE DEF GovernanceInv
<1>0. /\ say = [say EXCEPT ![c] = say[c]] /\ say[c] \in Decision
      /\ loaded = [loaded EXCEPT ![c] = loaded[c]] /\ loaded[c] \in Base
  BY Unchanging
<1>a. pc[c] \in Early => c \notin effects
  BY DEF NothingEarly
<1>b. <<c, say[c]>> \in Event
  BY <1>0, GovernanceAssumption
<1>1. CASE LoadProfile(c)
  <2>1. base[act[c]] \in Base
    BY DEF TypesOK
  <2> QED BY <1>0, <1>1, <2>1, QuietStep
          DEF LoadProfile, Goto, Location, Early, logVars
<1>2. CASE DecideTool(c)
  <2>1. CASE Outcome(act[c], loaded[c]) = "blocked" /\ Say(c, "blocked")
    BY <1>0, <1>2, <1>a, <2>1, QuietStep
       DEF DecideTool, Say, Goto, Location, Decision, Early, Good, Bad, logVars
  <2>2. CASE Outcome(act[c], loaded[c]) = "approval" /\ Goto(c, "ask") /\ UNCHANGED say
    <3>1. /\ pc[c] = "loaded" /\ op[c] = "tool"
          /\ UNCHANGED <<lines, op, act, base, loaded, effects>>
      BY <1>2 DEF DecideTool, logVars
    <3>2. loaded[c] = "approval"
      BY <2>2, AskingIsBased
    <3>3. ASSUME NEW w \in Base, loaded' = [loaded EXCEPT ![c] = w],
                 w = "approval" /\ op[c] = "tool"
          PROVE  GovernanceInv'
      BY <1>0, <2>2, <3>1, <3>3, QuietStep DEF Goto, Location, Early
    <3>4. loaded' = [loaded EXCEPT ![c] = loaded[c]] /\ loaded[c] \in Base
      BY <1>0, <3>1
    <3> HIDE DEF GovernanceInv
    <3> QED BY <3>1, <3>2, <3>3, <3>4
  <2>3. CASE Goto(c, "run") /\ UNCHANGED say
    <3>1. pc[c] = "loaded" /\ UNCHANGED <<lines, op, act, base, loaded, effects>>
      BY <1>2 DEF DecideTool, logVars
    <3> QED BY <1>0, <2>3, <3>1, QuietStep DEF Goto, Location, Early
  <2> QED BY <1>2, <2>1, <2>2, <2>3 DEF DecideTool
<1>3. CASE Approve(c)
  <2>1. CASE Goto(c, "run") /\ UNCHANGED say
    BY <1>0, <1>3, <2>1, QuietStep DEF Approve, Goto, Location, Early, logVars
  <2>2. CASE Say(c, "approval_denied")
    BY <1>0, <1>3, <1>a, <2>2, QuietStep
       DEF Approve, Say, Goto, Location, Decision, Early, Good, Bad, logVars
  <2> QED BY <1>3, <2>1, <2>2 DEF Approve
<1>4. CASE DecidePatch(c)
  <2>1. CASE \E d \in {"validation_failed", "blocked", "confirmation_required"} : Say(c, d)
    BY <1>0, <1>4, <1>a, <2>1, QuietStep
       DEF DecidePatch, Say, Goto, Location, Decision, Early, Good, Bad, logVars
  <2>2. CASE Goto(c, "run") /\ UNCHANGED say
    BY <1>0, <1>4, <2>2, QuietStep DEF DecidePatch, Goto, Location, Early, logVars
  <2> QED BY <1>4, <2>1, <2>2 DEF DecidePatch
<1>5. CASE GateMcp(c)
  <2>1. CASE Say(c, "blocked")
    BY <1>0, <1>5, <1>a, <2>1, QuietStep
       DEF GateMcp, Say, Goto, Location, Decision, Early, Good, Bad, logVars
  <2>2. CASE Goto(c, "run") /\ UNCHANGED say
    BY <1>0, <1>5, <2>2, QuietStep DEF GateMcp, Goto, Location, Early, logVars
  <2> QED BY <1>5, <2>1, <2>2 DEF GateMcp
<1>6. CASE Handle(c)
  <2>1. pc[c] = "run" /\ c \notin effects /\ op' = op
    BY <1>6, <1>a DEF Handle, Early
  <2>2. CASE effects' = effects \cup {c} /\ (Say(c, "allowed") \/ Say(c, "failed"))
    BY <1>0, <1>6, <2>1, <2>2, QuietStep
       DEF Handle, Say, Goto, Location, Decision, Early, Good, Bad, logVars
  <2>3. CASE UNCHANGED effects /\ (Say(c, "blocked") \/ Say(c, "failed"))
    BY <1>0, <1>6, <2>1, <2>3, QuietStep
       DEF Handle, Say, Goto, Location, Decision, Early, Good, Bad, logVars
  <2> QED BY <1>6, <2>2, <2>3 DEF Handle
<1>7. CASE BeginGrant(c)
  <2>1. /\ pc[c] = "loaded" /\ Goto(c, "granting")
        /\ UNCHANGED <<lines, op, act, base, loaded, say, effects>>
    BY <1>7 DEF BeginGrant, logVars
  <2> QED BY <1>0, <2>1, QuietStep DEF Goto, Location, Early
<1>8. CASE CommitGrant(c)
  BY <1>0, <1>8, QuietStep
     DEF CommitGrant, Say, Goto, Location, Decision, Early, Good, Bad, logVars
<1>9. CASE CommitRevoke(c)
  BY <1>0, <1>9, QuietStep
     DEF CommitRevoke, Say, Goto, Location, Decision, Early, Good, Bad, logVars
<1>10. CASE \/ PatchUnreadable(c) \/ GrantNotApplicable(c)
            \/ GrantRefused(c) \/ RevokeRefused(c)
  <2>1. Refuse(c)
    BY <1>10 DEF PatchUnreadable, GrantNotApplicable, GrantRefused, RevokeRefused
  <2> QED BY <1>0, <2>1, EndMoves, QuietStep
          DEF Refuse, Location, Base, Early, logVars
<1>11. CASE RecordOutcome(c)
  <2>1. LinesOK' /\ Written' = Written \cup {<<c, say[c]>>}
    BY <1>11, <1>b, RecordAdds DEF RecordOutcome
  <2>2. PICK l \in {"returned", "raised"} : End(c, l)
    BY <1>11 DEF RecordOutcome
  <2>3. /\ pc' = [pc EXCEPT ![c] = l] /\ loaded' = [loaded EXCEPT ![c] = "blocked"]
        /\ say' = [say EXCEPT ![c] = say[c]]
    BY <1>11, <2>2, EndMoves DEF RecordOutcome
  <2> QED BY <1>0, <1>11, <2>1, <2>3, LoggingStep DEF RecordOutcome, Base
<1>12. CASE RecordFails(c)
  <2>1. LinesOK' /\ (Written' = Written \/ Written' = Written \cup {<<c, say[c]>>})
    <3>1. CASE UNCHANGED logVars
      BY <3>1 DEF LinesOK, Written, logVars
    <3>2. CASE Tear(<<c, say[c]>>)
      BY <1>b, <3>2, TearAdds
    <3>3. CASE Record(<<c, say[c]>>)
      BY <1>b, <3>3, RecordAdds
    <3> QED BY <1>12, <3>1, <3>2, <3>3 DEF RecordFails
  <2>2. CASE Say(c, "failed") /\ UNCHANGED <<loaded, since>>
    BY <1>0, <1>12, <2>1, <2>2, LoggingStep
       DEF RecordFails, Say, Goto, Decision
  <2>3. CASE End(c, "raised") /\ UNCHANGED say
    <3>1. /\ pc' = [pc EXCEPT ![c] = "raised"]
          /\ loaded' = [loaded EXCEPT ![c] = "blocked"]
          /\ say' = [say EXCEPT ![c] = say[c]]
      BY <2>3, EndMoves
    <3> QED BY <1>0, <1>12, <2>1, <3>1, LoggingStep DEF RecordFails, Base
  <2> QED BY <1>12, <2>2, <2>3 DEF RecordFails, AuditError
<1>13. CASE Die(c)
  <2>1. /\ pc' = [pc EXCEPT ![c] = "dead"] /\ loaded' = [loaded EXCEPT ![c] = "blocked"]
        /\ say' = [say EXCEPT ![c] = say[c]]
    BY <1>13, EndMoves DEF Die
  <2>2. CASE UNCHANGED logVars
    BY <1>0, <1>13, <2>1, <2>2, QuietStep DEF Die, Location, Base, Early, logVars
  <2>3. CASE pc[c] = "audit" /\ Tear(<<c, say[c]>>)
    BY <1>0, <1>13, <1>b, <2>1, <2>3, TearAdds, LoggingStep DEF Die, Base
  <2> QED BY <1>13, <2>2, <2>3 DEF Die
<1> QED BY <1>1, <1>2, <1>3, <1>4, <1>5, <1>6, <1>7, <1>8, <1>9, <1>10, <1>11,
           <1>12, <1>13

\* Time, the editor of the policy and of the grants, and a stutter leave the
\* commands and their log alone.
LEMMA SurroundingsKeep ==
    ASSUME GovernanceInv, Tick \/ EditPolicy \/ SpoilGrants \/ UNCHANGED vars
    PROVE  GovernanceInv'
<1>1. UNCHANGED <<op, pc, act, loaded, say, effects, lines>>
  BY DEF Tick, EditPolicy, SpoilGrants, vars, callVars, logVars
<1>2. base' \in [Action -> Base]
  BY DEF Tick, EditPolicy, SpoilGrants, vars, GovernanceInv, TypesOK
<1>3. Written' = Written
  BY <1>1 DEF Written
<1> QED BY <1>1, <1>2, <1>3
        DEF GovernanceInv, TypesOK, LinesOK, AskedForApproval, NothingEarly, SayAgrees,
            EventsAreTrue, ReturnedIsLogged

\* The invariant holds in every reachable state: types, an honest log, and
\* what a command that is under way may say.
THEOREM GovernanceInvariant == Spec => []GovernanceInv
<1>1. GovernanceInv /\ [Next]_vars => GovernanceInv'
  BY CallKeeps, SurroundingsKeep DEF Next
<1> QED BY <1>1, GovernanceStarts, PTL DEF Spec

-----------------------------------------------------------------------------

(* What interrupted appends cost.  A returned command has its event on a   *)
(* line of its own that is ended, or it was appended to a line that a torn *)
(* append left open; that append is counted, and loses no other event.     *)

Whole(c) == \E i \in 1..(Len(lines) - 1) : lines[i] = << <<c, say[c]>> >>

Lost == {c \in Call : pc[c] = "returned" /\ ~Whole(c)}

LeftOpen == IF lines[Len(lines)] = <<>> THEN 0 ELSE 1

LossCounted ==
    /\ tears \in Nat
    /\ IsFiniteSet(Lost)
    /\ Cardinality(Lost) + LeftOpen <= tears

\* At first nothing is lost.
LEMMA LossStarts == Init => LossCounted
<1> SUFFICES ASSUME Init PROVE LossCounted
  OBVIOUS
<1>1. Lost = {} /\ LeftOpen = 0 /\ tears = 0
  BY DEF Init, LogInit, Lost, LeftOpen
<1> QED BY <1>1, FS_EmptySet DEF LossCounted

\* Text goes to the last line: the ones before it stay.
LEMMA EarlierLinesStay ==
    ASSUME LinesOK, NEW text \in Event \cup {Part}
    PROVE  /\ AddToLastLine(text) \in Seq(Seq(Event \cup {Part}))
           /\ Len(AddToLastLine(text)) = Len(lines)
           /\ \A i \in 1..(Len(lines) - 1) : AddToLastLine(text)[i] = lines[i]
<1>1. Len(lines) \in Nat /\ DOMAIN lines = 1..Len(lines)
  BY DEF LinesOK
<1>2. /\ AddToLastLine(text) \in Seq(Seq(Event \cup {Part}))
      /\ Len(AddToLastLine(text)) = Len(lines)
      /\ \A i \in DOMAIN lines :
            AddToLastLine(text)[i] = IF i = Len(lines)
                                     THEN Append(lines[i], text) ELSE lines[i]
  BY TextIsAdded
<1>3. ASSUME NEW i \in 1..(Len(lines) - 1)
      PROVE  AddToLastLine(text)[i] = lines[i]
  <2> DEFINE n == Len(lines)
  <2>1. n \in Nat /\ DOMAIN lines = 1..n /\ i \in 1..(n - 1)
    BY <1>1
  <2> HIDE DEF n
  <2>2. i \in 1..n /\ i # n
    BY <2>1
  <2> QED BY <1>2, <2>1, <2>2 DEF n
<1> QED BY <1>2, <1>3

\* Lines that are ended stay as they are.
LEMMA EndedLinesStay ==
    ASSUME LinesOK, NEW e \in Event, Record(e) \/ Tear(e) \/ UNCHANGED lines
    PROVE  /\ Len(lines) \in Nat \ {0} /\ Len(lines') \in Nat
           /\ Len(lines') >= Len(lines)
           /\ \A i \in 1..(Len(lines) - 1) : lines'[i] = lines[i]
<1>0. Len(lines) \in Nat \ {0} /\ DOMAIN lines = 1..Len(lines)
  BY DEF LinesOK
<1>1. CASE Record(e)
  <2> DEFINE new == AddToLastLine(e)
  <2>1. /\ new \in Seq(Seq(Event \cup {Part})) /\ Len(new) = Len(lines)
        /\ \A i \in 1..(Len(lines) - 1) : new[i] = lines[i]
    BY EarlierLinesStay
  <2>2. lines' = Append(new, <<>>)
    BY <1>1 DEF Record
  <2> HIDE DEF new
  <2>3. /\ Len(lines') = Len(lines) + 1
        /\ \A i \in 1..Len(lines) : lines'[i] = new[i]
    <3> DEFINE T == Seq(Event \cup {Part})
    <3>1. new \in Seq(T) /\ <<>> \in T
      BY <2>1
    <3> HIDE DEF T
    <3>2. /\ Len(Append(new, <<>>)) = Len(new) + 1
          /\ \A i \in 1..Len(new) : Append(new, <<>>)[i] = new[i]
      BY <3>1
    <3> QED BY <2>1, <2>2, <3>2
  <2> QED BY <1>0, <2>1, <2>3
<1>2. CASE Tear(e)
  <2>1. PICK text \in Event \cup {Part} : lines' = AddToLastLine(text)
    BY <1>2 DEF Tear
  <2> QED BY <1>0, <2>1, EarlierLinesStay
<1>3. CASE UNCHANGED lines
  BY <1>0, <1>3
<1> QED BY <1>1, <1>2, <1>3

\* A step of c loses at most the event of c.
LEMMA OnlyOwnIsLost ==
    ASSUME GovernanceInv, NEW c \in Call, NEW e \in Event,
           Record(e) \/ Tear(e) \/ UNCHANGED lines,
           \A x \in Call \ {c} : pc'[x] = pc[x] /\ say'[x] = say[x]
    PROVE  Lost' \subseteq Lost \cup {c}
<1> SUFFICES ASSUME NEW x \in Call \ {c}, pc'[x] = "returned", Whole(x)
             PROVE  Whole(x)'
  BY DEF Lost
<1>1. PICK i \in 1..(Len(lines) - 1) : lines[i] = << <<x, say[x]>> >>
  BY DEF Whole
<1>2. lines'[i] = lines[i] /\ i \in 1..(Len(lines') - 1)
  <2>1. LinesOK
    BY DEF GovernanceInv
  <2>2. /\ Len(lines) \in Nat \ {0} /\ Len(lines') \in Nat
        /\ Len(lines') >= Len(lines)
        /\ lines'[i] = lines[i]
    BY <2>1, EndedLinesStay
  <2> QED BY <2>2
<1> QED BY <1>1, <1>2 DEF Whole

\* A step that appends nothing, and after which c has not returned.
LEMMA QuietKeepsCount ==
    ASSUME GovernanceInv, LossCounted, NEW c \in Call,
           UNCHANGED logVars, pc'[c] # "returned",
           \A x \in Call \ {c} : pc'[x] = pc[x] /\ say'[x] = say[x]
    PROVE  LossCounted'
<1>1. Lost' \subseteq Lost
  <2>1. <<c, "failed">> \in Event
    BY GovernanceAssumption DEF Decision
  <2>2. UNCHANGED lines
    BY DEF logVars
  <2>3. Lost' \subseteq Lost \cup {c}
    BY <2>1, <2>2, OnlyOwnIsLost
  <2> QED BY <2>3 DEF Lost
<1>2. IsFiniteSet(Lost') /\ Cardinality(Lost') <= Cardinality(Lost)
  BY <1>1, FS_Subset DEF LossCounted
<1>3. LeftOpen' = LeftOpen /\ tears' = tears /\ LeftOpen \in {0, 1}
  BY DEF LeftOpen, logVars
<1> QED BY <1>2, <1>3, FS_CardinalityType DEF LossCounted

\* An append that is torn loses no more than it is counted for.
LEMMA TearKeepsCount ==
    ASSUME GovernanceInv, LossCounted, NEW c \in Call, NEW e \in Event,
           Tear(e), pc'[c] # "returned",
           \A x \in Call \ {c} : pc'[x] = pc[x] /\ say'[x] = say[x]
    PROVE  LossCounted'
<1>1. Lost' \subseteq Lost
  BY OnlyOwnIsLost DEF Lost
<1>2. IsFiniteSet(Lost') /\ Cardinality(Lost') <= Cardinality(Lost)
  BY <1>1, FS_Subset DEF LossCounted
<1>3. LeftOpen \in {0, 1} /\ LeftOpen' \in {0, 1} /\ tears' = tears + 1
  BY DEF LeftOpen, Tear
<1> QED BY <1>2, <1>3, FS_CardinalityType DEF LossCounted

\* An append that completes: where the line before was ended, the event has a
\* line of its own; where it was left open, the torn append pays for it.
LEMMA RecordKeepsCount ==
    ASSUME GovernanceInv, LossCounted, NEW c \in Call, NEW e \in Event,
           Record(e), pc'[c] = "returned" => e = <<c, say'[c]>>,
           \A x \in Call \ {c} : pc'[x] = pc[x] /\ say'[x] = say[x]
    PROVE  LossCounted'
<1> DEFINE new == AddToLastLine(e)
<1>1. Lost' \subseteq Lost \cup {c}
  BY OnlyOwnIsLost
<1>2. /\ Len(lines) \in Nat \ {0} /\ new \in Seq(Seq(Event \cup {Part}))
      /\ Len(new) = Len(lines)
      /\ new[Len(lines)] = Append(lines[Len(lines)], e)
      /\ lines' = Append(new, <<>>)
  <2>1. LinesOK /\ e \in Event \cup {Part}
    BY DEF GovernanceInv
  <2>2. Len(lines) \in DOMAIN lines /\ Len(lines) \in Nat \ {0}
    BY <2>1 DEF LinesOK
  <2>3. lines' = Append(new, <<>>)
    BY DEF Record
  <2> QED BY <2>1, <2>2, <2>3, TextIsAdded
<1>3. /\ Len(lines') = Len(lines) + 1 /\ lines'[Len(lines')] = <<>>
      /\ lines'[Len(lines)] = Append(lines[Len(lines)], e)
  <2> HIDE DEF new
  <2> QED BY <1>2
<1>4. LeftOpen' = 0 /\ tears' = tears /\ tears \in Nat
  BY <1>3 DEF LeftOpen, Record, LossCounted
<1>5. CASE LeftOpen = 0
  <2>1. lines[Len(lines)] = <<>>
    BY <1>5 DEF LeftOpen
  <2>2. lines'[Len(lines)] = <<e>> /\ Len(lines) \in 1..(Len(lines') - 1)
    BY <1>2, <1>3, <2>1
  <2>3. pc'[c] = "returned" => Whole(c)'
    BY <2>2 DEF Whole
  <2>4. Lost' \subseteq Lost
    <3> SUFFICES ASSUME NEW x \in Lost' PROVE x \in Lost
      OBVIOUS
    <3> QED BY <1>1, <2>3 DEF Lost
  <2>5. IsFiniteSet(Lost') /\ Cardinality(Lost') <= Cardinality(Lost)
    BY <2>4, FS_Subset DEF LossCounted
  <2> QED BY <1>4, <1>5, <2>5, FS_CardinalityType DEF LossCounted
<1>6. CASE LeftOpen = 1
  <2>1. /\ IsFiniteSet(Lost \cup {c})
        /\ Cardinality(Lost \cup {c}) <= Cardinality(Lost) + 1
    <3>1. IsFiniteSet(Lost) /\ Cardinality(Lost) \in Nat
      BY FS_CardinalityType DEF LossCounted
    <3>2. /\ IsFiniteSet(Lost \cup {c})
          /\ Cardinality(Lost \cup {c})
                = IF c \in Lost THEN Cardinality(Lost) ELSE Cardinality(Lost) + 1
      BY <3>1, FS_AddElement
    <3> QED BY <3>1, <3>2
  <2>2. IsFiniteSet(Lost') /\ Cardinality(Lost') <= Cardinality(Lost \cup {c})
    BY <1>1, <2>1, FS_Subset
  <2> QED BY <1>4, <1>6, <2>1, <2>2, FS_CardinalityType DEF LossCounted
<1> QED BY <1>5, <1>6 DEF LeftOpen

\* What a step of a command does to the log, and that it moves nothing of the
\* other commands.
LEMMA StepsOfTheLog ==
    ASSUME GovernanceInv, NEW c \in Call,
           \/ LoadProfile(c) \/ DecideTool(c) \/ Approve(c)
           \/ DecidePatch(c) \/ PatchUnreadable(c) \/ GateMcp(c) \/ Handle(c)
           \/ BeginGrant(c) \/ GrantNotApplicable(c) \/ CommitGrant(c)
           \/ GrantRefused(c) \/ CommitRevoke(c) \/ RevokeRefused(c)
           \/ RecordOutcome(c) \/ RecordFails(c) \/ Die(c)
    PROVE  /\ \A x \in Call \ {c} : pc'[x] = pc[x] /\ say'[x] = say[x]
           /\ \/ UNCHANGED logVars /\ pc'[c] # "returned"
              \/ Tear(<<c, say[c]>>) /\ pc'[c] # "returned"
              \/ /\ Record(<<c, say[c]>>)
                 /\ pc'[c] = "returned" => say'[c] = say[c]
<1>0. /\ pc \in [Call -> Location] /\ say \in [Call -> Decision]
  BY DEF GovernanceInv, TypesOK
<1>1. CASE RecordOutcome(c)
  BY <1>0, <1>1 DEF RecordOutcome, End, Goto
<1>2. CASE RecordFails(c)
  <2>1. /\ pc'[c] # "returned"
        /\ \A x \in Call \ {c} : pc'[x] = pc[x] /\ say'[x] = say[x]
    BY <1>0, <1>2 DEF RecordFails, AuditError, Say, End, Goto
  <2> QED BY <1>2, <2>1 DEF RecordFails
<1>3. CASE Die(c)
  <2>1. /\ pc'[c] # "returned"
        /\ \A x \in Call \ {c} : pc'[x] = pc[x] /\ say'[x] = say[x]
    BY <1>0, <1>3 DEF Die, End, Goto
  <2> QED BY <1>3, <2>1 DEF Die
<1>4. CASE LoadProfile(c) \/ BeginGrant(c)
  BY <1>0, <1>4 DEF LoadProfile, BeginGrant, Goto
<1>5. CASE DecideTool(c) \/ Approve(c) \/ DecidePatch(c) \/ GateMcp(c)
  BY <1>0, <1>5 DEF DecideTool, Approve, DecidePatch, GateMcp, Say, Goto
<1>6. CASE Handle(c) \/ CommitGrant(c) \/ CommitRevoke(c)
  BY <1>0, <1>6 DEF Handle, CommitGrant, CommitRevoke, Say, Goto
<1>7. CASE \/ PatchUnreadable(c) \/ GrantNotApplicable(c)
           \/ GrantRefused(c) \/ RevokeRefused(c)
  BY <1>0, <1>7 DEF PatchUnreadable, GrantNotApplicable, GrantRefused, RevokeRefused,
                    Refuse, End, Goto
<1> QED BY <1>1, <1>2, <1>3, <1>4, <1>5, <1>6, <1>7

\* No step loses an event of a command that returned without counting it.
LEMMA LossStep ==
    ASSUME GovernanceInv, LossCounted, [Next]_vars
    PROVE  LossCounted'
<1>1. ASSUME NEW c \in Call,
             \/ LoadProfile(c) \/ DecideTool(c) \/ Approve(c)
             \/ DecidePatch(c) \/ PatchUnreadable(c) \/ GateMcp(c) \/ Handle(c)
             \/ BeginGrant(c) \/ GrantNotApplicable(c) \/ CommitGrant(c)
             \/ GrantRefused(c) \/ CommitRevoke(c) \/ RevokeRefused(c)
             \/ RecordOutcome(c) \/ RecordFails(c) \/ Die(c)
      PROVE  LossCounted'
  <2>1. <<c, say[c]>> \in Event
    BY GovernanceAssumption DEF GovernanceInv, TypesOK
  <2>2. \A x \in Call \ {c} : pc'[x] = pc[x] /\ say'[x] = say[x]
    BY <1>1, StepsOfTheLog
  <2>3. CASE UNCHANGED logVars /\ pc'[c] # "returned"
    BY <2>2, <2>3, QuietKeepsCount
  <2>4. CASE Tear(<<c, say[c]>>) /\ pc'[c] # "returned"
    BY <2>1, <2>2, <2>4, TearKeepsCount
  <2>5. CASE Record(<<c, say[c]>>) /\ (pc'[c] = "returned" => say'[c] = say[c])
    BY <2>1, <2>2, <2>5, RecordKeepsCount
  <2> QED BY <1>1, <2>3, <2>4, <2>5, StepsOfTheLog
<1>2. CASE Tick \/ EditPolicy \/ SpoilGrants \/ UNCHANGED vars
  <2>1. UNCHANGED <<pc, say, lines, tears>>
    BY <1>2 DEF Tick, EditPolicy, SpoilGrants, vars, callVars, logVars
  <2> QED BY <2>1 DEF LossCounted, Lost, Whole, LeftOpen
<1> QED BY <1>1, <1>2 DEF Next

\* The whole of LogTellsTheTruth: no event is untrue, a command that returned
\* has its event in the file, and of those at most one for each interrupted
\* append is missing from what the reader reports (audit.py).
THEOREM LogIsTruthful == Spec => []LogTellsTheTruth
<1>1. LossCounted /\ GovernanceInv => LogTellsTheTruth
  <2> SUFFICES ASSUME LossCounted, GovernanceInv PROVE LogTellsTheTruth
    OBVIOUS
  <2> DEFINE Missing == {c \in {x \in Call : pc[x] = "returned"} :
                            <<c, say[c]>> \notin Reported}
  <2>1. Missing \subseteq Lost
    <3> SUFFICES ASSUME NEW c \in Call, Whole(c) PROVE <<c, say[c]>> \in Reported
      BY DEF Lost
    <3>1. PICK i \in 1..(Len(lines) - 1) : lines[i] = << <<c, say[c]>> >>
      BY DEF Whole
    <3>2. i \in DOMAIN lines
      BY <3>1 DEF GovernanceInv, LinesOK
    <3>3. <<c, say[c]>> \in Event
      BY GovernanceAssumption DEF GovernanceInv, TypesOK
    <3> QED BY <3>1, <3>2, <3>3 DEF Reported, Valid
  <2>2. IsFiniteSet(Missing) /\ Cardinality(Missing) <= Cardinality(Lost)
    BY <2>1, FS_Subset DEF LossCounted
  <2>3. Cardinality(Missing) <= tears
    BY <2>2, FS_CardinalityType DEF LossCounted, LeftOpen
  <2>4. EventsAreTrue /\ ReturnedIsLogged
    BY DEF GovernanceInv
  <2> QED BY <2>3, <2>4
          DEF LogTellsTheTruth, EventsAreTrue, ReturnedIsLogged, Good, Bad
<1>2. Init => LossCounted
  BY LossStarts
<1>3. GovernanceInv /\ LossCounted /\ [Next]_vars => LossCounted'
  BY LossStep
<1> QED BY <1>1, <1>2, <1>3, GovernanceInvariant, PTL DEF Spec

-----------------------------------------------------------------------------

\* A step of a command moves that command only.
LEMMA OthersStay ==
    ASSUME GovernanceInv, NEW c \in Call, NEW x \in Call, pc'[x] # pc[x],
           NEW l, Goto(c, l)
    PROVE  x = c /\ pc'[c] = l
BY DEF Goto, GovernanceInv, TypesOK

\* What the gate says "allowed" to, it has the profile's word or a grant for.
LEMMA AllowedIsBased ==
    ASSUME NEW a, NEW word \in Base, Outcome(a, word) = "allowed"
    PROVE  \/ word = "allowed"
           \/ /\ grants # Malformed
              /\ \E i \in DOMAIN grants : /\ grants[i].action = a
                                          /\ grants[i].expiry > clock
                                          /\ grants[i].kind = KindFor(word)
BY DEF Outcome, Usable, Active, KindFor, Base

\* What is not blocked has the word of the policy, or a grant that has not expired.
LEMMA NotBlockedIsBased ==
    ASSUME NEW a, NEW word \in Base, Outcome(a, word) # "blocked"
    PROVE  \/ word \in {"allowed", "approval"}
           \/ /\ grants # Malformed
              /\ \E i \in DOMAIN grants : /\ grants[i].action = a
                                          /\ grants[i].expiry > clock
                                          /\ grants[i].kind = KindFor(word)
BY DEF Outcome, Usable, Active, KindFor, Base

\* Tools and patches pass the gate on the profile's word, on the operator's
\* where the profile asks for it, or on a grant that fits: PolicyEngine,
\* ToolExecutor.run and PatchManager.apply.
THEOREM GateHolds == Spec => GateHonoursPolicy
<1> DEFINE Based(c) ==
             \/ loaded[c] = "allowed"
             \/ loaded[c] = "approval" /\ (pc[c] = "ask" \/ op[c] = "patch")
             \/ /\ grants # Malformed
                /\ \E i \in DOMAIN grants :
                      /\ grants[i].action = act[c]
                      /\ grants[i].expiry > clock
                      /\ grants[i].kind = KindFor(loaded[c])
           Gate == \A c \in Call :
                     pc[c] # "run" /\ pc'[c] = "run" /\ op[c] \in {"tool", "patch"}
                        => Based(c)
<1>1. ASSUME GovernanceInv, [Next]_vars PROVE [Gate]_vars
  <2> SUFFICES ASSUME Next, NEW x \in Call, pc[x] # "run", pc'[x] = "run",
                      op[x] \in {"tool", "patch"}
               PROVE  Based(x)
    BY <1>1
  <2>0. loaded[x] \in Base /\ (pc[x] = "ask" => loaded[x] = "approval")
    BY <1>1 DEF GovernanceInv, TypesOK, AskedForApproval
  <2>1. ASSUME NEW c \in Call, DecideTool(c) PROVE Based(x)
    <3>1. x = c /\ Outcome(act[c], loaded[c]) = "allowed"
      BY <1>1, <2>1, OthersStay DEF DecideTool, Say
    <3> QED BY <2>0, <3>1, AllowedIsBased
  <2>2. ASSUME NEW c \in Call, Approve(c) PROVE Based(x)
    <3>1. x = c /\ pc[c] = "ask"
      BY <1>1, <2>2, OthersStay DEF Approve, Say
    <3> QED BY <2>0, <3>1
  <2>3. ASSUME NEW c \in Call, DecidePatch(c) PROVE Based(x)
    <3>1. x = c /\ op[c] = "patch" /\ Outcome(act[c], loaded[c]) # "blocked"
      BY <1>1, <2>3, OthersStay DEF DecidePatch, Say
    <3> QED BY <2>0, <3>1, NotBlockedIsBased
  <2>4. ASSUME NEW c \in Call, GateMcp(c) PROVE FALSE
    BY <1>1, <2>4, OthersStay DEF GateMcp, Say
  <2>5. ASSUME NEW c \in Call, NEW l \in Location \ {"run"}, Goto(c, l) PROVE FALSE
    BY <1>1, <2>5, OthersStay
  <2>6. ASSUME NEW c \in Call,
               \/ LoadProfile(c) \/ PatchUnreadable(c) \/ Handle(c)
               \/ BeginGrant(c) \/ GrantNotApplicable(c) \/ CommitGrant(c)
               \/ GrantRefused(c) \/ CommitRevoke(c) \/ RevokeRefused(c)
               \/ RecordOutcome(c) \/ RecordFails(c) \/ Die(c)
        PROVE  FALSE
    <3>1. \E l \in Location \ {"run"} : Goto(c, l)
      BY <2>6 DEF LoadProfile, PatchUnreadable, Handle, BeginGrant, GrantNotApplicable,
                  CommitGrant, GrantRefused, CommitRevoke, RevokeRefused, RecordOutcome,
                  RecordFails, AuditError, Die, Refuse, End, Say, Location
    <3> QED BY <2>5, <3>1
  <2>7. ASSUME Tick \/ EditPolicy \/ SpoilGrants PROVE FALSE
    BY <2>7 DEF Tick, EditPolicy, SpoilGrants, callVars
  <2> QED BY <2>1, <2>2, <2>3, <2>4, <2>6, <2>7 DEF Next
<1> QED BY <1>1, GovernanceInvariant, PTL DEF Spec, GateHonoursPolicy

-----------------------------------------------------------------------------
(* What is printed is allowed.                                             *)

\* One row gives one entry, of the row's alias.
LEMMA EntriesOfRow ==
    ASSUME NEW row, NEW api
    PROVE  Printed({Entry(row, api)}).entries = {Entry(row, api)} /\ Entry(row, api).alias = row.name
  BY DEF Printed, Entry

\* A configuration from one row names the row's alias or is refused.
LEMMA OneRowExported ==
    ASSUME NEW tool, NEW row, NEW api, NEW e,
           e \in HostClientExport(tool, row, api).entries \cup OneModelExport(row).entries
    PROVE  e.alias = row.name
  BY EntriesOfRow DEF HostClientExport, OneModelExport, Refused

\* An export from a plan asks the catalog and the policy of now.
LEMMA PlanExportAllowed ==
    ASSUME NEW p, NEW e \in ExportFromPlan(p).entries
    PROVE  e.alias \in Known /\ Allowed(e.alias)
  <1>1. ASSUME NEW q, NEW d \in ContinueExportFromPlan(q).entries
        PROVE  d.alias \in Known /\ Allowed(d.alias)
    BY <1>1 DEF ContinueExportFromPlan, Printed, Refused, Entry
  <1>2. CASE p.tool = "continue"
    BY <1>1, <1>2 DEF ExportFromPlan, McpTools
  <1>3. CASE p.tool # "continue" /\ p.tool \in McpTools
    BY <1>3 DEF ExportFromPlan, McpExport, Printed
  <1>4. CASE p.tool # "continue" /\ p.tool \notin McpTools
    <2>1. /\ p.rows[1].name \in Known /\ Allowed(p.rows[1].name)
          /\ \/ e \in HostClientExport(p.tool, p.rows[1], p.api).entries
             \/ e \in OneModelExport(p.rows[1]).entries
      BY <1>4 DEF ExportFromPlan, Refused
    <2>2. e.alias = p.rows[1].name
      BY <2>1, OneRowExported
    <2> QED
      BY <2>1, <2>2
  <1> QED
    BY <1>2, <1>3, <1>4

\* So does an export without one.
LEMMA DirectExportAllowed ==
    ASSUME NEW f, NEW e \in ExportFor(f).entries
    PROVE  e.alias \in Known /\ Allowed(e.alias)
  <1>1. CASE ~TargetOptionsFit(f)
    BY <1>1 DEF ExportFor, Refused
  <1>2. CASE TargetOptionsFit(f) /\ f.tool \in McpTools
    BY <1>2 DEF ExportFor, McpExport, Printed, McpTools
  <1>3. CASE TargetOptionsFit(f) /\ f.tool = "continue" /\ f.model = None
    <2>1. e \in ContinueExportFromPlan(PlanFor(f)).entries
      BY <1>3 DEF ExportFor, Refused, McpTools
    <2> QED
      BY <2>1 DEF ContinueExportFromPlan, Printed, Refused, Entry
  <1>4. CASE /\ TargetOptionsFit(f) /\ f.tool \notin McpTools
             /\ ~(f.tool = "continue" /\ f.model = None)
    <2> DEFINE a == DirectAlias(f)
    <2>1. /\ a \in Known /\ Allowed(a)
          /\ \/ e \in HostClientExport(f.tool, DirectRow(a, f), f.api).entries
             \/ e \in OneModelExport(DirectRow(a, f)).entries
      BY <1>4 DEF ExportFor, Refused
    <2>2. DirectRow(a, f).name = a
      BY DEF DirectRow, SelectionRow
    <2>3. e.alias = DirectRow(a, f).name
      BY <2>1, OneRowExported
    <2> QED
      BY <2>1, <2>2, <2>3
  <1> QED
    BY <1>1, <1>2, <1>3, <1>4

\* A command of the integrations prints what is allowed, or leaves what was
\* printed and the catalog as they are.
LEMMA CommandsAllow ==
    ASSUME ExportsAreAllowed, IntCommands
    PROVE  ExportsAreAllowed'
  <1> SUFFICES ASSUME NEW e \in out'.entries
               PROVE  e.alias \in Known' /\ Allowed(e.alias)'
    BY DEF ExportsAreAllowed
  <1>1. ASSUME NEW f \in Asked, Plan(f)
        PROVE  FALSE
    BY <1>1 DEF Plan, Refused, Nothing
  <1>2. ASSUME NEW f \in Asked, SetupBegin(f)
        PROVE  FALSE
    BY <1>2 DEF SetupBegin, Nothing
  <1>3. ASSUME NEW f \in Asked, Export(f)
        PROVE  e.alias \in Known' /\ Allowed(e.alias)'
    BY <1>3, DirectExportAllowed DEF Export, catalog, Known, Allowed
  <1>4. ASSUME ExportSaved
        PROVE  e.alias \in Known' /\ Allowed(e.alias)'
    BY <1>4, PlanExportAllowed DEF ExportSaved, catalog, Known, Allowed
  <1>5. ASSUME \/ \E install, brings, start \in BOOLEAN : SetupRuntime(install, brings, start)
               \/ \E pull \in BOOLEAN : SetupModel(pull)
               \/ \E r \in Runtime, a \in Alias : ForkedComesUp(r, a)
        PROVE  e.alias \in Known' /\ Allowed(e.alias)'
    <2>1. UNCHANGED <<catalog, out>>
      BY <1>5 DEF SetupRuntime, SetupModel, ForkedComesUp
    <2> QED
      BY <2>1 DEF catalog, ExportsAreAllowed, Known, Allowed
  <1>6. ASSUME SetupEnd
        PROVE  e.alias \in Known' /\ Allowed(e.alias)'
    BY <1>6 DEF SetupEnd, catalog, ExportsAreAllowed, Known, Allowed
  <1> QED
    BY <1>1, <1>2, <1>3, <1>4, <1>5, <1>6 DEF IntCommands

\* Whatever changes the catalog, the policy or the servers prints nothing.
LEMMA ChangesPrintNothing ==
    ASSUME IntChanges \/ StackNext
    PROVE  out' = Nothing \/ UNCHANGED <<catalog, out>>
  BY DEF IntChanges, EditCatalog, ChangePolicy, ServerStops, StackNext, StackSetup,
         MachineChanges, ServerStarts, GrantsChange, intVars

\* No command prints an alias the catalog of that moment does not have or its
\* policy does not allow, whatever was saved before.
THEOREM OnlyAllowedIsPrinted == ArtSpec => []ExportsAreAllowed
  <1>1. ArtInit => ExportsAreAllowed
    BY DEF ArtInit, IntInit, ExportsAreAllowed, Nothing
  <1>2. ExportsAreAllowed /\ [ArtNext]_artVars => ExportsAreAllowed'
    <2> SUFFICES ASSUME ExportsAreAllowed, [ArtNext]_artVars
                 PROVE  ExportsAreAllowed'
      OBVIOUS
    <2>1. ASSUME UNCHANGED <<catalog, out>>
          PROVE  ExportsAreAllowed'
      BY <2>1 DEF catalog, ExportsAreAllowed, Known, Allowed
    <2>2. CASE IntCommands
      BY <2>2, CommandsAllow
    <2>3. CASE IntChanges \/ StackNext
      <3>1. CASE out' = Nothing
        BY <3>1 DEF Nothing, ExportsAreAllowed
      <3> QED
        BY <2>1, <2>3, <3>1, ChangesPrintNothing
    <2>4. ASSUME UNCHANGED intVars
          PROVE  ExportsAreAllowed'
      BY <2>1, <2>4 DEF intVars
    <2>5. CASE \E task \in Task, roles \in Targets : Handoff(task, roles)
      BY <2>4, <2>5 DEF Handoff
    <2>6. CASE \E a \in Alias, r \in Runtime : ModelHandoff(a, r)
      BY <2>4, <2>6 DEF ModelHandoff
    <2>7. CASE Mixed \/ MixedRecord \/ UNCHANGED artVars
      BY <2>4, <2>7 DEF Mixed, MixedRecord, artVars
    <2> QED
      BY <2>2, <2>3, <2>5, <2>6, <2>7 DEF ArtNext
  <1> QED
    BY <1>1, <1>2, PTL DEF ArtSpec

-----------------------------------------------------------------------------
(* What a doctor passes is exported.                                       *)

\* A configuration is no refusal.
LEMMA PrintedIsNoRefusal ==
    ASSUME NEW entries
    PROVE  Printed(entries) # Refused
  BY DEF Printed, Refused

\* A target that is neither a host client nor an MCP server takes any model
\* that is known and allowed.
LEMMA PlainModelExported ==
    ASSUME NEW f, f.tool \notin HostTools \cup McpTools, f.api = None,
           f.tool # "continue" \/ f.model # None,
           DirectAlias(f) \in Known, Allowed(DirectAlias(f))
    PROVE  ExportFor(f) # Refused
  <1>1. TargetOptionsFit(f)
    BY DEF TargetOptionsFit
  <1>2. ExportFor(f) = OneModelExport(DirectRow(DirectAlias(f), f))
    BY <1>1 DEF ExportFor
  <1> QED
    BY <1>2, PrintedIsNoRefusal DEF OneModelExport

\* A stack whose doctor passes and whose own model has a role in it, by no
\* override, is exported in every form its runtime has, in that same state.
LEMMA PassedIsExported ==
    PassedStackExports
  <1> SUFFICES ASSUME stack # None, NEW h \in Surroundings, DoctorPasses(stack, h),
                      stack.model \notin Overridden,
                      NEW role \in DOMAIN RolePlan(stack),
                      stack.model = RolePlan(stack)[role].model,
                      NEW artifact \in Artifacts(stack)
               PROVE  StackExport(stack, artifact) # Refused
    BY DEF PassedStackExports
  <1>1. /\ Compatible(stack.model, stack.runtime)
        /\ stack.machine \in machines
        /\ stack.model \in Known
        /\ stack.model # None
        /\ Allowed(stack.model)
    BY AskedAssumption DEF DoctorPasses, EvidenceRendered, PlanWorks, RoleChecks,
                           ModelDecision, Known
  <1>2. CASE artifact \in ClientArtifact
    <2> DEFINE f == [tool |-> artifact, model |-> stack.model, chat |-> None,
                     runtime |-> None, best |-> FALSE, remote |-> TRUE, api |-> None]
    <2>1. StackExport(stack, artifact) = ExportFor(f)
      BY <1>1, <1>2 DEF StackExport
    <2>2. f.tool \notin HostTools \cup McpTools
      BY <1>2 DEF ClientArtifact, HostTools, McpTools
    <2>3. DirectAlias(f) = stack.model
      BY <1>1 DEF DirectAlias
    <2>4. f.api = None /\ f.model # None
      BY <1>1
    <2> HIDE DEF f
    <2> QED
      BY <1>1, <2>1, <2>2, <2>3, <2>4, PlainModelExported
  <1>3. CASE artifact \notin ClientArtifact
    <2>1. artifact \in PackedArtifact => Packs(stack, artifact)
      BY <1>3 DEF Artifacts, Packs, PackedArtifact, MetadataArtifact
    <2> QED
      BY <1>1, <1>3, <2>1, PrintedIsNoRefusal DEF StackExport
  <1> QED
    BY <1>2, <1>3

\* So the doctor of a stack never passes what the export of it would refuse.
THEOREM PassedStacksAreExported == ArtSpec => []PassedStackExports
  BY PassedIsExported, PTL

\* A list of defaults whose first names a known alias gives that alias.
LEMMA FirstNamedWins ==
    ASSUME NEW roles, DOMAIN roles \subseteq Nat \ {0}, 1 \in DOMAIN roles,
           Defaults[roles[1]] \in Known
    PROVE  FirstDefault(roles) = Defaults[roles[1]]
  <1> DEFINE named == {i \in DOMAIN roles : Defaults[roles[i]] \in Known}
  <1>1. 1 \in named /\ \A i \in named : i \in Nat /\ 1 <= i
    OBVIOUS
  <1>2. (CHOOSE i \in named : \A j \in named : i <= j) = 1
    <2>1. ASSUME NEW i \in named, \A j \in named : i <= j
          PROVE  i = 1
      <3>1. i <= 1 /\ 1 <= i /\ i \in Nat
        BY <1>1, <2>1
      <3> QED
        BY <3>1
    <2> HIDE DEF named
    <2> QED
      BY <1>1, <2>1
  <1> QED
    BY <1>1, <1>2 DEF FirstDefault

\* A report that exits with 0 holds only checks that pass without a warning.
LEMMA HealthyReport ==
    ASSUME NEW h, ExitCode(h) = 0, NEW c \in Report(h)
    PROVE  c.ok /\ ~c.warning
  <1>1. Overall(h) = "healthy"
    BY DEF ExitCode
  <1>2. Severity(c) # "blocking" /\ Severity(c) # "advisory"
    BY <1>1 DEF Overall
  <1> QED
    BY <1>2 DEF Severity

\* It has found the defaults of the three roles of Continue known and allowed.
LEMMA HealthyDefaults ==
    ASSUME NEW h, ExitCode(h) = 0, NoDefaultOverridden,
           NEW d \in {"chat_model", "autocomplete_model", "embedding_model"}
    PROVE  Defaults[d] \in Known /\ Allowed(Defaults[d])
  <1> DEFINE weak == \E i \in DOMAIN RolesOf("continue") :
                         LET e == IntegrationDefault(RolesOf("continue")[i])
                         IN ~RoleCapability(e, Defaults[e])
             c == Check("integration", "continue", TRUE, weak)
             p == Pass("model_policy", Defaults[d],
                       Defaults[d] \in Known /\ ModelDecision(Defaults[d]))
  <1>1. "continue" \in Tools \ McpTools
    BY DEF Tools, McpTools
  <1>2. c \in IntegrationSection
    BY <1>1 DEF IntegrationSection
  <1>3. ~c.warning
    BY <1>2, HealthyReport DEF Report
  <1>4. ~weak
    BY <1>3 DEF Check
  <1>5. \E i \in DOMAIN RolesOf("continue") : IntegrationDefault(RolesOf("continue")[i]) = d
    <2>1. RolesOf("continue") = <<"chat", "autocomplete", "embedding">>
      BY DEF RolesOf
    <2>2. DOMAIN RolesOf("continue") = 1 .. 3
      BY <2>1
    <2>3. CASE d = "chat_model"
      BY <2>1, <2>2, <2>3 DEF IntegrationDefault
    <2>4. CASE d = "autocomplete_model"
      BY <2>1, <2>2, <2>4 DEF IntegrationDefault
    <2>5. CASE d = "embedding_model"
      BY <2>1, <2>2, <2>5 DEF IntegrationDefault
    <2> QED
      BY <2>3, <2>4, <2>5
  <1>6. Defaults[d] \in Known
    BY <1>4, <1>5 DEF RoleCapability
  <1>7. p \in PolicySection
    <2>1. d \in DefaultRoles /\ Defaults[d] # None
      BY <1>6, DefaultsAssumption, AskedAssumption DEF CodingDefaults, Known
    <2> QED
      BY <2>1 DEF PolicySection
  <1>8. p.ok
    BY <1>7, HealthyReport DEF Report
  <1>9. ModelDecision(Defaults[d])
    BY <1>8 DEF Pass, Check
  <1>10. Defaults[d] \notin Overridden
    BY DefaultsAssumption DEF NoDefaultOverridden, CodingDefaults
  <1> QED
    BY <1>6, <1>9, <1>10 DEF ModelDecision

\* What Continue is given without flags are then those defaults.
LEMMA HealthyChoices ==
    ASSUME NEW h, ExitCode(h) = 0, NoDefaultOverridden
    PROVE  /\ FirstDefault(ChatDefaults) = Defaults["chat_model"]
           /\ DefaultFor("chat") = Defaults["chat_model"]
           /\ DefaultFor("autocomplete") = Defaults["autocomplete_model"]
           /\ DefaultFor("embedding") = Defaults["embedding_model"]
  <1>1. FirstDefault(ChatDefaults) = Defaults["chat_model"]
    <2>1. /\ DOMAIN ChatDefaults \subseteq Nat \ {0} /\ 1 \in DOMAIN ChatDefaults
          /\ ChatDefaults[1] = "chat_model"
      BY DEF ChatDefaults
    <2> QED
      BY <2>1, HealthyDefaults, FirstNamedWins
  <1>2. DefaultFor("autocomplete") = Defaults["autocomplete_model"]
    <2> DEFINE roles == <<"autocomplete_model", "completion_model", "code_model">>
    <2>1. /\ DOMAIN roles \subseteq Nat \ {0} /\ 1 \in DOMAIN roles
          /\ roles[1] = "autocomplete_model"
      OBVIOUS
    <2>2. FirstDefault(roles) = Defaults["autocomplete_model"]
      <3> HIDE DEF roles
      <3> QED
        BY <2>1, HealthyDefaults, FirstNamedWins
    <2> QED
      BY <2>2 DEF DefaultFor
  <1>3. DefaultFor("embedding") = Defaults["embedding_model"]
    <2> DEFINE roles == <<"embedding_model">>
    <2>1. /\ DOMAIN roles \subseteq Nat \ {0} /\ 1 \in DOMAIN roles
          /\ roles[1] = "embedding_model"
      OBVIOUS
    <2>2. FirstDefault(roles) = Defaults["embedding_model"]
      <3> HIDE DEF roles
      <3> QED
        BY <2>1, HealthyDefaults, FirstNamedWins
    <2> QED
      BY <2>2 DEF DefaultFor
  <1> QED
    BY <1>1, <1>2, <1>3 DEF DefaultFor

\* The exit code of the doctor and the exports read the same state, so what it
\* calls healthy without the help of an override is exported, all three roles of
\* Continue included.
LEMMA HealthyIsExported ==
    HealthyExports
  <1> SUFFICES ASSUME NoDefaultOverridden,
                      NEW h \in Surroundings, ExitCode(h) = 0, NEW tool \in Tools \ HostTools
               PROVE  PlainExport(tool) # Refused
    BY DEF HealthyExports
  <1> DEFINE f == [tool |-> tool, model |-> None, chat |-> None, runtime |-> None,
                   best |-> FALSE, remote |-> FALSE, api |-> None]
  <1>1. /\ PlainExport(tool) = ExportFor(f)
        /\ TargetOptionsFit(f) /\ ~Selects(f)
        /\ f.tool = tool /\ f.model = None /\ f.chat = None /\ f.runtime = None /\ f.api = None
    BY DEF PlainExport, TargetOptionsFit, Selects
  <1> HIDE DEF f
  <1>2. CASE tool \in McpTools
    <2>1. ExportFor(f) = McpExport
      BY <1>1, <1>2 DEF ExportFor, McpTools
    <2> QED
      BY <1>1, <2>1, PrintedIsNoRefusal DEF McpExport
  <1>3. CASE tool \notin McpTools /\ tool # "continue"
    <2>1. DirectAlias(f) = Defaults["chat_model"]
      BY <1>1, <1>3, HealthyChoices DEF DirectAlias
    <2> QED
      BY <1>1, <1>3, <2>1, HealthyDefaults, PlainModelExported
  <1>4. CASE tool = "continue"
    <2>1. /\ RolesOf(tool) = <<"chat", "autocomplete", "embedding">>
          /\ DOMAIN RolesOf(tool) = 1 .. 3
      BY <1>4 DEF RolesOf
    <2>2. ASSUME NEW i \in DOMAIN RolesOf(tool)
          PROVE  /\ AliasFor(RolesOf(tool)[i], f) \in Known
                 /\ Allowed(AliasFor(RolesOf(tool)[i], f))
      <3>1. AliasFor(RolesOf(tool)[i], f) = DefaultFor(RolesOf(tool)[i])
        BY <1>1, <1>4 DEF AliasFor
      <3>2. \E d \in {"chat_model", "autocomplete_model", "embedding_model"} :
               DefaultFor(RolesOf(tool)[i]) = Defaults[d]
        BY <2>1, HealthyChoices
      <3> QED
        BY <3>1, <3>2, HealthyDefaults
    <2>3. CanPlan(f)
      BY <1>1, <1>4, <2>2 DEF CanPlan, Selectable, McpTools, HostTools
    <2>4. PlanFor(f).rows = PlanRows(f)
      BY <1>1, <1>4 DEF PlanFor, McpTools
    <2>5. ExportFor(f) = ContinueExportFromPlan(PlanFor(f))
      BY <1>1, <1>4, <2>3 DEF ExportFor, McpTools
    <2>6. ASSUME NEW i \in DOMAIN PlanFor(f).rows
          PROVE  PlanFor(f).rows[i].name \in Known /\ Allowed(PlanFor(f).rows[i].name)
      <3>1. i \in DOMAIN RolesOf(tool)
        BY <1>1, <2>4, <2>6 DEF PlanRows
      <3>2. PlanRows(f)[i].name = AliasFor(RolesOf(tool)[i], f)
        BY <1>1, <3>1 DEF PlanRows, SelectionRow
      <3> QED
        BY <2>2, <2>4, <3>1, <3>2
    <2> QED
      BY <1>1, <2>5, <2>6, PrintedIsNoRefusal DEF ContinueExportFromPlan
  <1> QED
    BY <1>2, <1>3, <1>4

\* So no machine aiplane doctor calls healthy is refused a plain export, unless
\* an override lets a default through.
THEOREM HealthyMachinesExport == ArtSpec => []HealthyExports
  BY HealthyIsExported, PTL

-----------------------------------------------------------------------------
(* What validates was rendered, as one.                                    *)

\* A bundle carries the job of its own environment, and validates.
WholeBundle(b) ==
    /\ b.kind = "agent_handoff"
    /\ b = Bundle(b.environment, b.job)
    /\ b.job.sha = b.environment
    /\ ValidHandoff(b)

WholeRecord(b) ==
    /\ b.kind = "model_handoff"
    /\ b = [kind |-> "model_handoff", payload |-> b.payload, sha |-> b.payload]

\* A file has the checksum of a job, or of a payload, that was rendered.
FiledBundle(f) ==
    /\ f.kind = "agent_handoff"
    /\ \E t \in Bundles :
          f = [kind |-> "agent_handoff", environment |-> f.environment, job |-> f.job,
               environment_sha |-> f.environment_sha, job_sha |-> t.job]

FiledRecord(f) ==
    /\ f.kind = "model_handoff"
    /\ \E t \in Records : f = [kind |-> "model_handoff", payload |-> f.payload, sha |-> t.payload]

\* The roles of a stored stack are a function, so they are none or some.
RolesAreFunction == stack.roles = [role \in DOMAIN stack.roles |-> stack.roles[role]]

\* What was rendered is whole, and so is the source of every checksum filed.
RenderedInv ==
    /\ \A b \in rendered : WholeBundle(b) \/ WholeRecord(b)
    /\ file # None => FiledBundle(file) \/ FiledRecord(file)
    /\ stack # None => RolesAreFunction

\* What validates has the parts of the one bundle its last checksum is from.
LEMMA ValidIsRendered ==
    ASSUME RenderedInv
    PROVE  ValidExactlyWhenRendered
  <1> SUFFICES ASSUME file # None
               PROVE  Validates(file) <=> file \in rendered
    BY DEF ValidExactlyWhenRendered
  <1>1. ASSUME file \in rendered
        PROVE  Validates(file)
    <2>1. CASE WholeBundle(file)
      <3>1. file.kind = "agent_handoff"
        BY <2>1 DEF WholeBundle, Bundle
      <3> QED
        BY <2>1, <3>1 DEF WholeBundle, Validates
    <2>2. CASE WholeRecord(file)
      <3>1. file.kind = "model_handoff" /\ file.sha = file.payload
        BY <2>2 DEF WholeRecord
      <3> QED
        BY <3>1 DEF Validates, ValidRecord
    <2> QED
      BY <1>1, <2>1, <2>2 DEF RenderedInv
  <1>2. ASSUME Validates(file), FiledBundle(file)
        PROVE  file \in rendered
    <2>1. PICK t \in Bundles :
             file = [kind |-> "agent_handoff", environment |-> file.environment,
                     job |-> file.job, environment_sha |-> file.environment_sha,
                     job_sha |-> t.job]
      BY <1>2 DEF FiledBundle
    <2>2. file.kind = "agent_handoff" /\ file.job_sha = t.job
      BY <2>1
    <2>3. ValidHandoff(file)
      BY <1>2, <2>2 DEF Validates
    <2>4. /\ file.job = t.job
          /\ file.environment = t.job.sha
          /\ file.environment_sha = file.environment
      BY <2>2, <2>3 DEF ValidHandoff
    <2>5. t \in rendered /\ WholeBundle(t)
      BY DEF RenderedInv, Bundles, WholeRecord
    <2>6. t = Bundle(t.environment, t.job) /\ t.job.sha = t.environment
      BY <2>5 DEF WholeBundle
    <2>7. file = Bundle(t.environment, t.job)
      BY <2>1, <2>4, <2>6 DEF Bundle
    <2> QED
      BY <2>5, <2>6, <2>7
  <1>3. ASSUME Validates(file), FiledRecord(file)
        PROVE  file \in rendered
    <2>1. PICK t \in Records :
             file = [kind |-> "model_handoff", payload |-> file.payload, sha |-> t.payload]
      BY <1>3 DEF FiledRecord
    <2>2. file.kind = "model_handoff" /\ file.sha = t.payload
      BY <2>1
    <2>3. file.payload = t.payload
      BY <1>3, <2>2 DEF Validates, ValidRecord
    <2>4. t \in rendered /\ WholeRecord(t)
      BY DEF RenderedInv, Records, WholeBundle, Bundle
    <2>5. file = t
      BY <2>1, <2>3, <2>4 DEF WholeRecord
    <2> QED
      BY <2>4, <2>5
  <1> QED
    BY <1>1, <1>2, <1>3 DEF RenderedInv

\* A job rendered for a stored stack is whole and validates.
LEMMA HandoffIsWhole ==
    ASSUME RenderedInv, NEW task \in Task, NEW roles \in Targets, Handoff(task, roles)
    PROVE  WholeBundle(Bundle(Manifest(stack), Job(Manifest(stack), task, roles)))
  <1> DEFINE env == Manifest(stack)
             job == Job(env, task, roles)
             b == Bundle(env, job)
  <1>1. /\ stack # None /\ Framework(stack) # None /\ stack.limits
        /\ stack.model # None
    BY AskedAssumption, TargetsAssumption DEF Handoff, Framework, ManifestWorks, PlanWorks, Known
  <1>2. DOMAIN RolePlan(stack) # {}
    <2>1. CASE stack.roles = <<>>
      BY <2>1 DEF RolePlan
    <2>2. CASE stack.roles # <<>>
      <3>1. ASSUME DOMAIN stack.roles = {}
            PROVE  stack.roles = <<>>
        BY <1>1, <3>1 DEF RenderedInv, RolesAreFunction
      <3> QED
        BY <2>2, <3>1 DEF RolePlan
    <2> QED
      BY <2>1, <2>2
  <1>3. /\ env.stack = stack.model
        /\ env.framework = Framework(stack)
        /\ env.limits = stack.limits
        /\ DOMAIN env.roles = DOMAIN RolePlan(stack)
    BY DEF Manifest
  <1> HIDE DEF env
  <1>4. ValidEnvironment(env)
    BY <1>1, <1>2, <1>3 DEF ValidEnvironment
  <1>5. TargetRoles(env, roles) # {}
    <2>1. CASE roles = <<>>
      BY <1>2, <1>3, <2>1 DEF TargetRoles
    <2>2. CASE roles # <<>>
      <3>1. roles \in Seq(STRING)
        BY TargetsAssumption
      <3>2. 1 \in DOMAIN roles
        BY <2>2, <3>1
      <3>3. roles[1] \in SetOf(roles)
        BY <3>2 DEF SetOf
      <3> QED
        BY <2>2, <3>3 DEF TargetRoles
    <2> QED
      BY <2>1, <2>2
  <1>6. ValidJob(job)
    BY <1>1, <1>3, <1>5 DEF Job, Reference, ValidJob
  <1>7. job.refers = Reference(env) /\ job.sha = env
    BY DEF Job
  <1> HIDE DEF job
  <1>8. /\ b.kind = "agent_handoff"
        /\ b.environment = env /\ b.job = job
        /\ b.environment_sha = env /\ b.job_sha = job
    BY DEF Bundle
  <1>9. b = Bundle(b.environment, b.job)
    BY <1>8
  <1> HIDE DEF b
  <1>10. WholeBundle(b)
    BY <1>4, <1>6, <1>7, <1>8, <1>9 DEF WholeBundle, ValidHandoff
  <1> QED
    BY <1>10 DEF b, job, env

\* Nothing that was rendered changes, and nothing else is filed.
LEMMA RenderedStays ==
    ASSUME RenderedInv, rendered \subseteq rendered',
           \A b \in rendered' \ rendered : WholeBundle(b) \/ WholeRecord(b),
           UNCHANGED <<file, stack>>
    PROVE  RenderedInv'
  <1>1. Bundles \subseteq Bundles' /\ Records \subseteq Records'
    BY DEF Bundles, Records
  <1>2. \A b \in rendered' : WholeBundle(b) \/ WholeRecord(b)
    BY DEF RenderedInv
  <1>3. file # None => (FiledBundle(file) \/ FiledRecord(file))'
    BY <1>1 DEF RenderedInv, FiledBundle, FiledRecord
  <1> QED
    BY <1>2, <1>3 DEF RenderedInv, RolesAreFunction

\* The invariant holds however often the stack and the catalog change between
\* two bundles.
THEOREM RenderedInvariant == ArtSpec => []RenderedInv
  <1>1. ArtInit => RenderedInv
    BY DEF ArtInit, StackInit, RenderedInv
  <1>2. RenderedInv /\ [ArtNext]_artVars => RenderedInv'
    <2> SUFFICES ASSUME RenderedInv, [ArtNext]_artVars
                 PROVE  RenderedInv'
      OBVIOUS
    <2>1. ASSUME UNCHANGED <<rendered, file, stack>>
          PROVE  RenderedInv'
      BY <2>1, RenderedStays
    <2>2. ASSUME NEW q \in Wanted, NEW dry \in BOOLEAN, StackSetup(q, dry), UNCHANGED agentVars
          PROVE  RenderedInv'
      <3>1. stack' # None => RolesAreFunction'
        <4>1. CASE dry
          BY <2>2, <4>1 DEF StackSetup, RenderedInv, RolesAreFunction
        <4>2. CASE ~dry
          BY <2>2, <4>2 DEF StackSetup, StoredAs, NormalizeRoles, RolesAreFunction
        <4> QED
          BY <4>1, <4>2
      <3>2. UNCHANGED <<rendered, file>>
        BY <2>2 DEF agentVars
      <3> QED
        BY <3>1, <3>2 DEF RenderedInv, Bundles, Records, FiledBundle, FiledRecord
    <2>3. CASE IntCommands /\ UNCHANGED <<stackVars, agentVars>>
      BY <2>1, <2>3 DEF stackVars, agentVars
    <2>4. CASE ((IntChanges /\ UNCHANGED stackVars) \/ StackNext) /\ UNCHANGED agentVars
      BY <2>1, <2>2, <2>4 DEF stackVars, agentVars, StackNext, MachineChanges, ServerStarts,
                               GrantsChange
    <2>5. ASSUME NEW task \in Task, NEW roles \in Targets, Handoff(task, roles)
          PROVE  RenderedInv'
      <3>1. WholeBundle(Bundle(Manifest(stack), Job(Manifest(stack), task, roles)))
        BY <2>5, HandoffIsWhole
      <3> QED
        BY <2>5, <3>1, RenderedStays DEF Handoff, stackVars
    <2>6. ASSUME NEW a \in Alias, NEW r \in Runtime, ModelHandoff(a, r)
          PROVE  RenderedInv'
      <3>1. ASSUME NEW payload
            PROVE  WholeRecord([kind |-> "model_handoff", payload |-> payload, sha |-> payload])
        BY DEF WholeRecord
      <3> QED
        BY <2>6, <3>1, RenderedStays DEF ModelHandoff, stackVars
    <2>7. ASSUME Mixed
          PROVE  RenderedInv'
      <3>1. PICK x \in Bundles, y \in Bundles :
               \E parts : \E s, t \in {x, y} :
                  file' = [Bundle(parts[1], parts[2])
                             EXCEPT !.environment_sha = s.environment, !.job_sha = t.job]
        BY <2>7 DEF Mixed
      <3>2. PICK parts : \E s, t \in {x, y} :
                  file' = [Bundle(parts[1], parts[2])
                             EXCEPT !.environment_sha = s.environment, !.job_sha = t.job]
        BY <3>1
      <3>3. PICK s \in {x, y}, t \in {x, y} :
                  file' = [Bundle(parts[1], parts[2])
                             EXCEPT !.environment_sha = s.environment, !.job_sha = t.job]
        BY <3>2
      <3>4. file' = [kind |-> "agent_handoff", environment |-> parts[1], job |-> parts[2],
                     environment_sha |-> s.environment, job_sha |-> t.job]
        BY <3>3 DEF Bundle
      <3>5. UNCHANGED <<rendered, stack>>
        BY <2>7 DEF Mixed, stackVars
      <3>6. FiledBundle(file')
        BY <3>4 DEF FiledBundle
      <3> QED
        BY <3>5, <3>6 DEF RenderedInv, Bundles, FiledBundle, RolesAreFunction
    <2>8. ASSUME MixedRecord
          PROVE  RenderedInv'
      <3>1. PICK y \in Records :
               \E p : file' = [kind |-> "model_handoff", payload |-> p, sha |-> y.payload]
        BY <2>8 DEF MixedRecord
      <3>2. UNCHANGED <<rendered, stack>>
        BY <2>8 DEF MixedRecord, stackVars
      <3>3. FiledRecord(file')
        BY <3>1 DEF FiledRecord
      <3> QED
        BY <3>2, <3>3 DEF RenderedInv, Records, FiledRecord, RolesAreFunction
    <2> QED
      BY <2>1, <2>3, <2>4, <2>5, <2>6, <2>7, <2>8 DEF ArtNext, artVars, stackVars, agentVars
  <1> QED
    BY <1>1, <1>2, PTL DEF ArtSpec

\* A file validates exactly when one command rendered it, whatever parts of
\* whatever bundles it was put together from, and whatever was edited.
THEOREM ValidatedWasRendered == ArtSpec => []ValidExactlyWhenRendered
  BY ValidIsRendered, RenderedInvariant, PTL

-----------------------------------------------------------------------------
(* What a clean setup leaves behind.                                       *)

Listed(s) == s \in Seq(SetOf(s))

\* The model of a row was found usable, or is in the store of its runtime.
Fetched(row) == row.name \in setup.found \/ Stored(row.runtime, row.name)

\* What was pulled is in the store it was pulled into, and every row that is done
\* is fetched, unless a step failed.
SetupInv ==
    setup # None =>
        /\ setup = [todo |-> setup.todo, done |-> setup.done, asked |-> setup.asked,
                    forked |-> setup.forked, found |-> setup.found, pulled |-> setup.pulled,
                    cached |-> setup.cached, ready |-> setup.ready, clean |-> setup.clean]
        /\ Listed(setup.todo) /\ Listed(setup.done)
        /\ setup.clean => /\ \A r, a : <<r, a>> \in setup.pulled => Stored(r, a)
                          /\ \A row \in SetOf(setup.done) : Fetched(row)

\* A sequence is one of its own elements.
LEMMA ListsItsOwn ==
    ASSUME NEW S, NEW s \in Seq(S)
    PROVE  Listed(s)
  <1> DEFINE T == SetOf(s)
  <1>1. Len(s) \in Nat /\ s \in [1 .. Len(s) -> S] /\ DOMAIN s = 1 .. Len(s)
    BY LenProperties
  <1>2. \A i \in 1 .. Len(s) : s[i] \in T
    BY <1>1 DEF SetOf
  <1> HIDE DEF T
  <1>3. s \in [1 .. Len(s) -> T]
    BY <1>1, <1>2
  <1>4. s \in Seq(T)
    BY <1>1, <1>3, SeqDef
  <1> QED
    BY <1>4 DEF Listed, T

\* Its head and the rest of it come from it.
LEMMA HeadAndTail ==
    ASSUME NEW s, Listed(s), s # <<>>
    PROVE  /\ Head(s) \in SetOf(s)
           /\ Listed(Tail(s))
           /\ SetOf(Tail(s)) \subseteq SetOf(s)
  <1> DEFINE T == SetOf(s)
             t == Tail(s)
  <1>1. s \in Seq(T)
    BY DEF Listed
  <1> HIDE DEF T
  <1>2. Head(s) \in T /\ t \in Seq(T)
    BY <1>1, HeadTailProperties
  <1> HIDE DEF t
  <1>3. Listed(t)
    BY <1>2, ListsItsOwn
  <1>4. \A i \in DOMAIN t : t[i] \in T
    BY <1>2, ElementOfSeq, LenProperties
  <1>5. SetOf(t) \subseteq T
    BY <1>4 DEF SetOf
  <1> QED
    BY <1>2, <1>3, <1>5 DEF T, t

\* One more element adds itself only.
LEMMA AppendLists ==
    ASSUME NEW s, Listed(s), NEW e
    PROVE  /\ Listed(Append(s, e))
           /\ SetOf(Append(s, e)) \subseteq SetOf(s) \cup {e}
  <1> DEFINE T == SetOf(s) \cup {e}
             t == Append(s, e)
  <1>1. s \in Seq(SetOf(s)) /\ SetOf(s) \subseteq T /\ e \in T
    BY DEF Listed
  <1>2. s \in Seq(T)
    BY <1>1, SeqMonotonic
  <1> HIDE DEF T
  <1>3. t \in Seq(T)
    BY <1>1, <1>2, AppendProperties
  <1> HIDE DEF t
  <1>4. Listed(t)
    BY <1>3, ListsItsOwn
  <1>5. \A i \in DOMAIN t : t[i] \in T
    BY <1>3, ElementOfSeq, LenProperties
  <1>6. SetOf(t) \subseteq T
    BY <1>5 DEF SetOf
  <1> QED
    BY <1>4, <1>6 DEF T, t

\* A list without elements is one of its own.
LEMMA NothingListed ==
    Listed(<<>>) /\ SetOf(<<>>) = {}
  BY EmptySeq DEF Listed, SetOf

\* The rows of a plan are a list.
LEMMA PlannedRows ==
    ASSUME NEW f, f.tool \notin McpTools
    PROVE  Listed(PlanFor(f).rows)
  <1> DEFINE rows == PlanFor(f).rows
             n == IF f.tool = "continue" THEN 3 ELSE 1
             S == SetOf(PlanRows(f))
  <1>1. rows = PlanRows(f)
    BY DEF PlanFor
  <1>2. n \in Nat /\ DOMAIN RolesOf(f.tool) = 1 .. n
    <2>1. CASE f.tool = "continue"
      BY <2>1 DEF RolesOf
    <2>2. CASE f.tool # "continue"
      BY <2>2 DEF RolesOf
    <2> QED
      BY <2>1, <2>2
  <1>3. DOMAIN PlanRows(f) = 1 .. n
    BY <1>2 DEF PlanRows
  <1>4. \A i \in 1 .. n : PlanRows(f)[i] \in S
    BY <1>3 DEF SetOf
  <1> HIDE DEF n, S
  <1>5. PlanRows(f) \in [1 .. n -> S]
    <2>1. PlanRows(f) = [i \in 1 .. n |-> PlanRows(f)[i]]
      BY <1>2 DEF PlanRows
    <2> QED
      BY <1>4, <2>1
  <1>6. PlanRows(f) \in Seq(S)
    BY <1>2, <1>5, SeqDef
  <1> QED
    BY <1>1, <1>6, ListsItsOwn

\* A setup begins with what its plan has selected.
LEMMA SetupBegins ==
    ASSUME NEW f \in Asked, SetupBegin(f)
    PROVE  SetupInv'
  <1> DEFINE rows == PlanFor(f).rows
             none == <<>>
  <1>1. setup' = [todo |-> rows, done |-> none, asked |-> {}, forked |-> {}, found |-> {},
                  pulled |-> {}, cached |-> {}, ready |-> FALSE, clean |-> TRUE]
    BY DEF SetupBegin
  <1>2. Listed(rows)
    BY PlannedRows DEF SetupBegin
  <1>3. Listed(none) /\ SetOf(none) = {}
    BY NothingListed
  <1> HIDE DEF rows, none
  <1>4. setup'.todo = rows /\ setup'.done = none /\ setup'.pulled = {}
    BY <1>1
  <1>5. setup' = [todo |-> setup'.todo, done |-> setup'.done, asked |-> setup'.asked,
                  forked |-> setup'.forked, found |-> setup'.found, pulled |-> setup'.pulled,
                  cached |-> setup'.cached, ready |-> setup'.ready, clean |-> setup'.clean]
    BY <1>1
  <1> QED
    BY <1>2, <1>3, <1>4, <1>5 DEF SetupInv

\* What the setup had fetched stays so while nothing is taken from a store.
LEMMA FetchedStays ==
    ASSUME SetupInv, setup # None, setup' # None,
           setup' = [todo |-> setup'.todo, done |-> setup'.done, asked |-> setup'.asked,
                     forked |-> setup'.forked, found |-> setup'.found, pulled |-> setup'.pulled,
                     cached |-> setup'.cached, ready |-> setup'.ready, clean |-> setup'.clean],
           setup'.todo = setup.todo, setup'.done = setup.done, setup'.found = setup.found,
           setup'.pulled = setup.pulled, setup'.cached = setup.cached,
           setup'.clean => setup.clean,
           \A r, a : r \notin OneModel /\ <<r, a>> \in present => <<r, a>> \in present'
    PROVE  SetupInv'
  <1>1. \A r, a : Stored(r, a) => Stored(r, a)'
    BY DEF Stored
  <1>2. \A row : Fetched(row) => Fetched(row)'
    BY <1>1 DEF Fetched
  <1> QED
    BY <1>1, <1>2 DEF SetupInv

\* The runtime of a role: nothing but the record of starts and failures changes.
LEMMA SetupStarts ==
    ASSUME SetupInv, NEW install \in BOOLEAN, NEW brings \in BOOLEAN, NEW start \in BOOLEAN,
           SetupRuntime(install, brings, start)
    PROVE  SetupInv'
  <1>1. PICK asked, forked, clean :
           /\ setup' = [setup EXCEPT !.ready = TRUE, !.asked = asked, !.forked = forked,
                                     !.clean = clean]
           /\ clean => setup.clean
    <2> DEFINE row == Head(setup.todo)
               r == row.runtime
               asks == r \notin up /\ r \notin setup.asked
               installs == asks /\ r = "ollama" /\ r \notin installed
               asked == IF asks THEN setup.asked \cup {r} ELSE setup.asked
               forked == IF asks /\ start /\ r \in installed'
                         THEN setup.forked \cup {<<r, row.name>>} ELSE setup.forked
               clean == setup.clean /\ (installs => install) /\ (asks => start)
    <2>1. setup' = [setup EXCEPT !.ready = TRUE, !.asked = asked, !.forked = forked,
                                 !.clean = clean]
      BY DEF SetupRuntime
    <2>2. clean => setup.clean
      OBVIOUS
    <2> HIDE DEF asked, forked, clean
    <2> QED
      BY <2>1, <2>2
  <1>2. /\ setup # None /\ present' = present
        /\ setup = [todo |-> setup.todo, done |-> setup.done, asked |-> setup.asked,
                    forked |-> setup.forked, found |-> setup.found, pulled |-> setup.pulled,
                    cached |-> setup.cached, ready |-> setup.ready, clean |-> setup.clean]
    BY DEF SetupInv, SetupRuntime
  <1>3. setup' = [todo |-> setup.todo, done |-> setup.done, asked |-> asked,
                  forked |-> forked, found |-> setup.found, pulled |-> setup.pulled,
                  cached |-> setup.cached, ready |-> TRUE, clean |-> clean]
    BY <1>1, <1>2
  <1>4. /\ setup' = [todo |-> setup'.todo, done |-> setup'.done, asked |-> setup'.asked,
                     forked |-> setup'.forked, found |-> setup'.found, pulled |-> setup'.pulled,
                     cached |-> setup'.cached, ready |-> setup'.ready, clean |-> setup'.clean]
        /\ setup'.todo = setup.todo /\ setup'.done = setup.done /\ setup'.found = setup.found
        /\ setup'.pulled = setup.pulled /\ setup'.cached = setup.cached
        /\ setup'.clean => setup.clean
    BY <1>1, <1>3
  <1>5. CASE setup' = None
    BY <1>5 DEF SetupInv
  <1> QED
    BY <1>2, <1>4, <1>5, FetchedStays

\* The model of a role: it was listed, or it is pulled and stored.
LEMMA SetupPulls ==
    ASSUME SetupInv, NEW pull \in BOOLEAN, SetupModel(pull)
    PROVE  SetupInv'
  <1> DEFINE row == Head(setup.todo)
             r == row.runtime
             key == <<r, row.name>>
             absent == ~ModelPresent(row.name)
             pulls == absent /\ key \notin setup.pulled
             did == pulls /\ RuntimePullSupport(r, row) /\ pull
             todo == Tail(setup.todo)
             done == Append(setup.done, row)
             found == IF absent THEN setup.found ELSE setup.found \cup {row.name}
             cached == IF did /\ r \in OneModel THEN setup.cached \cup {key} ELSE setup.cached
             pulled == IF pulls THEN setup.pulled \cup {key} ELSE setup.pulled
             clean == setup.clean /\ (pulls => did)
  <1>1. /\ setup # None /\ setup.todo # <<>>
        /\ setup = [todo |-> setup.todo, done |-> setup.done, asked |-> setup.asked,
                    forked |-> setup.forked, found |-> setup.found, pulled |-> setup.pulled,
                    cached |-> setup.cached, ready |-> setup.ready, clean |-> setup.clean]
        /\ Listed(setup.todo) /\ Listed(setup.done)
    BY DEF SetupInv, SetupModel
  <1>2. present' = IF did /\ r \notin OneModel THEN present \cup {key} ELSE present
    BY DEF SetupModel, PullKey
  <1>3. setup' = [todo |-> todo, done |-> done, asked |-> setup.asked,
                  forked |-> setup.forked, found |-> found, pulled |-> pulled,
                  cached |-> cached, ready |-> FALSE, clean |-> clean]
    <2>1. setup' = [setup EXCEPT !.todo = todo, !.done = done, !.ready = FALSE,
                                 !.found = found, !.cached = cached, !.pulled = pulled,
                                 !.clean = clean]
      BY DEF SetupModel, PullKey
    <2> HIDE DEF todo, done, found, cached, pulled, clean
    <2> QED
      BY <1>1, <2>1
  <1>4. Listed(todo)
    BY <1>1, HeadAndTail
  <1>5. Listed(done) /\ SetOf(done) \subseteq SetOf(setup.done) \cup {row}
    BY <1>1, AppendLists
  <1>6. /\ setup'.todo = todo /\ setup'.done = done /\ setup'.found = found
        /\ setup'.pulled = pulled /\ setup'.cached = cached /\ setup'.clean = clean
        /\ setup' = [todo |-> setup'.todo, done |-> setup'.done, asked |-> setup'.asked,
                     forked |-> setup'.forked, found |-> setup'.found, pulled |-> setup'.pulled,
                     cached |-> setup'.cached, ready |-> setup'.ready, clean |-> setup'.clean]
    <2> HIDE DEF todo, done, found, cached, pulled, clean
    <2> QED
      BY <1>3
  <1> HIDE DEF row, todo, done
  <1>7. ASSUME clean
        PROVE  /\ \A x, a : <<x, a>> \in setup'.pulled => Stored(x, a)'
               /\ \A x \in SetOf(done) : Fetched(x)'
    <2>1. /\ \A x, a : <<x, a>> \in setup.pulled => Stored(x, a)
          /\ \A x \in SetOf(setup.done) : Fetched(x)
      BY <1>1, <1>7 DEF SetupInv
    <2>2. \A x, a : Stored(x, a) => Stored(x, a)'
      BY <1>2, <1>6 DEF Stored
    <2>3. ASSUME NEW x, NEW a, x = r, a = row.name, pulls
          PROVE  Stored(x, a)'
      BY <1>2, <1>6, <1>7, <2>3 DEF Stored
    <2>4. \A x, a : <<x, a>> \in setup'.pulled => Stored(x, a)'
      <3> SUFFICES ASSUME NEW x, NEW a, <<x, a>> \in setup'.pulled
                   PROVE  Stored(x, a)'
        OBVIOUS
      <3>1. CASE <<x, a>> \in setup.pulled
        BY <2>1, <2>2, <3>1
      <3>2. CASE pulls /\ <<x, a>> = key
        <4>1. x = r /\ a = row.name
          BY <3>2
        <4> QED
          BY <2>3, <3>2, <4>1
      <3> QED
        BY <1>6, <3>1, <3>2
    <2>5. \A x \in SetOf(setup.done) : Fetched(x)'
      BY <1>6, <2>1, <2>2 DEF Fetched
    <2>6. ASSUME NEW x, x = row
          PROVE  Fetched(x)'
      <3>1. CASE ~absent
        BY <1>6, <2>6, <3>1 DEF Fetched
      <3>2. CASE absent
        <4>1. <<x.runtime, x.name>> \in setup'.pulled
          BY <1>6, <2>6, <3>2
        <4> QED
          BY <2>4, <4>1 DEF Fetched
      <3> QED
        BY <3>1, <3>2
    <2> QED
      BY <1>5, <2>4, <2>5, <2>6
  <1> HIDE DEF found, cached, pulled, clean
  <1> QED
    BY <1>4, <1>5, <1>6, <1>7 DEF SetupInv

\* A server that comes up lists another model, and takes none from a store.
LEMMA SetupWakes ==
    ASSUME SetupInv, NEW r \in Runtime, NEW a \in Alias, ForkedComesUp(r, a)
    PROVE  SetupInv'
  <1>1. /\ setup # None /\ UNCHANGED setup
        /\ present' = IF r \in OneModel THEN (present \ ({r} \X Alias)) \cup {<<r, a>>}
                      ELSE present
    BY DEF ForkedComesUp
  <1>2. \A x, b : x \notin OneModel /\ <<x, b>> \in present => <<x, b>> \in present'
    BY <1>1
  <1> QED
    BY <1>1, <1>2, FetchedStays DEF SetupInv

\* Whatever happens next to a setup leaves what it has fetched.
THEOREM SetupInvariant == ArtSpec => []SetupInv
  <1>1. ArtInit => SetupInv
    BY DEF ArtInit, IntInit, SetupInv
  <1>2. SetupInv /\ [ArtNext]_artVars => SetupInv'
    <2> SUFFICES ASSUME SetupInv, [ArtNext]_artVars
                 PROVE  SetupInv'
      OBVIOUS
    <2>1. ASSUME setup' = None
          PROVE  SetupInv'
      BY <2>1 DEF SetupInv
    <2>2. ASSUME UNCHANGED <<setup, present>>
          PROVE  SetupInv'
      BY <2>2 DEF SetupInv, Fetched, Stored
    <2>3. CASE IntCommands
      <3>1. ASSUME (\E f \in Asked : Plan(f) \/ Export(f)) \/ ExportSaved \/ SetupEnd
            PROVE  setup' = None
        BY <3>1 DEF Plan, Export, ExportSaved, SetupEnd
      <3> QED
        BY <2>1, <2>3, <3>1, SetupBegins, SetupStarts, SetupPulls, SetupWakes DEF IntCommands
    <2>4. CASE IntChanges \/ StackNext
      <3>1. setup' = None \/ UNCHANGED <<setup, present>>
        BY <2>4 DEF IntChanges, EditCatalog, ChangePolicy, ServerStops, StackNext, Idle,
                    StackSetup, MachineChanges, ServerStarts, GrantsChange, intVars, machine
      <3> QED
        BY <2>1, <2>2, <3>1
    <2>5. CASE \E task \in Task, roles \in Targets : Handoff(task, roles)
      BY <2>2, <2>5 DEF Handoff, intVars, machine
    <2>6. CASE \E a \in Alias, r \in Runtime : ModelHandoff(a, r)
      BY <2>2, <2>6 DEF ModelHandoff, intVars, machine
    <2>7. CASE Mixed \/ MixedRecord \/ UNCHANGED artVars
      BY <2>2, <2>7 DEF Mixed, MixedRecord, artVars, intVars, machine
    <2> QED
      BY <2>3, <2>4, <2>5, <2>6, <2>7 DEF ArtNext
  <1> QED
    BY <1>1, <1>2, PTL DEF ArtSpec

\* Whatever runtimes the selected roles share, whatever was pulled before and
\* whatever becomes of the servers, a setup without a failure has found or stored
\* every model it selected.
THEOREM CleanSetupsFetch == ArtSpec => []CleanSetupFetches
  <1>1. SetupInv => CleanSetupFetches
    <2> SUFFICES ASSUME SetupInv, setup # None, setup.clean, NEW i \in DOMAIN setup.done
                 PROVE  Fetched(setup.done[i])
      BY DEF CleanSetupFetches, Fetched
    <2>1. setup.done[i] \in SetOf(setup.done)
      BY DEF SetOf
    <2> QED
      BY <2>1 DEF SetupInv
  <1> QED
    BY <1>1, SetupInvariant, PTL
=============================================================================
