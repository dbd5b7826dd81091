-------------------------- MODULE ExecutionProofs --------------------------
(***************************************************************************)
(* Which backend gets a prompt and what the audit log says of it, for any  *)
(* catalog and any interleaving of the command with servers and grants;    *)
(* what models doctor says of a provider whose credentials change, and     *)
(* that a list of models is what the service lists, however long and in    *)
(* however many pages; and by how much the calls an agent's budget lets    *)
(* through can pass a limit, for any number of threads.                    *)
(***************************************************************************)
EXTENDS Execution, Connections, Guardrails, FiniteSetTheorems, SequenceTheorems,
        WellFoundedInduction, TLAPS

-----------------------------------------------------------------------------
(* The inductive invariant of a prompt.                                    *)

\* The stages of a route behind each check.
Selected == job.at \in {"policy", "cloud", "require", "probe", "ask"} \/ answered
PolicyPassed == job.at \in {"cloud", "require", "probe", "ask"} \/ answered
CloudPassed == job.at \in {"require", "probe", "ask"} \/ answered

\* Every alias that is worked with is known, and an answer ends the work.
Staged ==
    /\ Selected => job.name \in Model
    /\ job.kind # "route" /\ job.at # "idle" => job.name \in Model
    /\ answered => job.at \in {"record", "end"} /\ job.outcome = "answered"
    /\ job.outcome = "answered" => answered
    /\ job.at \notin {"record", "end"} => job.outcome = "none"
    /\ job.outcome = "dry_run" => job.dry
    /\ job.at \in {"select", "policy", "cloud"} => job.kind = "route"
    /\ job.kind = "route" /\ CloudPassed => ~job.dry

\* What each check of a route has established.  A grant that a check saw may
\* be revoked later; seen still has it.
Admitted ==
    /\ grants \subseteq seen
    /\ job.kind = "route" =>
         /\ Selected => row.enabled
         /\ PolicyPassed => /\ ModelBase(job.name) \/ "model" \in seen
                            /\ row.local /\ ~row.fits => job.ignore
         /\ CloudPassed => row.local \/ (~job.secret /\ (cloud \/ "cloud" \in seen))

\* The event is fixed with the outcome and appended once, or never.
Logged ==
    /\ job.at \notin {"record", "end"} => job.event = "none"
    /\ job.at \in {"record", "end"} => job.event = Due
    /\ job.at = "record" => job.event # "none"
    /\ job.at # "end" => ~job.unlogged
    /\ events = IF job.at = "end" /\ ~job.unlogged /\ job.event # "none"
                THEN <<job.event>> ELSE <<>>

PromptInv == TypeOK /\ Staged /\ Admitted /\ Logged

-----------------------------------------------------------------------------
(* Types.                                                                  *)

\* What the fields of a row are.
LEMMA RowType ==
    ASSUME TypeOK, NEW m \in Model
    PROVE  /\ rows[m] \in Rows /\ rows[m].service \in Backend \cup {None}
           /\ rows[m].runtimes \in Seq(Backend)
           /\ \A f \in {"local", "enabled", "curated", "provider", "fits", "capable"} :
                 rows[m][f] \in BOOLEAN
  <1>1. rows[m] \in Rows
    BY DEF TypeOK
  <1>2. IsRow(rows[m])
    BY <1>1, ExecutionAssumption
  <1> QED
    BY <1>1, <1>2 DEF IsRow

\* A route without a name takes an enabled alias of the catalog.
LEMMA SelectModelEnabled ==
    ASSUME TypeOK, NEW m \in SelectModel
    PROVE  m \in Model /\ rows[m].enabled
  <1>1. ASSUME NEW local, m \in Enabled(local)
        PROVE  m \in Model /\ rows[m].enabled
    <2>1. PICK i \in DOMAIN listing : m = listing[i] /\ rows[listing[i]].enabled
      BY <1>1 DEF Enabled
    <2> QED
      BY <2>1 DEF TypeOK
  <1>2. ASSUME NEW role \in {"managed", "local"}, NEW local, m \in DefaultOf(role, local)
        PROVE  m \in Model /\ rows[m].enabled
    BY <1>2 DEF DefaultOf, TypeOK
  <1> HIDE DEF Enabled, DefaultOf
  <1> QED
    BY <1>1, <1>2 DEF SelectModel, Else

\* Every step of the command keeps its variables in their types.
LEMMA PromptTypeStep ==
    ASSUME PromptInv, [Next]_vars PROVE TypeOK'
  <1> USE DEF PromptInv, Job, Kind, At, Outcome, Grant
  <1>0. TypeOK /\ job \in Job
    BY DEF TypeOK
  <1>1. ASSUME UNCHANGED config, job' \in Job, grants' \subseteq Grant,
               seen' \subseteq Grant, up' \subseteq Backend,
               events' \in Seq({"allowed", "blocked", "dry_run"}), answered' \in BOOLEAN
        PROVE  TypeOK'
    BY <1>0, <1>1 DEF TypeOK, config
  <1>2. NoJob \in Job
    BY EmptySeq DEF NoJob
  <1>3. CASE Begin
    <2>1. PICK kind \in Kind, name \in Model \cup {None}, flags \in [1..4 -> BOOLEAN] :
             job' = [NoJob EXCEPT !.kind = kind, !.name = name, !.escalate = flags[1],
                     !.secret = flags[2], !.ignore = flags[3], !.dry = flags[4],
                     !.at = IF kind = "route" THEN "select" ELSE "require"]
      BY <1>3 DEF Begin
    <2>2. \A i \in 1..4 : flags[i] \in BOOLEAN
      BY <2>1
    <2>3. job' = [kind |-> kind, at |-> IF kind = "route" THEN "select" ELSE "require",
                  name |-> name, escalate |-> flags[1], secret |-> flags[2],
                  ignore |-> flags[3], dry |-> flags[4], todo |-> <<>>, up |-> <<>>,
                  backend |-> None, outcome |-> "none", event |-> "none", unlogged |-> FALSE]
      BY <2>1 DEF NoJob
    <2>4. job' \in Job
      BY <2>2, <2>3, EmptySeq
    <2> QED
      BY <1>1, <1>3, <2>4 DEF Begin, TypeOK, ghosts
  <1>a. ASSUME NEW outcome \in Outcome, NEW event \in {"none", "allowed", "blocked", "dry_run"},
               NEW stage \in At,
               job' = [job EXCEPT !.outcome = outcome, !.event = event, !.at = stage]
        PROVE  job' \in Job
    <2> HIDE DEF PromptInv, Kind, At, Outcome, Grant
    <2> QED
      BY <1>0, <1>a
  <1>4. ASSUME NEW outcome \in Outcome, NEW event \in {"none", "allowed", "blocked", "dry_run"},
               Ended(outcome, event)
        PROVE  job' \in Job
    <2>1. PICK stage \in At : stage = IF event = "none" THEN "end" ELSE "record"
      OBVIOUS
    <2>2. job' = [job EXCEPT !.outcome = outcome, !.event = event, !.at = stage]
      BY <1>4, <2>1 DEF Ended
    <2> HIDE DEF Job, PromptInv, Kind, At, Outcome, Grant
    <2> QED
      BY <1>a, <2>1, <2>2
  <1>5. ASSUME NEW stage \in At, job' = [job EXCEPT !.at = stage]
        PROVE  job' \in Job
    BY <1>5 DEF TypeOK
  <1>6. CallFails => job' \in Job
    <2>1. PICK event \in {"none", "blocked"}, stage \in At :
             /\ event = IF job.kind = "route" THEN "blocked" ELSE "none"
             /\ stage = IF job.kind = "route" THEN "record" ELSE "end"
      OBVIOUS
    <2>2. CallFails =>
             job' = [job EXCEPT !.outcome = "failed", !.event = event, !.at = stage]
      BY <2>1 DEF CallFails
    <2>3. "failed" \in Outcome /\ event \in {"none", "allowed", "blocked", "dry_run"}
      BY <2>1
    <2> HIDE DEF Job, PromptInv, Kind, At, Outcome, Grant
    <2> QED
      BY <1>a, <2>1, <2>2, <2>3
  <1>7. CASE Select
    <2>1. ASSUME NEW m \in Model, job' = [job EXCEPT !.name = m, !.at = "policy"]
          PROVE  job' \in Job
      BY <2>1 DEF TypeOK
    <2>3. Block \/ Ended("unknown", "none") => job' \in Job
      BY <1>4 DEF Block
    <2>6. job' \in Job
      <3>1. job.name # None => job.name \in Model
        BY <1>0
      <3> HIDE DEF Job
      <3> QED
        BY <1>0, <1>7, <2>1, <2>3, <3>1, SelectModelEnabled DEF Select
    <2> QED
      BY <1>1, <1>7, <2>6 DEF Select, TypeOK
  <1>8. CASE CheckModelPolicy \/ CheckCloudAllowed
    <2>1. job' \in Job
      BY <1>4, <1>5, <1>8 DEF CheckModelPolicy, CheckCloudAllowed, Block, Admit
    <2> QED
      BY <1>1, <1>8, <2>1 DEF CheckModelPolicy, CheckCloudAllowed, TypeOK, ghosts
  <1>9. CASE RequireExecutionCapability
    <2>1. job.name \in Model
      BY <1>9 DEF RequireExecutionCapability, Staged, Selected, TypeOK
    <2>2. row.service \in Backend \cup {None} /\ row.runtimes \in Seq(Backend)
      BY <2>1, RowType DEF row
    <2>3. ASSUME NEW stage \in {"probe", "ask"},
                 job' = [job EXCEPT !.at = stage, !.backend = row.service, !.todo = row.runtimes]
          PROVE  job' \in Job
      BY <1>0, <2>2, <2>3
    <2>5. job' \in Job
      <3> HIDE DEF Job
      <3> QED
        BY <1>4, <1>6, <1>9, <2>3 DEF RequireExecutionCapability
    <2>4. Backends \subseteq Backend
      BY <2>2 DEF Backends
    <2> QED
      BY <1>1, <1>9, <2>4, <2>5 DEF RequireExecutionCapability, TypeOK, ghosts
  <1>10. CASE RuntimeAvailable
    <2>1. job.todo \in Seq(Backend) /\ job.todo # <<>> /\ job.up \in Seq(Backend)
      BY <1>10 DEF RuntimeAvailable, TypeOK
    <2>2. Head(job.todo) \in Backend /\ Tail(job.todo) \in Seq(Backend)
      BY <2>1, HeadTailProperties
    <2>3. job' \in Job
      <3>1. Append(job.up, Head(job.todo)) \in Seq(Backend)
        BY <2>1, <2>2, AppendProperties
      <3>2. PICK s \in Seq(Backend) : job' = [job EXCEPT !.todo = Tail(job.todo), !.up = s]
        BY <1>0, <1>10, <2>1, <3>1 DEF RuntimeAvailable
      <3> QED
        BY <1>0, <2>2, <3>2
    <2> QED
      BY <1>1, <1>10, <2>3 DEF RuntimeAvailable, TypeOK, ghosts
  <1>11. CASE SelectRuntime
    <2>1. job.up # <<>> => Head(job.up) \in Backend
      BY HeadTailProperties DEF TypeOK
    <2>2. job' \in Job
      <3>1. ASSUME NEW b \in Backend, job' = [job EXCEPT !.at = "ask", !.backend = b]
            PROVE  job' \in Job
        BY <1>0, <3>1
      <3> HIDE DEF Job
      <3> QED
        BY <1>6, <1>11, <2>1, <3>1 DEF SelectRuntime
    <2> QED
      BY <1>1, <1>11, <2>2 DEF SelectRuntime, TypeOK, ghosts
  <1>12. CASE Chat
    <2>1. job' \in Job
      BY <1>4, <1>6, <1>12 DEF Chat, Answer
    <2> QED
      BY <1>1, <1>12, <2>1 DEF Chat, TypeOK
  <1>13. CASE Record
    <2>1. job' \in Job
      <3>0. "end" \in At
        OBVIOUS
      <3>1. CASE job' = [job EXCEPT !.at = "end"]
        BY <1>5, <3>0, <3>1
      <3>2. CASE job' = [job EXCEPT !.at = "end", !.unlogged = TRUE]
        <4> HIDE DEF PromptInv, Kind, At, Outcome, Grant
        <4> QED
          BY <1>0, <3>0, <3>2
      <3> QED
        BY <1>13, <3>1, <3>2 DEF Record
    <2>2. job.event \in {"allowed", "blocked", "dry_run"}
      BY <1>13 DEF Record, Logged, TypeOK
    <2>3. events' \in Seq({"allowed", "blocked", "dry_run"})
      <3>1. events \in Seq({"allowed", "blocked", "dry_run"})
        BY <1>0 DEF TypeOK
      <3>2. Append(events, job.event) \in Seq({"allowed", "blocked", "dry_run"})
        BY <2>2, <3>1, AppendProperties
      <3> QED
        BY <1>13, <3>1, <3>2 DEF Record
    <2> QED
      BY <1>1, <1>13, <2>1, <2>3 DEF Record, TypeOK, ghosts
  <1>14. CASE ServerChanges
    <2>1. job.name \in Model
      BY <1>14 DEF ServerChanges, Staged, Selected
    <2>2. Backends \subseteq Backend
      BY <2>1, RowType DEF row, Backends
    <2> QED
      BY <1>1, <1>14, <2>2 DEF ServerChanges, TypeOK
  <1>15. CASE GrantsChange
    BY <1>1, <1>15 DEF GrantsChange, TypeOK
  <1>16. CASE Over
    <2>1. /\ UNCHANGED config /\ job' = NoJob /\ events' = <<>> /\ answered' = FALSE
          /\ grants' = {} /\ seen' = {} /\ up' = {}
      BY <1>16 DEF Over
    <2>2. events' \in Seq({"allowed", "blocked", "dry_run"})
      BY <2>1, EmptySeq
    <2>3. job' \in Job
      BY <1>2, <2>1
    <2> HIDE DEF Job
    <2> QED
      BY <1>1, <2>1, <2>2, <2>3
  <1>17. CASE UNCHANGED vars
    BY <1>17 DEF vars, config, ghosts, TypeOK
  <1> QED
    BY <1>3, <1>7, <1>8, <1>9, <1>10, <1>11, <1>12, <1>13, <1>14, <1>15, <1>16, <1>17
       DEF Next, Runs

-----------------------------------------------------------------------------
(* The steps.                                                              *)

\* The part of a job that is fixed when it begins.
SameRequest ==
    /\ job'.kind = job.kind /\ job'.dry = job.dry /\ job'.secret = job.secret
    /\ job'.ignore = job.ignore /\ job'.unlogged = job.unlogged

\* How a job ends when its outcome is known.
LEMMA EndedJob ==
    ASSUME job \in Job, NEW outcome, NEW event, Ended(outcome, event)
    PROVE  /\ SameRequest /\ job'.name = job.name
           /\ job'.outcome = outcome /\ job'.event = event
           /\ job'.at = IF event = "none" THEN "end" ELSE "record"
  BY DEF Job, Ended, SameRequest

\* How a job begins.
LEMMA BegunJob ==
    ASSUME Begin
    PROVE  /\ job.at = "idle" /\ UNCHANGED <<config, grants, events, seen, answered>>
           /\ job'.kind \in Kind /\ (job'.kind # "route" => job'.name \in Model)
           /\ job'.at = IF job'.kind = "route" THEN "select" ELSE "require"
           /\ job'.outcome = "none" /\ job'.event = "none" /\ ~job'.unlogged
  <1>1. PICK kind \in Kind, name \in Model \cup {None}, flags \in [1..4 -> BOOLEAN] :
           /\ job.at = "idle"
           /\ kind # "route" => name # None /\ ~(flags[1] \/ flags[2] \/ flags[3])
           /\ job' = [NoJob EXCEPT !.kind = kind, !.name = name, !.escalate = flags[1],
                     !.secret = flags[2], !.ignore = flags[3], !.dry = flags[4],
                     !.at = IF kind = "route" THEN "select" ELSE "require"]
           /\ UNCHANGED <<config, grants, up, events, ghosts>>
    BY DEF Begin
  <1>2. /\ job'.kind = kind /\ job'.name = name
        /\ job'.at = IF job'.kind = "route" THEN "select" ELSE "require"
        /\ job'.outcome = "none" /\ job'.event = "none" /\ job'.unlogged = FALSE
    BY <1>1 DEF NoJob
  <1>3. job.at = "idle" /\ UNCHANGED <<config, grants, events, seen, answered>>
    BY DEF Begin, ghosts
  <1>4. kind # "route" => name \in Model
    BY <1>1
  <1>5. job'.kind \in Kind /\ (job'.kind # "route" => job'.name \in Model)
    BY <1>2, <1>4
  <1> QED
    BY <1>2, <1>3, <1>5

\* What the steps before the prompt leaves make of a job.
LEMMA SelectedJob ==
    ASSUME TypeOK, Select
    PROVE  \/ Ended("refused", "blocked")
           \/ Ended("unknown", "none")
           \/ /\ SameRequest /\ job'.outcome = job.outcome /\ job'.event = job.event
              /\ job'.at = "policy" /\ job'.name \in Model /\ rows[job'.name].enabled
  <1>1. job \in Job
    BY DEF TypeOK
  <1>2. \A m \in SelectModel : m \in Model /\ rows[m].enabled
    BY SelectModelEnabled
  <1>3. job.name # None => job.name \in Model
    BY <1>1 DEF Job
  <1>4. ASSUME NEW m \in Model, rows[m].enabled,
               job' = [job EXCEPT !.name = m, !.at = "policy"]
        PROVE  /\ SameRequest /\ job'.outcome = job.outcome /\ job'.event = job.event
               /\ job'.at = "policy" /\ job'.name \in Model /\ rows[job'.name].enabled
    BY <1>1, <1>4 DEF Job, SameRequest
  <1> QED
    BY <1>2, <1>3, <1>4 DEF Select, Block, row

\* The policy check ends the command, or leaves the alias it held allowed and fitting.
LEMMA CheckedJob ==
    ASSUME job \in Job, CheckModelPolicy
    PROVE  \/ Ended("refused", "blocked")
           \/ /\ SameRequest /\ job'.outcome = job.outcome /\ job'.event = job.event
              /\ job'.at = "cloud" /\ job'.name = job.name
              /\ ModelBase(job.name) \/ "model" \in grants
              /\ row.local /\ ~row.fits => job.ignore
  <1>1. ASSUME job' = [job EXCEPT !.at = "cloud"]
        PROVE  /\ SameRequest /\ job'.outcome = job.outcome /\ job'.event = job.event
               /\ job'.at = "cloud" /\ job'.name = job.name
    BY <1>1 DEF Job, SameRequest
  <1> QED
    BY <1>1 DEF CheckModelPolicy, Block

\* The check for remote rows ends the command, or leaves the row local or both
\* allowed and free of secrets.
LEMMA AdmittedJob ==
    ASSUME job \in Job, CheckCloudAllowed
    PROVE  \/ Ended("refused", "blocked")
           \/ job.dry /\ Ended("dry_run", "allowed")
           \/ /\ ~job.dry /\ SameRequest
              /\ job'.outcome = job.outcome /\ job'.event = job.event
              /\ job'.at = "require" /\ job'.name = job.name
              /\ row.local \/ (~job.secret /\ (cloud \/ "cloud" \in grants))
  <1>1. ASSUME job' = [job EXCEPT !.at = "require"]
        PROVE  /\ SameRequest /\ job'.outcome = job.outcome /\ job'.event = job.event
               /\ job'.at = "require" /\ job'.name = job.name
    BY <1>1 DEF Job, SameRequest
  <1> QED
    BY <1>1 DEF CheckCloudAllowed, Block, Admit

\* How a job ends when the call fails.
LEMMA FailedJob ==
    ASSUME job \in Job, CallFails
    PROVE  /\ SameRequest /\ job'.name = job.name /\ job'.outcome = "failed"
           /\ job'.event = IF job.kind = "route" THEN "blocked" ELSE "none"
           /\ job'.at = IF job.kind = "route" THEN "record" ELSE "end"
  BY DEF Job, CallFails, SameRequest

\* How a job looks that a backend has been chosen for.
LEMMA RequiredJob ==
    ASSUME job \in Job, RequireExecutionCapability
    PROVE  \/ CallFails
           \/ job.dry /\ Ended("dry_run", IF job.kind = "code" THEN "dry_run" ELSE "none")
           \/ /\ ~job.dry /\ SameRequest /\ job'.name = job.name
              /\ job'.outcome = job.outcome /\ job'.event = job.event
              /\ job'.at \in {"probe", "ask"}
  <1>1. ASSUME NEW stage \in {"probe", "ask"}, NEW b, NEW s,
               job' = [job EXCEPT !.at = stage, !.backend = b, !.todo = s]
        PROVE  /\ SameRequest /\ job'.name = job.name
               /\ job'.outcome = job.outcome /\ job'.event = job.event
               /\ job'.at \in {"probe", "ask"}
    BY <1>1 DEF Job, SameRequest
  <1>2. (IF row.service = None THEN "probe" ELSE "ask") \in {"probe", "ask"}
    OBVIOUS
  <1> QED
    BY <1>1, <1>2 DEF RequireExecutionCapability

\* A runtime that answered its probe takes the prompt.
LEMMA ProbedJob ==
    ASSUME job \in Job, SelectRuntime
    PROVE  \/ CallFails
           \/ /\ SameRequest /\ job'.name = job.name
              /\ job'.outcome = job.outcome /\ job'.event = job.event
              /\ job'.at = "ask"
  BY DEF Job, SelectRuntime, SameRequest

\* The event has been appended, or could not be.
LEMMA RecordedJob ==
    ASSUME job \in Job, Record
    PROVE  /\ job'.kind = job.kind /\ job'.dry = job.dry /\ job'.name = job.name
           /\ job'.secret = job.secret /\ job'.ignore = job.ignore
           /\ job'.outcome = job.outcome /\ job'.event = job.event /\ job'.at = "end"
           /\ \/ job'.unlogged = job.unlogged /\ events' = Append(events, job.event)
              \/ job'.unlogged /\ events' = events
  BY DEF Job, Record

\* The steps of a prompt keep Staged.
LEMMA StagedStep ==
    ASSUME PromptInv, [Next]_vars PROVE Staged'
  <1> USE DEF PromptInv, Staged, Selected, CloudPassed, Block
  <1>0. job \in Job /\ TypeOK
    BY DEF TypeOK
  <1> USE DEF Job
  <1>1. CASE Begin
    BY <1>0, <1>1, BegunJob DEF SameRequest, ghosts
  <1>2. CASE Select
    <2>1. /\ job.at = "select" /\ UNCHANGED <<config, events, answered>>
          /\ grants' = seen'
      BY <1>2 DEF Select
    <2>2. CASE Ended("refused", "blocked")
      BY <1>0, <2>1, <2>2, EndedJob DEF SameRequest, ghosts
    <2>3. CASE Ended("unknown", "none")
      BY <1>0, <2>1, <2>3, EndedJob DEF SameRequest, ghosts
    <2> QED
      BY <1>0, <1>2, <2>1, <2>2, <2>3, SelectedJob DEF SameRequest, ghosts
  <1>3. CASE CheckModelPolicy
    <2>1. job.at = "policy" /\ UNCHANGED <<config, grants, events, ghosts>>
      BY <1>3 DEF CheckModelPolicy
    <2>2. CASE Ended("refused", "blocked")
      BY <1>0, <2>1, <2>2, EndedJob DEF SameRequest, ghosts
    <2> QED
      BY <1>0, <1>3, <2>1, <2>2, CheckedJob DEF SameRequest, ghosts
  <1>4. CASE CheckCloudAllowed
    <2>1. job.at = "cloud" /\ UNCHANGED <<config, grants, events, ghosts>>
      BY <1>4 DEF CheckCloudAllowed
    <2>2. CASE Ended("refused", "blocked")
      BY <1>0, <2>1, <2>2, EndedJob DEF SameRequest, ghosts
    <2>3. CASE job.dry /\ Ended("dry_run", "allowed")
      <3>1. /\ SameRequest /\ job'.name = job.name /\ job'.outcome = "dry_run"
            /\ job'.event = "allowed"
            /\ job'.at = IF job'.event = "none" THEN "end" ELSE "record"
        BY <1>0, <2>3, EndedJob
      <3> QED
        BY <1>0, <2>1, <2>3, <3>1 DEF SameRequest, ghosts
    <2> QED
      BY <1>0, <1>4, <2>1, <2>2, <2>3, AdmittedJob DEF SameRequest, ghosts
  <1>5. CASE RequireExecutionCapability
    <2>1. job.at = "require" /\ UNCHANGED <<config, grants, events, ghosts>>
      BY <1>5 DEF RequireExecutionCapability
    <2>2. CASE CallFails
      BY <1>0, <2>1, <2>2, FailedJob DEF SameRequest, ghosts
    <2>3. CASE job.dry /\ Ended("dry_run", IF job.kind = "code" THEN "dry_run" ELSE "none")
      <3>1. /\ SameRequest /\ job'.name = job.name /\ job'.outcome = "dry_run"
            /\ job'.event = IF job.kind = "code" THEN "dry_run" ELSE "none"
            /\ job'.at = IF job'.event = "none" THEN "end" ELSE "record"
        BY <1>0, <2>3, EndedJob
      <3> QED
        BY <1>0, <2>1, <2>3, <3>1 DEF SameRequest, ghosts
    <2> QED
      BY <1>0, <1>5, <2>1, <2>2, <2>3, RequiredJob DEF SameRequest, ghosts
  <1>6. CASE RuntimeAvailable
    BY <1>0, <1>6 DEF RuntimeAvailable, ghosts
  <1>7. CASE SelectRuntime
    <2>1. job.at = "probe" /\ UNCHANGED <<config, grants, events, ghosts>>
      BY <1>7 DEF SelectRuntime
    <2>2. CASE CallFails
      BY <1>0, <2>1, <2>2, FailedJob DEF SameRequest, ghosts
    <2> QED
      BY <1>0, <1>7, <2>1, <2>2, ProbedJob DEF SameRequest, ghosts
  <1>8. CASE Chat
    <2>1. job.at = "ask" /\ UNCHANGED <<config, grants, events, seen>>
      BY <1>8 DEF Chat
    <2>2. CASE CallFails /\ UNCHANGED answered
      BY <1>0, <2>1, <2>2, FailedJob DEF SameRequest, ghosts
    <2>3. CASE Answer /\ answered' = TRUE
      <3>1. /\ SameRequest /\ job'.name = job.name /\ job'.outcome = "answered"
            /\ job'.event = IF job.kind = "chat" THEN "none" ELSE "allowed"
            /\ job'.at = IF job'.event = "none" THEN "end" ELSE "record"
        BY <1>0, <2>3, EndedJob DEF Answer
      <3> QED
        BY <1>0, <2>1, <2>3, <3>1 DEF SameRequest, ghosts
    <2> QED
      BY <1>8, <2>2, <2>3 DEF Chat
  <1>9. CASE Record
    <2>1. job.at = "record" /\ UNCHANGED <<config, grants, ghosts>>
      BY <1>9 DEF Record
    <2> QED
      BY <1>0, <1>9, <2>1, RecordedJob DEF ghosts
  <1>10. CASE ServerChanges \/ GrantsChange
    BY <1>0, <1>10 DEF ServerChanges, GrantsChange
  <1>11. CASE Over
    BY <1>11 DEF Over, NoJob
  <1>12. CASE UNCHANGED vars
    BY <1>12 DEF vars, ghosts
  <1> QED
    BY <1>1, <1>2, <1>3, <1>4, <1>5, <1>6, <1>7, <1>8, <1>9, <1>10, <1>11, <1>12
       DEF Next, Runs

\* The steps of a prompt keep Admitted.
LEMMA AdmittedStep ==
    ASSUME PromptInv, [Next]_vars PROVE Admitted'
  <1> USE DEF PromptInv, Admitted, Selected, PolicyPassed, CloudPassed, Block,
              row, ModelBase, config
  <1>0. job \in Job /\ TypeOK
    BY DEF TypeOK
  <1> USE DEF Job
  <1>1. CASE Begin
    BY <1>0, <1>1, BegunJob DEF SameRequest, ghosts, Staged
  <1>2. CASE Select
    <2>1. /\ job.at = "select" /\ UNCHANGED <<config, events, answered>>
          /\ grants' = seen'
      BY <1>2 DEF Select
    <2>2. CASE Ended("refused", "blocked")
      BY <1>0, <2>1, <2>2, EndedJob DEF SameRequest, ghosts, Staged
    <2>3. CASE Ended("unknown", "none")
      BY <1>0, <2>1, <2>3, EndedJob DEF SameRequest, ghosts, Staged
    <2> QED
      BY <1>0, <1>2, <2>1, <2>2, <2>3, SelectedJob DEF SameRequest, ghosts, Staged
  <1>3. CASE CheckModelPolicy
    <2>1. job.at = "policy" /\ UNCHANGED <<config, grants, events, ghosts>>
      BY <1>3 DEF CheckModelPolicy
    <2>2. CASE Ended("refused", "blocked")
      BY <1>0, <2>1, <2>2, EndedJob DEF SameRequest, ghosts, Staged
    <2> QED
      BY <1>0, <1>3, <2>1, <2>2, CheckedJob DEF SameRequest, ghosts, Staged
  <1>4. CASE CheckCloudAllowed
    <2>1. job.at = "cloud" /\ UNCHANGED <<config, grants, events, ghosts>>
      BY <1>4 DEF CheckCloudAllowed
    <2>2. CASE Ended("refused", "blocked")
      BY <1>0, <2>1, <2>2, EndedJob DEF SameRequest, ghosts, Staged
    <2>3. CASE job.dry /\ Ended("dry_run", "allowed")
      <3>1. /\ SameRequest /\ job'.name = job.name /\ job'.outcome = "dry_run"
            /\ job'.event = "allowed"
            /\ job'.at = IF job'.event = "none" THEN "end" ELSE "record"
        BY <1>0, <2>3, EndedJob
      <3> QED
        BY <1>0, <2>1, <2>3, <3>1 DEF SameRequest, ghosts, Staged
    <2> QED
      BY <1>0, <1>4, <2>1, <2>2, <2>3, AdmittedJob DEF SameRequest, ghosts, Staged
  <1>5. CASE RequireExecutionCapability
    <2>1. job.at = "require" /\ UNCHANGED <<config, grants, events, ghosts>>
      BY <1>5 DEF RequireExecutionCapability
    <2>2. CASE CallFails
      BY <1>0, <2>1, <2>2, FailedJob DEF SameRequest, ghosts
    <2>3. CASE job.dry /\ Ended("dry_run", IF job.kind = "code" THEN "dry_run" ELSE "none")
      <3>1. /\ SameRequest /\ job'.name = job.name /\ job'.outcome = "dry_run"
            /\ job'.event = IF job.kind = "code" THEN "dry_run" ELSE "none"
            /\ job'.at = IF job'.event = "none" THEN "end" ELSE "record"
        BY <1>0, <2>3, EndedJob
      <3> QED
        BY <1>0, <2>1, <2>3, <3>1 DEF SameRequest, ghosts
    <2> QED
      BY <1>0, <1>5, <2>1, <2>2, <2>3, RequiredJob DEF SameRequest, ghosts
  <1>6. CASE RuntimeAvailable
    BY <1>0, <1>6 DEF RuntimeAvailable, ghosts
  <1>7. CASE SelectRuntime
    <2>1. job.at = "probe" /\ UNCHANGED <<config, grants, events, ghosts>>
      BY <1>7 DEF SelectRuntime
    <2>2. CASE CallFails
      BY <1>0, <2>1, <2>2, FailedJob DEF SameRequest, ghosts
    <2> QED
      BY <1>0, <1>7, <2>1, <2>2, ProbedJob DEF SameRequest, ghosts
  <1>8. CASE Chat
    <2>1. job.at = "ask" /\ UNCHANGED <<config, grants, events, seen>>
      BY <1>8 DEF Chat
    <2>2. CASE CallFails /\ UNCHANGED answered
      BY <1>0, <2>1, <2>2, FailedJob DEF SameRequest, ghosts
    <2>3. CASE Answer /\ answered' = TRUE
      <3>1. /\ SameRequest /\ job'.name = job.name /\ job'.outcome = "answered"
            /\ job'.event = IF job.kind = "chat" THEN "none" ELSE "allowed"
            /\ job'.at = IF job'.event = "none" THEN "end" ELSE "record"
        BY <1>0, <2>3, EndedJob DEF Answer
      <3> QED
        BY <1>0, <2>1, <2>3, <3>1 DEF SameRequest, ghosts
    <2> QED
      BY <1>8, <2>2, <2>3 DEF Chat
  <1>9. CASE Record
    <2>1. job.at = "record" /\ UNCHANGED <<config, grants, ghosts>>
      BY <1>9 DEF Record
    <2> QED
      BY <1>0, <1>9, <2>1, RecordedJob DEF ghosts
  <1>10. CASE ServerChanges \/ GrantsChange
    BY <1>0, <1>10 DEF ServerChanges, GrantsChange
  <1>11. CASE Over
    BY <1>11 DEF Over, NoJob
  <1>12. CASE UNCHANGED vars
    BY <1>12 DEF vars, ghosts
  <1> QED
    BY <1>1, <1>2, <1>3, <1>4, <1>5, <1>6, <1>7, <1>8, <1>9, <1>10, <1>11, <1>12
       DEF Next, Runs

\* The steps of a prompt keep Logged.
LEMMA LoggedStep ==
    ASSUME PromptInv, [Next]_vars PROVE Logged'
  <1> USE DEF PromptInv, Logged, Due, Block
  <1>0. job \in Job /\ TypeOK
    BY DEF TypeOK
  <1> USE DEF Job, Kind
  <1>1. CASE Begin
    BY <1>0, <1>1, BegunJob DEF SameRequest, ghosts, Staged, CloudPassed
  <1>2. CASE Select
    <2>1. /\ job.at = "select" /\ UNCHANGED <<config, events, answered>>
          /\ grants' = seen'
      BY <1>2 DEF Select
    <2>2. CASE Ended("refused", "blocked")
      BY <1>0, <2>1, <2>2, EndedJob DEF SameRequest, ghosts, Staged, CloudPassed
    <2>3. CASE Ended("unknown", "none")
      BY <1>0, <2>1, <2>3, EndedJob DEF SameRequest, ghosts, Staged, CloudPassed
    <2> QED
      BY <1>0, <1>2, <2>1, <2>2, <2>3, SelectedJob DEF SameRequest, ghosts, Staged, CloudPassed
  <1>3. CASE CheckModelPolicy
    <2>1. job.at = "policy" /\ UNCHANGED <<config, grants, events, ghosts>>
      BY <1>3 DEF CheckModelPolicy
    <2>2. CASE Ended("refused", "blocked")
      BY <1>0, <2>1, <2>2, EndedJob DEF SameRequest, ghosts, Staged, CloudPassed
    <2> QED
      BY <1>0, <1>3, <2>1, <2>2, CheckedJob DEF SameRequest, ghosts, Staged, CloudPassed
  <1>4. CASE CheckCloudAllowed
    <2>1. job.at = "cloud" /\ UNCHANGED <<config, grants, events, ghosts>>
      BY <1>4 DEF CheckCloudAllowed
    <2>2. CASE Ended("refused", "blocked")
      BY <1>0, <2>1, <2>2, EndedJob DEF SameRequest, ghosts, Staged, CloudPassed
    <2>3. CASE job.dry /\ Ended("dry_run", "allowed")
      <3>1. /\ SameRequest /\ job'.name = job.name /\ job'.outcome = "dry_run"
            /\ job'.event = "allowed"
            /\ job'.at = IF job'.event = "none" THEN "end" ELSE "record"
        BY <1>0, <2>3, EndedJob
      <3>2. job.kind \in Kind
        BY <1>0
      <3>3. job'.event = Due'
        BY <2>1, <2>3, <3>1, <3>2 DEF SameRequest, ghosts, Staged, CloudPassed
      <3>4. events' = <<>> /\ ~job'.unlogged
        BY <2>1, <3>1 DEF SameRequest
      <3> QED
        BY <3>1, <3>3, <3>4
    <2> QED
      BY <1>0, <1>4, <2>1, <2>2, <2>3, AdmittedJob DEF SameRequest, ghosts, Staged, CloudPassed
  <1>5. CASE RequireExecutionCapability
    <2>1. job.at = "require" /\ UNCHANGED <<config, grants, events, ghosts>>
      BY <1>5 DEF RequireExecutionCapability
    <2>2. CASE CallFails
      BY <1>0, <2>1, <2>2, FailedJob DEF SameRequest, ghosts, Staged, CloudPassed
    <2>3. CASE job.dry /\ Ended("dry_run", IF job.kind = "code" THEN "dry_run" ELSE "none")
      <3>1. /\ SameRequest /\ job'.name = job.name /\ job'.outcome = "dry_run"
            /\ job'.event = IF job.kind = "code" THEN "dry_run" ELSE "none"
            /\ job'.at = IF job'.event = "none" THEN "end" ELSE "record"
        BY <1>0, <2>3, EndedJob
      <3>2. job.kind \in Kind
        BY <1>0
      <3>3. job'.event = Due'
        BY <2>1, <2>3, <3>1, <3>2 DEF SameRequest, ghosts, Staged, CloudPassed
      <3>4. events' = <<>> /\ ~job'.unlogged
        BY <2>1, <3>1 DEF SameRequest
      <3> QED
        BY <3>1, <3>3, <3>4
    <2> QED
      BY <1>0, <1>5, <2>1, <2>2, <2>3, RequiredJob DEF SameRequest, ghosts, Staged, CloudPassed
  <1>6. CASE RuntimeAvailable
    BY <1>0, <1>6 DEF RuntimeAvailable, ghosts
  <1>7. CASE SelectRuntime
    <2>1. job.at = "probe" /\ UNCHANGED <<config, grants, events, ghosts>>
      BY <1>7 DEF SelectRuntime
    <2>2. CASE CallFails
      BY <1>0, <2>1, <2>2, FailedJob DEF SameRequest, ghosts, Staged, CloudPassed
    <2> QED
      BY <1>0, <1>7, <2>1, <2>2, ProbedJob DEF SameRequest, ghosts, Staged, CloudPassed
  <1>8. CASE Chat
    <2>1. job.at = "ask" /\ UNCHANGED <<config, grants, events, seen>>
      BY <1>8 DEF Chat
    <2>2. CASE CallFails /\ UNCHANGED answered
      BY <1>0, <2>1, <2>2, FailedJob DEF SameRequest, ghosts, Staged, CloudPassed
    <2>3. CASE Answer /\ answered' = TRUE
      <3>1. /\ SameRequest /\ job'.name = job.name /\ job'.outcome = "answered"
            /\ job'.event = IF job.kind = "chat" THEN "none" ELSE "allowed"
            /\ job'.at = IF job'.event = "none" THEN "end" ELSE "record"
        BY <1>0, <2>3, EndedJob DEF Answer
      <3>2. job.kind \in Kind
        BY <1>0
      <3>3. job'.event = Due'
        BY <2>1, <2>3, <3>1, <3>2 DEF SameRequest, ghosts, Staged, CloudPassed
      <3>4. events' = <<>> /\ ~job'.unlogged
        BY <2>1, <3>1 DEF SameRequest
      <3> QED
        BY <3>1, <3>3, <3>4
    <2> QED
      BY <1>8, <2>2, <2>3 DEF Chat
  <1>9. CASE Record
    <2>1. job.at = "record" /\ UNCHANGED <<config, grants, ghosts>>
      BY <1>9 DEF Record
    <2> QED
      BY <1>0, <1>9, <2>1, RecordedJob DEF ghosts
  <1>10. CASE ServerChanges \/ GrantsChange
    BY <1>0, <1>10 DEF ServerChanges, GrantsChange
  <1>11. CASE Over
    BY <1>11 DEF Over, NoJob
  <1>12. CASE UNCHANGED vars
    BY <1>12 DEF vars, ghosts
  <1> QED
    BY <1>1, <1>2, <1>3, <1>4, <1>5, <1>6, <1>7, <1>8, <1>9, <1>10, <1>11, <1>12
       DEF Next, Runs

\* The invariant of a prompt holds in every reachable state.
THEOREM PromptInvariant == Spec => []PromptInv
  <1>1. Init => PromptInv
    <2> SUFFICES ASSUME Init PROVE PromptInv
      OBVIOUS
    <2>1. listing \in Seq(Model)
      <3>1. Cardinality(Model) \in Nat
        BY FS_CardinalityType, ExecutionAssumption
      <3> QED
        BY <3>1 DEF Init, Listings
    <2>2. NoJob \in Job
      BY EmptySeq DEF NoJob, Job, Kind, At, Outcome
    <2>3. TypeOK
      BY <2>1, <2>2, EmptySeq DEF Init, TypeOK, Grant
    <2> QED
      BY <2>3 DEF Init, PromptInv, Staged, Admitted, Logged, Selected, PolicyPassed,
                  CloudPassed, NoJob, Due
  <1>2. PromptInv /\ [Next]_vars => PromptInv'
    BY PromptTypeStep, StagedStep, AdmittedStep, LoggedStep DEF PromptInv
  <1> QED
    BY <1>1, <1>2, PTL DEF Spec

\* However the alias of a route was found, no backend gets its prompt before
\* the policy, the machine and the rule for remote rows have let it pass, with
\* grants that come and go between the checks.
THEOREM RouteOnlyAdmitted == Spec => []OnlyAdmitted
  <1>1. PromptInv => OnlyAdmitted
    BY DEF PromptInv, Admitted, OnlyAdmitted, Selected, PolicyPassed, CloudPassed
  <1> QED
    BY <1>1, PromptInvariant, PTL

\* The audit log says of a finished command what happened at the backend, if
\* it could be written, and nothing before it happened.
THEOREM AuditIsTrue == Spec => []AuditTruth
  <1>1. PromptInv => AuditTruth
    <2> SUFFICES ASSUME PromptInv PROVE AuditTruth
      OBVIOUS
    <2>1. Len(events) <= 1
      BY DEF PromptInv, Logged
    <2>2. events = <<"allowed">> => answered \/ job.dry
      BY DEF PromptInv, Logged, Due, Staged, TypeOK, Job, Kind
    <2> QED
      BY <2>1, <2>2 DEF PromptInv, Logged, Due, AuditTruth, TypeOK, Job, Kind
  <1> QED
    BY <1>1, PromptInvariant, PTL

-----------------------------------------------------------------------------
(* What one provider is asked.                                             *)

ModelsFields == {"kind", "at", "online", "listing", "search", "limit", "ids", "page", "source"}
TestFields == {"kind", "at", "ref", "ok"}
DoctorFields == {"kind", "at", "listing", "todo", "probes", "verdicts"}
ChatFields == {"kind", "at", "alias", "stream", "says", "got", "answered"}

\* Where each kind of command is, with the fields it has.
QueryShape ==
    \/ query = NoQuery
    \/ /\ query.kind = "models" /\ DOMAIN query = ModelsFields
       /\ query.at \in {"ready", "ask", "page", "end"}
    \/ /\ query.kind = "test" /\ DOMAIN query = TestFields
       /\ query.at \in {"test", "failed", "end"}
    \/ /\ query.kind = "doctor" /\ DOMAIN query = DoctorFields
       /\ query.at \in {"examine", "probe", "failed", "end"}
    \/ /\ query.kind = "chat" /\ DOMAIN query = ChatFields
       /\ query.at \in {"send", "stream", "failed", "end"}

\* A text is an answer once it is whole, and no piece comes after.  An online
\* query of a managed service is over when it falls back.
WholeSoFar ==
    /\ query.kind = "chat" /\ query.answered =>
         query.at = "end" /\ query.got = query.says
    /\ /\ query.kind = "models" /\ query.at = "end" /\ query.online
       /\ query.source = "profile_catalog"
       => ~setting.managed

QueryInv == QueryShape /\ WholeSoFar /\ VerdictsAreOwn

ConnectionsSpec == ConnectionsInit /\ [][ConnectionsNext]_connectionVars

\* A step of a command changes the named fields of the query and no other.
Edits(fields) ==
    /\ query # NoQuery /\ UNCHANGED setting
    /\ DOMAIN query' = DOMAIN query
    /\ \A f \in DOMAIN query : f \notin fields => query'[f] = query[f]

\* A query that goes to its next stage changes nothing else.
LEMMA GoesEdits ==
    ASSUME QueryShape, NEW stage, query.at # "idle", Goes(stage)
    PROVE  Edits({"at"}) /\ query'.at = stage
  <1>1. query # NoQuery /\ "at" \in DOMAIN query
    BY DEF QueryShape, NoQuery, ModelsFields, TestFields, DoctorFields, ChatFields
  <1>2. query' = [query EXCEPT !.at = stage] /\ UNCHANGED setting
    BY DEF Goes, Proceeds, conf
  <1>3. query'.at = stage /\ DOMAIN query' = DOMAIN query
    BY <1>1, <1>2
  <1>4. \A f \in DOMAIN query : f \notin {"at"} => query'[f] = query[f]
    BY <1>1, <1>2
  <1> QED
    BY <1>1, <1>2, <1>3, <1>4 DEF Edits

\* A listing that ends changes its answer only.
LEMMA EndsEdits ==
    ASSUME query # NoQuery, DOMAIN query = ModelsFields, NEW source, NEW ids, Ends(source, ids)
    PROVE  /\ Edits({"at", "source", "ids", "page"})
           /\ query'.at = "end" /\ query'.source = source
  <1>1. /\ query' = [query EXCEPT !.at = "end", !.source = source, !.ids = ids]
        /\ UNCHANGED setting
    BY DEF Ends, Proceeds, conf
  <1>2. DOMAIN query' = DOMAIN query /\ query'.at = "end" /\ query'.source = source
    BY <1>1 DEF ModelsFields
  <1>3. \A f \in DOMAIN query : f \notin {"at", "source", "ids", "page"} => query'[f] = query[f]
    BY <1>1
  <1> QED
    BY <1>1, <1>2, <1>3 DEF Edits

\* The commands that list models.
LEMMA ModelsStep ==
    ASSUME QueryShape, Ready \/ OnlineModels \/ CivitaiModels
    PROVE  /\ query.kind = "models" /\ query.at # "end"
           /\ Edits({"at", "source", "ids", "page"})
           /\ query'.at \in {"ask", "page", "end"}
           /\ query'.at = "end" /\ query.online /\ setting.managed =>
                query'.source # "profile_catalog"
  <1>1. /\ query.kind = "models" /\ query.at \in {"ready", "ask", "page"}
        /\ query # NoQuery /\ DOMAIN query = ModelsFields
    <2>1. query.at \in {"ready", "ask", "page"}
      BY DEF Ready, OnlineModels, CivitaiModels
    <2> QED
      BY <2>1 DEF QueryShape, NoQuery
  <1>2. ASSUME NEW stage \in {"ask", "page"}, Goes(stage)
        PROVE  Edits({"at", "source", "ids", "page"}) /\ query'.at = stage
    BY <1>1, <1>2, GoesEdits DEF Edits
  <1>3. ASSUME NEW source, NEW ids, Ends(source, ids)
        PROVE  /\ Edits({"at", "source", "ids", "page"})
               /\ query'.at = "end" /\ query'.source = source
    BY <1>1, <1>3, EndsEdits
  <1>4. ASSUME NEW ids, Proceeds([query EXCEPT !.ids = ids, !.page = @ + 1])
        PROVE  Edits({"at", "source", "ids", "page"}) /\ query'.at = query.at
    <2>1. query' = [query EXCEPT !.ids = ids, !.page = @ + 1] /\ UNCHANGED setting
      BY <1>4 DEF Proceeds, conf
    <2>2. DOMAIN query' = DOMAIN query /\ query'.at = query.at
      BY <1>1, <2>1 DEF ModelsFields
    <2>3. \A f \in DOMAIN query : f \notin {"at", "source", "ids", "page"} => query'[f] = query[f]
      BY <1>1, <2>1
    <2> QED
      BY <1>1, <2>1, <2>2, <2>3 DEF Edits
  <1> DEFINE Goal == /\ Edits({"at", "source", "ids", "page"})
                     /\ query'.at \in {"ask", "page", "end"}
                     /\ query'.at = "end" /\ query.online /\ setting.managed =>
                          query'.source # "profile_catalog"
  <1>5. LocalModels(TRUE) => Goal
    BY <1>3 DEF LocalModels
  <1>6. CASE Ready
    <2>1. ASSUME NEW source \in {"disabled", "configuration_error"}, Ends(source, <<>>)
          PROVE  Goal
      BY <1>3, <2>1
    <2>2. ~query.online /\ LocalModels(FALSE) => Goal
      BY <1>3 DEF LocalModels
    <2>3. Goes("ask") => Goal
      BY <1>2
    <2> HIDE DEF Goal
    <2>4. Goal
      BY <1>6, <2>1, <2>2, <2>3 DEF Ready
    <2> QED
      BY <1>1, <2>4 DEF Goal
  <1>7. CASE OnlineModels
    <2>1. ASSUME NEW ids, Ends("live", ids) PROVE Goal
      BY <1>3, <2>1
    <2>2. Goes("page") => Goal
      BY <1>2
    <2> HIDE DEF Goal
    <2>3. Goal
      BY <1>5, <1>7, <2>1, <2>2 DEF OnlineModels
    <2> QED
      BY <1>1, <2>3 DEF Goal
  <1>8. CASE CivitaiModels
    <2>1. query.at = "page"
      BY <1>8 DEF CivitaiModels
    <2>2. ASSUME NEW ids, Ends("live", ids) PROVE Goal
      BY <1>3, <2>2
    <2>3. ASSUME NEW ids, Proceeds([query EXCEPT !.ids = ids, !.page = @ + 1]) PROVE Goal
      BY <1>4, <2>1, <2>3
    <2>4. \/ LocalModels(TRUE)
          \/ \E ids : \/ Ends("live", ids)
                      \/ Proceeds([query EXCEPT !.ids = ids, !.page = @ + 1])
      <3> HIDE DEF Goal
      <3> QED BY <1>8 DEF CivitaiModels
    <2> HIDE DEF Goal
    <2>5. Goal
      BY <1>5, <2>2, <2>3, <2>4
    <2> QED
      BY <1>1, <2>5 DEF Goal
  <1> QED
    BY <1>6, <1>7, <1>8

\* The command that tests a connection.
LEMMA TestStep ==
    ASSUME QueryShape, TestConnection
    PROVE  query.kind = "test" /\ Edits({"at", "ok"}) /\ query'.at \in {"failed", "end"}
  <1>1. /\ query.kind = "test" /\ query.at = "test"
        /\ query # NoQuery /\ DOMAIN query = TestFields
    BY DEF TestConnection, QueryShape, NoQuery
  <1>2. ASSUME NEW stage \in {"failed", "end"}, Goes(stage)
        PROVE  Edits({"at", "ok"}) /\ query'.at = stage
    BY <1>1, <1>2, GoesEdits DEF Edits
  <1>3. ASSUME Proceeds([query EXCEPT !.at = "end", !.ok = TRUE])
        PROVE  Edits({"at", "ok"}) /\ query'.at = "end"
    <2>1. query' = [query EXCEPT !.at = "end", !.ok = TRUE] /\ UNCHANGED setting
      BY <1>3 DEF Proceeds, conf
    <2>2. DOMAIN query' = DOMAIN query /\ query'.at = "end"
      BY <1>1, <2>1 DEF TestFields
    <2>3. \A f \in DOMAIN query : f \notin {"at", "ok"} => query'[f] = query[f]
      BY <1>1, <2>1
    <2> QED
      BY <1>1, <2>1, <2>2, <2>3 DEF Edits
  <1> QED
    BY <1>1, <1>2, <1>3 DEF TestConnection

\* models doctor: a verdict is added for the model at the head, with the probe
\* it rests on, or without one.
LEMMA DoctorStep ==
    ASSUME QueryShape, Examine \/ Probe \/ DoctorDone
    PROVE  /\ query.kind = "doctor" /\ query'.at \in {"examine", "probe", "failed", "end"}
           /\ Edits({"at", "todo", "probes", "verdicts"})
           /\ query.probes \subseteq query'.probes
           /\ \A v \in query'.verdicts \ query.verdicts :
                 v.key # Unset =>
                   \E p \in query'.probes : p.key = v.key /\ v.usable = Lists(p, v.alias)
  <1>1. /\ query.kind = "doctor" /\ query.at \in {"examine", "probe"}
        /\ query # NoQuery /\ DOMAIN query = DoctorFields
    <2>1. query.at \in {"examine", "probe"}
      BY DEF Examine, Probe, DoctorDone
    <2> QED
      BY <2>1 DEF QueryShape, NoQuery
  <1> DEFINE Goal == /\ query'.at \in {"examine", "probe", "failed", "end"}
                     /\ Edits({"at", "todo", "probes", "verdicts"})
                     /\ query.probes \subseteq query'.probes
                     /\ \A v \in query'.verdicts \ query.verdicts :
                          v.key # Unset =>
                            \E p \in query'.probes :
                               p.key = v.key /\ v.usable = Lists(p, v.alias)
  <1>2. ASSUME NEW stage \in {"probe", "failed", "end"}, Goes(stage)
        PROVE  Goal
    <2>1. Edits({"at"}) /\ query'.at = stage
      BY <1>1, <1>2, GoesEdits
    <2>2. query'.probes = query.probes /\ query'.verdicts = query.verdicts
      BY <1>1, <2>1 DEF Edits, DoctorFields
    <2>3. Edits({"at", "todo", "probes", "verdicts"})
      BY <2>1 DEF Edits
    <2> QED
      BY <2>1, <2>2, <2>3
  <1>3. ASSUME NEW usable, Verdict(usable, Unset)
        PROVE  Goal
    <2> DEFINE v == [alias |-> Head(query.todo), usable |-> usable, key |-> Unset]
    <2>1. /\ query' = [query EXCEPT !.at = "examine", !.todo = Tail(@), !.verdicts = @ \cup {v}]
          /\ UNCHANGED setting
      BY <1>3 DEF Verdict, Proceeds, conf
    <2>2. v.key = Unset
      OBVIOUS
    <2> HIDE DEF v
    <2>3. /\ DOMAIN query' = DOMAIN query /\ query'.at = "examine"
          /\ query'.probes = query.probes /\ query'.verdicts = query.verdicts \cup {v}
      BY <1>1, <2>1 DEF DoctorFields
    <2>4. \A f \in DOMAIN query : f \notin {"at", "todo", "probes", "verdicts"} =>
             query'[f] = query[f]
      BY <1>1, <2>1
    <2> QED
      BY <1>1, <2>1, <2>2, <2>3, <2>4 DEF Edits
  <1>4. ASSUME NEW key, NEW p, p.key = key,
               Proceeds([query EXCEPT !.at = "examine", !.todo = Tail(@),
                    !.probes = @ \cup {p},
                    !.verdicts = @ \cup {[alias |-> Head(query.todo), key |-> key,
                                          usable |-> Lists(p, Head(query.todo))]}])
        PROVE  Goal
    <2> DEFINE v == [alias |-> Head(query.todo), key |-> key,
                     usable |-> Lists(p, Head(query.todo))]
    <2>1. /\ query' = [query EXCEPT !.at = "examine", !.todo = Tail(@),
                         !.probes = @ \cup {p}, !.verdicts = @ \cup {v}]
          /\ UNCHANGED setting
      BY <1>4 DEF Proceeds, conf
    <2>2. p.key = v.key /\ v.usable = Lists(p, v.alias)
      BY <1>4
    <2> HIDE DEF v
    <2>3. /\ DOMAIN query' = DOMAIN query /\ query'.at = "examine"
          /\ query'.probes = query.probes \cup {p} /\ query'.verdicts = query.verdicts \cup {v}
      BY <1>1, <2>1 DEF DoctorFields
    <2>4. \A f \in DOMAIN query : f \notin {"at", "todo", "probes", "verdicts"} =>
             query'[f] = query[f]
      BY <1>1, <2>1
    <2> QED
      BY <1>1, <2>1, <2>2, <2>3, <2>4 DEF Edits
  <1> HIDE DEF Goal
  <1>5. Examine => Goal
    BY <1>2, <1>3 DEF Examine
  <1>6. Probe => Goal
    <2> DEFINE judge(p) ==
          Proceeds([query EXCEPT !.at = "examine", !.todo = Tail(@),
                    !.probes = @ \cup {p},
                    !.verdicts = @ \cup {[alias |-> Head(query.todo), key |-> ApiKey(this),
                                          usable |-> Lists(p, Head(query.todo))]}])
    <2>1. ASSUME NEW p, p.key = ApiKey(this), judge(p) PROVE Goal
      BY <1>4, <2>1
    <2> DEFINE down == [key |-> ApiKey(this), up |-> FALSE, ids |-> {}]
               found == [key |-> ApiKey(this), up |-> TRUE, ids |-> ToSet(Ids(query.listing))]
    <2>2. down.key = ApiKey(this) /\ found.key = ApiKey(this)
      OBVIOUS
    <2>3. Probe => \/ Goes("failed")
                   \/ \E p \in Cached(ApiKey(this)) : judge(p)
                   \/ judge(down)
                   \/ judge(found)
      BY DEF Probe
    <2> HIDE DEF judge, down, found
    <2>4. \A p \in Cached(ApiKey(this)) : p.key = ApiKey(this)
      BY DEF Cached
    <2> QED
      BY <1>2, <2>1, <2>2, <2>3, <2>4
  <1>7. DoctorDone => Goal
    BY <1>2 DEF DoctorDone
  <1>8. Goal
    BY <1>5, <1>6, <1>7
  <1> QED
    BY <1>1, <1>8 DEF Goal

\* A prompt: pieces are added until the answer is whole.
LEMMA ChatStep ==
    ASSUME QueryShape, Send \/ ReadContent \/ ReadFinal \/ StreamEnds
    PROVE  /\ query.kind = "chat" /\ query.at # "end"
           /\ query'.at \in {"stream", "failed", "end"}
           /\ Edits({"at", "got", "answered"})
           /\ \/ query'.answered = query.answered
              \/ query'.at = "end" /\ query'.got = query.says
  <1>1. /\ query.kind = "chat" /\ query.at \in {"send", "stream"}
        /\ query # NoQuery /\ DOMAIN query = ChatFields
    BY DEF Send, ReadContent, ReadFinal, StreamEnds, QueryShape, NoQuery
  <1> DEFINE Goal == /\ query'.at \in {"stream", "failed", "end"}
                     /\ Edits({"at", "got", "answered"})
                     /\ \/ query'.answered = query.answered
                        \/ query'.at = "end" /\ query'.got = query.says
  <1>2. ASSUME NEW stage \in {"stream", "failed"}, Goes(stage)
        PROVE  Goal
    <2>1. Edits({"at"}) /\ query'.at = stage
      BY <1>1, <1>2, GoesEdits
    <2>2. query'.answered = query.answered
      BY <1>1, <2>1 DEF Edits, ChatFields
    <2> QED
      BY <2>1, <2>2 DEF Edits
  <1>3. ASSUME WholeAnswer
        PROVE  Goal
    <2>1. /\ query' = [query EXCEPT !.at = "end", !.answered = TRUE, !.got = query.says]
          /\ UNCHANGED setting
      BY <1>3 DEF WholeAnswer, Proceeds, conf
    <2>2. DOMAIN query' = DOMAIN query /\ query'.at = "end" /\ query'.got = query.says
      BY <1>1, <2>1 DEF ChatFields
    <2>3. \A f \in DOMAIN query : f \notin {"at", "got", "answered"} => query'[f] = query[f]
      BY <1>1, <2>1
    <2> QED
      BY <1>1, <2>1, <2>2, <2>3 DEF Edits
  <1>4. ASSUME ReadContent
        PROVE  Goal
    <2>1. query' = [query EXCEPT !.got = @ + 1] /\ UNCHANGED setting /\ query.at = "stream"
      BY <1>4 DEF ReadContent, Proceeds, conf
    <2>2. /\ DOMAIN query' = DOMAIN query /\ query'.at = "stream"
          /\ query'.answered = query.answered
      BY <1>1, <2>1 DEF ChatFields
    <2>3. \A f \in DOMAIN query : f \notin {"at", "got", "answered"} => query'[f] = query[f]
      BY <1>1, <2>1
    <2> QED
      BY <1>1, <2>1, <2>2, <2>3 DEF Edits
  <1>5. ASSUME ReadFinal
        PROVE  Goal
    <2>1. /\ query' = [query EXCEPT !.at = "end", !.answered = TRUE]
          /\ query.got = query.says /\ UNCHANGED setting
      BY <1>5 DEF ReadFinal, Answered, Proceeds, conf
    <2>2. DOMAIN query' = DOMAIN query /\ query'.at = "end" /\ query'.got = query.says
      BY <1>1, <2>1 DEF ChatFields
    <2>3. \A f \in DOMAIN query : f \notin {"at", "got", "answered"} => query'[f] = query[f]
      BY <1>1, <2>1
    <2> QED
      BY <1>1, <2>1, <2>2, <2>3 DEF Edits
  <1> HIDE DEF Goal
  <1>6. Send => Goal
    BY <1>2, <1>3 DEF Send
  <1>7. StreamEnds => Goal
    BY <1>2 DEF StreamEnds
  <1> QED
    BY <1>1, <1>4, <1>5, <1>6, <1>7 DEF Goal

\* Every step of a command keeps what has been established of its query.
LEMMA QueryStep ==
    ASSUME QueryInv, [ConnectionsNext]_connectionVars PROVE QueryInv'
  <1> USE DEF QueryInv
  <1>1. CASE Start
    <2>1. query = NoQuery /\ setting' = setting
      BY <1>1 DEF Start, conf
    <2>2. CASE /\ query'.kind = "models" /\ query'.at = "ready"
               /\ DOMAIN query' = ModelsFields
      BY <2>2 DEF QueryShape, WholeSoFar, VerdictsAreOwn
    <2>3. CASE query'.kind = "test" /\ query'.at = "test" /\ DOMAIN query' = TestFields
      BY <2>3 DEF QueryShape, WholeSoFar, VerdictsAreOwn
    <2>4. CASE /\ query'.kind = "doctor" /\ query'.at = "examine" /\ query'.verdicts = {}
               /\ DOMAIN query' = DoctorFields
      BY <2>4 DEF QueryShape, WholeSoFar, VerdictsAreOwn
    <2>5. CASE /\ query'.kind = "chat" /\ query'.at = "send" /\ query'.answered = FALSE
               /\ DOMAIN query' = ChatFields
      BY <2>5 DEF QueryShape, WholeSoFar, VerdictsAreOwn
    <2>6. ASSUME NEW online, NEW search, NEW limit, NEW shown,
                 query' = [kind |-> "models", at |-> "ready", online |-> online,
                           listing |-> shown, search |-> search, limit |-> limit,
                           ids |-> <<>>, page |-> 1, source |-> "none"]
          PROVE  QueryInv'
      BY <2>2, <2>6 DEF ModelsFields
    <2>7. ASSUME NEW ref,
                 query' = [kind |-> "test", at |-> "test", ref |-> ref, ok |-> FALSE]
          PROVE  QueryInv'
      BY <2>3, <2>7 DEF TestFields
    <2>8. ASSUME NEW shown,
                 query' = [kind |-> "doctor", at |-> "examine", listing |-> shown,
                           todo |-> Alias, probes |-> {}, verdicts |-> {}]
          PROVE  QueryInv'
      BY <2>4, <2>8 DEF DoctorFields
    <2>9. ASSUME NEW a, NEW stream, NEW says,
                 query' = [kind |-> "chat", at |-> "send", alias |-> a, stream |-> stream,
                           says |-> says, got |-> 0, answered |-> FALSE]
          PROVE  QueryInv'
      BY <2>5, <2>9 DEF ChatFields
    <2> HIDE DEF QueryInv
    <2> QED
      BY <1>1, <2>6, <2>7, <2>8, <2>9 DEF Start
  <1>2. CASE Ready \/ OnlineModels \/ CivitaiModels
    <2>1. /\ query.kind = "models" /\ query.at # "end"
          /\ Edits({"at", "source", "ids", "page"})
          /\ query'.at \in {"ask", "page", "end"}
          /\ query'.at = "end" /\ query.online /\ setting.managed =>
               query'.source # "profile_catalog"
      BY <1>2, ModelsStep
    <2>2. DOMAIN query = ModelsFields
      BY <2>1 DEF QueryShape, Edits
    <2>3. /\ query'.kind = "models" /\ DOMAIN query' = ModelsFields
          /\ query'.online = query.online /\ setting' = setting
      BY <2>1, <2>2 DEF Edits, ModelsFields
    <2> QED
      BY <2>1, <2>3 DEF QueryShape, WholeSoFar, VerdictsAreOwn
  <1>3. CASE TestConnection
    <2>1. query.kind = "test" /\ Edits({"at", "ok"}) /\ query'.at \in {"failed", "end"}
      BY <1>3, TestStep
    <2>2. DOMAIN query = TestFields
      BY <2>1 DEF QueryShape, Edits
    <2>3. query'.kind = "test" /\ DOMAIN query' = TestFields
      BY <2>1, <2>2 DEF Edits, TestFields
    <2> QED
      BY <2>1, <2>3 DEF QueryShape, WholeSoFar, VerdictsAreOwn
  <1>4. CASE Examine \/ Probe \/ DoctorDone
    <2>1. /\ query.kind = "doctor" /\ query'.at \in {"examine", "probe", "failed", "end"}
          /\ Edits({"at", "todo", "probes", "verdicts"})
          /\ query.probes \subseteq query'.probes
          /\ \A v \in query'.verdicts \ query.verdicts :
                v.key # Unset =>
                  \E p \in query'.probes : p.key = v.key /\ v.usable = Lists(p, v.alias)
      BY <1>4, DoctorStep
    <2>2. DOMAIN query = DoctorFields
      BY <2>1 DEF QueryShape, Edits
    <2>3. query'.kind = "doctor" /\ DOMAIN query' = DoctorFields /\ setting' = setting
      BY <2>1, <2>2 DEF Edits, DoctorFields
    <2>4. \A v \in query'.verdicts :
             v.key # Unset =>
               \E p \in query'.probes : p.key = v.key /\ v.usable = Lists(p, v.alias)
      BY <2>1 DEF VerdictsAreOwn
    <2>5. VerdictsAreOwn'
      BY <2>3, <2>4 DEF VerdictsAreOwn, Lists
    <2> QED
      BY <2>1, <2>3, <2>5 DEF QueryShape, WholeSoFar
  <1>5. CASE Send \/ ReadContent \/ ReadFinal \/ StreamEnds
    <2>1. /\ query.kind = "chat" /\ query.at # "end"
          /\ query'.at \in {"stream", "failed", "end"}
          /\ Edits({"at", "got", "answered"})
          /\ \/ query'.answered = query.answered
             \/ query'.at = "end" /\ query'.got = query.says
      BY <1>5, ChatStep
    <2>2. DOMAIN query = ChatFields
      BY <2>1 DEF QueryShape, Edits
    <2>3. /\ query'.kind = "chat" /\ DOMAIN query' = ChatFields
          /\ query'.says = query.says
      BY <2>1, <2>2 DEF Edits, ChatFields
    <2>4. ~query.answered
      BY <2>1 DEF WholeSoFar
    <2> QED
      BY <2>1, <2>3, <2>4 DEF QueryShape, WholeSoFar, VerdictsAreOwn
  <1>6. CASE StoreChanges \/ ServiceChanges \/ UNCHANGED connectionVars
    <2>1. UNCHANGED <<setting, query>>
      BY <1>6 DEF StoreChanges, ServiceChanges, connectionVars, conf
    <2> QED
      BY <2>1 DEF QueryShape, WholeSoFar, VerdictsAreOwn, Lists
  <1>7. CASE Leave
    BY <1>7 DEF Leave, QueryShape, NoQuery, WholeSoFar, VerdictsAreOwn
  <1> QED
    BY <1>1, <1>2, <1>3, <1>4, <1>5, <1>6, <1>7 DEF ConnectionsNext

\* The invariant of what one provider is asked holds in every reachable state.
THEOREM QueryInvariant == ConnectionsSpec => []QueryInv
  <1>1. ConnectionsInit => QueryInv
    BY DEF ConnectionsInit, QueryInv, QueryShape, WholeSoFar, VerdictsAreOwn, NoQuery
  <1> QED
    BY <1>1, QueryStep, PTL DEF ConnectionsSpec

\* models doctor: every verdict rests on a probe with the key of the model's own
\* requests, whatever happens to the credentials file and the service meanwhile.
THEOREM DoctorVerdictsOwn == ConnectionsSpec => []VerdictsAreOwn
  <1>1. QueryInv => VerdictsAreOwn
    BY DEF QueryInv
  <1> QED
    BY <1>1, QueryInvariant, PTL

\* A managed service is never answered for from the profile, and a text that is
\* reported as an answer has every piece.
THEOREM AnswersWhole == ConnectionsSpec => []AnswerIsWhole
  <1>1. QueryInv => AnswerIsWhole
    BY DEF QueryInv, WholeSoFar, AnswerIsWhole
  <1> QED
    BY <1>1, QueryInvariant, PTL

-----------------------------------------------------------------------------
(* The items a fold keeps of a sequence, and lists of models made of them.  *)

\* A set of natural numbers that is not empty has a least member.
LEMMA LeastNumber ==
    ASSUME NEW S \in SUBSET Nat, S # {}
    PROVE  \E k \in S : \A l \in S : k <= l
  <1> DEFINE R == OpToRel(<, Nat)
  <1>1. \A k, l \in Nat : <<l, k>> \in R <=> l < k
    BY DEF OpToRel
  <1>2. IsWellFoundedOn(R, Nat)
    BY NatLessThanWellFounded
  <1> HIDE DEF R
  <1>3. PICK k \in S : \A l \in S : <<l, k>> \notin R
    BY <1>2, WFMin
  <1>4. ASSUME NEW l \in S
        PROVE  k <= l
    <2>1. k \in Nat /\ l \in Nat /\ ~(l < k)
      BY <1>1, <1>3
    <2> QED
      BY <2>1
  <1> QED
    BY <1>4

\* A finite set of natural numbers that is not empty has a greatest member.
LEMMA GreatestNumber ==
    ASSUME NEW S \in SUBSET Nat, IsFiniteSet(S), S # {}
    PROVE  Max(S) \in S
  <1> DEFINE Top(T) == \E x \in T : \A y \in T : x >= y
             Without == {n \in Nat : \E T \in SUBSET S :
                             T # {} /\ Cardinality(T) = n /\ ~Top(T)}
  <1> SUFFICES ASSUME ~Top(S)
               PROVE  FALSE
    BY DEF Max
  <1>1. Without # {}
    <2>1. Cardinality(S) \in Nat /\ S \in SUBSET S
      BY FS_CardinalityType
    <2> QED
      BY <2>1
  <1>2. PICK k \in Without : \A l \in Without : k <= l
    BY <1>1, LeastNumber
  <1>3. PICK T \in SUBSET S : T # {} /\ Cardinality(T) = k /\ ~Top(T)
    BY <1>2
  <1>4. PICK t \in T : TRUE
    BY <1>3
  <1> DEFINE U == T \ {t}
  <1>5. /\ IsFiniteSet(T) /\ IsFiniteSet(U)
        /\ Cardinality(U) = k - 1 /\ Cardinality(U) \in Nat
    BY <1>3, <1>4, FS_Subset, FS_RemoveElement, FS_CardinalityType
  <1>6. \A y \in T : y = t \/ y \in U
    OBVIOUS
  <1>7. t \in Nat /\ \A y \in T : y \in Nat
    BY <1>3, <1>4
  <1>8. U # {}
    <2> SUFFICES ASSUME U = {}
                 PROVE  FALSE
      OBVIOUS
    <2>1. \A y \in T : t >= y
      BY <1>6, <1>7
    <2> QED
      BY <1>3, <1>4, <2>1
  <1>9. Top(U)
    <2> SUFFICES ASSUME ~Top(U)
                 PROVE  FALSE
      OBVIOUS
    <2> HIDE DEF Top
    <2>1. k - 1 \in Without
      BY <1>3, <1>5, <1>8
    <2> QED
      BY <1>2, <2>1
  <1>10. PICK x \in U : \A y \in U : x >= y
    BY <1>9
  <1>11. x \in Nat /\ x \in T
    BY <1>7, <1>10
  <1>12. CASE x >= t
    <2>1. \A y \in T : x >= y
      BY <1>6, <1>10, <1>12
    <2> QED
      BY <1>3, <1>11, <2>1
  <1>13. CASE ~(x >= t)
    <2>1. \A y \in T : t >= y
      BY <1>6, <1>7, <1>10, <1>11, <1>13
    <2> QED
      BY <1>3, <1>4, <2>1
  <1> QED
    BY <1>12, <1>13

\* What the fold of Kept makes of a set of places: of the last one, what it adds
\* to what is kept of the others.
Adds(s, places, kept, S) ==
    IF S = {} THEN <<>>
    ELSE IF Max(S) \in places THEN Append(kept[S \ {Max(S)}], s[Max(S)])
    ELSE kept[S \ {Max(S)}]

\* The function that the fold takes its result from.
KeptOf(kept, s, places, all) ==
    kept = [S \in SUBSET all |-> Adds(s, places, kept, S)]

\* The sets of at most k places.
Few(all, k) == {S \in SUBSET all : Cardinality(S) <= k}

\* The fold is defined on every set of places of a sequence.
LEMMA KeptExists ==
    ASSUME NEW s, NEW places, NEW all \in SUBSET Nat, IsFiniteSet(all)
    PROVE  \E kept : KeptOf(kept, s, places, all)
  <1> DEFINE IsKept(k, kept) == kept = [S \in Few(all, k) |-> Adds(s, places, kept, S)]
             Without == {k \in Nat : ~\E kept : IsKept(k, kept)}
  <1>1. \A S \in SUBSET all : IsFiniteSet(S) /\ Cardinality(S) \in Nat
    BY FS_Subset, FS_CardinalityType
  <1>2. 0 \notin Without
    <2>1. \A S \in Few(all, 0) : S = {}
      BY <1>1, FS_EmptySet DEF Few
    <2>2. IsKept(0, [S \in Few(all, 0) |-> <<>>])
      BY <2>1 DEF Adds
    <2> QED
      BY <2>2
  <1>3. ASSUME NEW k \in Nat, NEW kept, IsKept(k, kept)
        PROVE  k + 1 \notin Without
    <2> DEFINE more == [S \in Few(all, k + 1) |-> Adds(s, places, kept, S)]
    <2>1. ASSUME NEW S \in Few(all, k + 1), S # {}
          PROVE  S \ {Max(S)} \in Few(all, k)
      <3>1. S \in SUBSET all /\ S \in SUBSET Nat /\ Cardinality(S) <= k + 1 /\ IsFiniteSet(S)
        BY <1>1 DEF Few
      <3>2. Max(S) \in S
        BY <2>1, <3>1, GreatestNumber
      <3>3. Cardinality(S \ {Max(S)}) = Cardinality(S) - 1 /\ Cardinality(S) \in Nat
        BY <3>1, <3>2, FS_RemoveElement, FS_CardinalityType
      <3>4. S \ {Max(S)} \in SUBSET all
        BY <3>1
      <3> QED
        BY <3>1, <3>3, <3>4 DEF Few
    <2>2. \A S \in Few(all, k) : S \in Few(all, k + 1) /\ more[S] = kept[S]
      <3>1. \A S \in Few(all, k) : S \in Few(all, k + 1)
        BY <1>1 DEF Few
      <3>2. \A S \in Few(all, k) : kept[S] = Adds(s, places, kept, S)
        BY <1>3
      <3> QED
        BY <3>1, <3>2
    <2>3. ASSUME NEW S \in Few(all, k + 1)
          PROVE  more[S] = Adds(s, places, more, S)
      <3>1. CASE S = {}
        BY <3>1 DEF Adds
      <3>2. CASE S # {}
        <4>1. more[S] = Adds(s, places, kept, S)
          OBVIOUS
        <4> HIDE DEF more
        <4>2. more[S \ {Max(S)}] = kept[S \ {Max(S)}]
          BY <2>1, <2>2, <3>2
        <4> QED
          BY <4>1, <4>2 DEF Adds
      <3> QED
        BY <3>1, <3>2
    <2>4. IsKept(k + 1, more)
      BY <2>3
    <2> QED
      BY <2>4
  <1> HIDE DEF IsKept
  <1>4. Without = {}
    <2> SUFFICES ASSUME Without # {}
                 PROVE  FALSE
      OBVIOUS
    <2>1. PICK k \in Without : \A l \in Without : k <= l
      BY LeastNumber
    <2>2. k \in Nat /\ k # 0
      BY <2>1, <1>2
    <2>3. k - 1 \in Nat /\ k - 1 \notin Without
      BY <2>1, <2>2
    <2>4. PICK kept : IsKept(k - 1, kept)
      BY <2>3
    <2>5. (k - 1) + 1 \notin Without
      BY <2>3, <2>4, <1>3
    <2> QED
      BY <2>1, <2>2, <2>5
  <1>5. Cardinality(all) \in Nat
    BY FS_CardinalityType
  <1>6. PICK kept : IsKept(Cardinality(all), kept)
    BY <1>4, <1>5
  <1>7. Few(all, Cardinality(all)) = SUBSET all
    BY FS_Subset DEF Few
  <1> QED
    BY <1>6, <1>7 DEF IsKept, KeptOf

\* Kept is that fold.
LEMMA KeptIsFold ==
    ASSUME NEW s, NEW places
    PROVE  Kept(s, places) =
               (CHOOSE kept : kept = [S \in SUBSET DOMAIN [i \in DOMAIN s |-> i] |->
                   IF S = {} THEN <<>>
                   ELSE IF [i \in DOMAIN s |-> i][Max(S)] \in places
                        THEN Append(kept[S \ {Max(S)}], s[[i \in DOMAIN s |-> i][Max(S)]])
                        ELSE kept[S \ {Max(S)}]])[DOMAIN [i \in DOMAIN s |-> i]]
  BY DEF Kept, FoldLeftDomain, FoldLeft, MapThenFoldSet

\* A function on the first numbers is a sequence.
LEMMA FunctionIsSeq ==
    ASSUME NEW n \in Nat, NEW S, NEW f \in [1..n -> S]
    PROVE  f \in Seq(S) /\ Len(f) = n
  OBVIOUS

\* Every member of a set once.
Enumerates(order, S) ==
    /\ order \in Seq(S)
    /\ \A m, n \in 1..Len(order) : order[m] = order[n] => m = n
    /\ \A p \in S : \E n \in 1..Len(order) : order[n] = p

\* An enumeration grows by a new member.
LEMMA EnumerationGrows ==
    ASSUME NEW S, NEW order, Enumerates(order, S), NEW p, p \notin S
    PROVE  Enumerates(Append(order, p), S \cup {p})
  <1> DEFINE more == Append(order, p)
  <1>1. order \in Seq(S) /\ Len(order) \in Nat
    BY DEF Enumerates
  <1>2. /\ more \in Seq(S \cup {p}) /\ Len(more) = Len(order) + 1
        /\ more[Len(order) + 1] = p
        /\ \A n \in 1..Len(order) : more[n] = order[n] /\ more[n] \in S
    BY <1>1
  <1> HIDE DEF more
  <1>3. \A n \in 1..Len(more) : n \in 1..Len(order) \/ n = Len(order) + 1
    BY <1>1, <1>2
  <1>4. \A m, n \in 1..Len(more) : more[m] = more[n] => m = n
    BY <1>2, <1>3 DEF Enumerates
  <1>5. ASSUME NEW q \in S \cup {p}
        PROVE  \E n \in 1..Len(more) : more[n] = q
    <2>1. CASE q = p
      <3>1. Len(order) + 1 \in 1..Len(more)
        BY <1>1, <1>2
      <3> QED
        BY <1>2, <2>1, <3>1
    <2>2. CASE q \in S
      <3>1. PICK n \in 1..Len(order) : order[n] = q
        BY <2>2 DEF Enumerates
      <3>2. n \in 1..Len(more)
        BY <1>1, <1>2
      <3> QED
        BY <1>2, <3>1, <3>2
    <2> QED
      BY <2>1, <2>2
  <1>6. Enumerates(more, S \cup {p})
    BY <1>2, <1>4, <1>5 DEF Enumerates
  <1> QED
    BY <1>6 DEF more

\* Kept takes the items at the places, each once.
LEMMA KeptAtPlaces ==
    ASSUME NEW X, NEW s \in Seq(X), NEW places \in SUBSET DOMAIN s
    PROVE  \E order : /\ Enumerates(order, places)
                      /\ Kept(s, places) = [n \in 1..Len(order) |-> s[order[n]]]
  <1> DEFINE all == DOMAIN s
             index == [i \in all |-> i]
             AddTo(kept, S) ==
                 IF S = {} THEN <<>>
                 ELSE IF index[Max(S)] \in places
                      THEN Append(kept[S \ {Max(S)}], s[index[Max(S)]])
                      ELSE kept[S \ {Max(S)}]
             IsFold(kept) == kept = [S \in SUBSET DOMAIN index |-> AddTo(kept, S)]
             fold == CHOOSE kept : IsFold(kept)
  <1>1. all = 1..Len(s) /\ Len(s) \in Nat /\ all \in SUBSET Nat /\ DOMAIN index = all
    OBVIOUS
  <1>2. IsFiniteSet(all)
    BY <1>1, FS_Interval
  <1>3. \A S \in SUBSET all : S # {} => Max(S) \in S /\ index[Max(S)] = Max(S)
    <2> SUFFICES ASSUME NEW S \in SUBSET all, S # {}
                 PROVE  Max(S) \in S /\ index[Max(S)] = Max(S)
      OBVIOUS
    <2>1. IsFiniteSet(S) /\ S \in SUBSET Nat
      BY <1>1, <1>2, FS_Subset
    <2>2. Max(S) \in S
      BY <2>1, GreatestNumber
    <2> QED
      BY <2>2
  <1>4. \A kept : \A S \in SUBSET all : AddTo(kept, S) = Adds(s, places, kept, S)
    BY <1>3 DEF Adds
  <1>5. Kept(s, places) = fold[all]
    BY <1>1, KeptIsFold
  <1>6. IsFold(fold)
    <2>a. PICK kept : KeptOf(kept, s, places, all)
      BY <1>1, <1>2, KeptExists
    <2>1. kept = [S \in SUBSET all |-> Adds(s, places, kept, S)]
      BY <2>a DEF KeptOf
    <2>2. [S \in SUBSET all |-> Adds(s, places, kept, S)] = [S \in SUBSET DOMAIN index |-> AddTo(kept, S)]
      BY <1>1, <1>4
    <2>3. IsFold(kept)
      BY <2>1, <2>2
    <2> HIDE DEF IsFold
    <2> QED
      BY <2>3
  <1> HIDE DEF fold
  <1>7. \A S \in SUBSET all : fold[S] = Adds(s, places, fold, S)
    <2>1. \A S \in SUBSET all : fold[S] = AddTo(fold, S)
      BY <1>1, <1>6
    <2> HIDE DEF AddTo, IsFold
    <2> QED
      BY <1>4, <2>1
  <1> HIDE DEF index, AddTo, IsFold
  <1> DEFINE Takes(S) == \E order : /\ Enumerates(order, S \cap places)
                                    /\ fold[S] = [n \in 1..Len(order) |-> s[order[n]]]
             Bad == {k \in Nat : \E S \in SUBSET all : Cardinality(S) = k /\ ~Takes(S)}
  <1>8. Bad = {}
    <2> SUFFICES ASSUME Bad # {}
                 PROVE  FALSE
      OBVIOUS
    <2>1. PICK k \in Bad : \A l \in Bad : k <= l
      BY LeastNumber
    <2>2. PICK S \in SUBSET all : Cardinality(S) = k /\ ~Takes(S)
      BY <2>1
    <2>3. CASE S = {}
      <3>1. fold[S] = <<>>
        BY <1>7, <2>3 DEF Adds
      <3>2. Enumerates(<<>>, S \cap places)
        BY <2>3 DEF Enumerates
      <3>3. <<>> = [n \in 1..Len(<<>>) |-> s[<<>>[n]]]
        OBVIOUS
      <3> HIDE DEF Bad
      <3>4. Takes(S)
        BY <3>1, <3>2, <3>3
      <3> HIDE DEF Takes
      <3> QED
        BY <2>2, <3>4
    <2>4. CASE S # {}
      <3> DEFINE last == Max(S)
                 rest == S \ {last}
      <3>1. last \in S
        BY <1>3, <2>4
      <3>2. IsFiniteSet(S)
        BY <1>2, FS_Subset
      <3>3. rest \in SUBSET all /\ Cardinality(rest) = k - 1 /\ k - 1 \in Nat
        <4>1. Cardinality(rest) = Cardinality(S) - 1 /\ IsFiniteSet(rest)
          BY <3>1, <3>2, FS_RemoveElement
        <4>2. Cardinality(rest) \in Nat
          BY <4>1, FS_CardinalityType
        <4> QED
          BY <2>2, <4>1, <4>2
      <3>4. Takes(rest)
        <4> SUFFICES ASSUME ~Takes(rest)
                     PROVE  FALSE
          OBVIOUS
        <4> HIDE DEF Takes, rest
        <4>1. k - 1 \in Bad
          BY <3>3
        <4> QED
          BY <2>1, <4>1
      <3>5. PICK order : /\ Enumerates(order, rest \cap places)
                         /\ fold[rest] = [n \in 1..Len(order) |-> s[order[n]]]
        BY <3>4
      <3>6. CASE last \notin places
        <4>1. fold[S] = fold[rest]
          BY <1>7, <2>4, <3>6 DEF Adds
        <4>2. S \cap places = rest \cap places
          BY <3>6
        <4> HIDE DEF Bad, last, rest
        <4>3. Enumerates(order, S \cap places)
          BY <3>5, <4>2
        <4>4. fold[S] = [n \in 1..Len(order) |-> s[order[n]]]
          BY <3>5, <4>1
        <4>5. Takes(S)
          BY <4>3, <4>4
        <4> HIDE DEF Takes
        <4> QED
          BY <2>2, <4>5
      <3>7. CASE last \in places
        <4> DEFINE more == Append(order, last)
        <4>1. fold[S] = Append(fold[rest], s[last])
          BY <1>7, <2>4, <3>7 DEF Adds
        <4>2. S \cap places = (rest \cap places) \cup {last} /\ last \notin rest \cap places
          BY <3>1, <3>7
        <4> HIDE DEF last, rest
        <4>3. Enumerates(more, S \cap places)
          BY <3>5, <4>2, EnumerationGrows
        <4>4. order \in Seq(rest \cap places) /\ Len(order) \in Nat
          BY <3>5 DEF Enumerates
        <4>5. /\ Len(more) = Len(order) + 1 /\ more[Len(order) + 1] = last
              /\ \A n \in 1..Len(order) : more[n] = order[n]
          BY <4>4
        <4>6. fold[rest] \in Seq({s[order[n]] : n \in 1..Len(order)}) /\ Len(fold[rest]) = Len(order)
          <5> DEFINE held == {s[order[n]] : n \in 1..Len(order)}
          <5>1. fold[rest] \in [1..Len(order) -> held]
            BY <3>5
          <5> HIDE DEF held
          <5>2. fold[rest] \in Seq(held) /\ Len(fold[rest]) = Len(order)
            BY <4>4, <5>1, FunctionIsSeq
          <5> QED
            BY <5>2 DEF held
        <4>7. fold[S] = [n \in 1..(Len(order) + 1) |->
                            IF n = Len(order) + 1 THEN s[last] ELSE s[order[n]]]
          BY <3>5, <4>1, <4>4, <4>6
        <4>8. [n \in 1..(Len(order) + 1) |-> IF n = Len(order) + 1 THEN s[last] ELSE s[order[n]]]
              = [n \in 1..Len(more) |-> s[more[n]]]
          BY <4>4, <4>5
        <4> HIDE DEF more, Bad
        <4>9. fold[S] = [n \in 1..Len(more) |-> s[more[n]]]
          BY <4>7, <4>8
        <4>10. Takes(S)
          BY <4>3, <4>9
        <4> HIDE DEF Takes
        <4> QED
          BY <2>2, <4>10
      <3> QED
        BY <3>6, <3>7
    <2> QED
      BY <2>3, <2>4
  <1>9. Takes(all)
    <2>1. Cardinality(all) \in Nat /\ all \in SUBSET all
      BY <1>2, FS_CardinalityType
    <2>2. Cardinality(all) \notin Bad
      BY <1>8
    <2> HIDE DEF Takes
    <2> QED
      BY <2>1, <2>2
  <1>10. all \cap places = places
    OBVIOUS
  <1> QED
    BY <1>5, <1>9, <1>10

-----------------------------------------------------------------------------
(* Lists of models.                                                        *)

\* No item twice.
Different(s) == \A m, n \in 1..Len(s) : s[m] = s[n] => m = n

\* The first n numbers are n.
LEMMA FirstNumbers ==
    ASSUME NEW n \in Nat
    PROVE  IsFiniteSet(1..n) /\ Cardinality(1..n) = n
  <1>1. 1 \in Int /\ n \in Int
    OBVIOUS
  <1>2. IsFiniteSet(1..n) /\ Cardinality(1..n) = IF 1 > n THEN 0 ELSE n - 1 + 1
    BY <1>1, FS_Interval
  <1>3. (IF 1 > n THEN 0 ELSE n - 1 + 1) = n
    OBVIOUS
  <1> QED
    BY <1>2, <1>3

\* A sequence without repetition has as many members as places.
LEMMA DifferentCounts ==
    ASSUME NEW X, NEW s \in Seq(X), Different(s)
    PROVE  Cardinality(ToSet(s)) = Len(s)
  <1>1. s \in [1..Len(s) -> X] /\ Len(s) \in Nat
    OBVIOUS
  <1>2. ToSet(s) = {s[i] : i \in 1..Len(s)}
    BY <1>1 DEF ToSet
  <1>3. s \in Bijection(1..Len(s), ToSet(s))
    BY <1>1, <1>2 DEF Different, Bijection, Injection, Surjection, IsInjective
  <1>4. ExistsBijection(1..Len(s), ToSet(s))
    BY <1>3 DEF ExistsBijection
  <1> QED
    BY <1>1, <1>4, FS_CountingElements

\* An enumeration is as long as its set is large.
LEMMA EnumerationCounts ==
    ASSUME NEW S, NEW order, Enumerates(order, S)
    PROVE  IsFiniteSet(S) /\ Cardinality(S) = Len(order)
  <1>1. order \in Seq(S) /\ order \in [1..Len(order) -> S] /\ Len(order) \in Nat
    BY DEF Enumerates
  <1>2. order \in Bijection(1..Len(order), S)
    BY <1>1 DEF Enumerates, Bijection, Injection, Surjection, IsInjective
  <1>3. IsFiniteSet(1..Len(order)) /\ Cardinality(1..Len(order)) = Len(order)
    BY <1>1, FirstNumbers
  <1>4. ExistsBijection(1..Len(order), S)
    BY <1>2 DEF ExistsBijection
  <1> QED
    BY <1>3, <1>4, FS_Bijection

\* A sequence takes its items at different places of another.
TakenAt(kept, s, places) ==
    \E order \in [1..Len(kept) -> places] :
        /\ \A n \in 1..Len(kept) : kept[n] = s[order[n]]
        /\ \A m, n \in 1..Len(kept) : order[m] = order[n] => m = n

\* What is kept of a sequence: items of it at different places, as many as there
\* are places to keep.
LEMMA KeptIsPart ==
    ASSUME NEW X, NEW s \in Seq(X), NEW places \in SUBSET DOMAIN s
    PROVE  /\ Kept(s, places) \in Seq(X)
           /\ Len(Kept(s, places)) = Cardinality(places)
           /\ Len(Kept(s, places)) <= Len(s)
           /\ TakenAt(Kept(s, places), s, places)
  <1> DEFINE kept == Kept(s, places)
  <1>1. PICK order : /\ Enumerates(order, places)
                     /\ kept = [n \in 1..Len(order) |-> s[order[n]]]
    BY KeptAtPlaces
  <1>2. /\ order \in [1..Len(order) -> places] /\ Len(order) \in Nat
        /\ \A m, n \in 1..Len(order) : order[m] = order[n] => m = n
    BY <1>1 DEF Enumerates
  <1>3. DOMAIN s = 1..Len(s) /\ Len(s) \in Nat /\ \A i \in DOMAIN s : s[i] \in X
    OBVIOUS
  <1> HIDE DEF kept
  <1>4. kept \in [1..Len(order) -> X]
    BY <1>1, <1>2, <1>3
  <1>5. kept \in Seq(X) /\ Len(kept) = Len(order)
    BY <1>2, <1>4, FunctionIsSeq
  <1>6. Cardinality(places) = Len(order) /\ Cardinality(places) <= Len(s)
    <2>1. IsFiniteSet(DOMAIN s) /\ Cardinality(DOMAIN s) = Len(s)
      BY <1>3, FirstNumbers
    <2>2. Cardinality(places) <= Cardinality(DOMAIN s)
      BY <2>1, FS_Subset
    <2> QED
      BY <1>1, <2>1, <2>2, EnumerationCounts
  <1>7. \A n \in 1..Len(kept) : kept[n] = s[order[n]]
    BY <1>1, <1>5
  <1>8. TakenAt(kept, s, places)
    BY <1>2, <1>5, <1>7 DEF TakenAt
  <1> QED
    BY <1>5, <1>6, <1>8 DEF kept

\* Distinct keeps no item twice, and all of them when none repeats.
LEMMA DistinctIsPart ==
    ASSUME NEW X, NEW s \in Seq(X)
    PROVE  /\ Distinct(s) \in Seq(X) /\ Different(Distinct(s))
           /\ Len(Distinct(s)) <= Len(s)
           /\ ToSet(Distinct(s)) \subseteq ToSet(s)
           /\ Different(s) => Len(Distinct(s)) = Len(s)
  <1> DEFINE places == {i \in DOMAIN s : \A j \in 1..(i - 1) : s[j] # s[i]}
             kept == Kept(s, places)
  <1>1. Distinct(s) = kept
    BY DEF Distinct
  <1>2. DOMAIN s = 1..Len(s) /\ Len(s) \in Nat
    OBVIOUS
  <1>3. places \in SUBSET DOMAIN s
    OBVIOUS
  <1>4. \A i, j \in places : s[i] = s[j] => i = j
    <2> SUFFICES ASSUME NEW i \in places, NEW j \in places, s[i] = s[j]
                 PROVE  i = j
      OBVIOUS
    <2>1. i \in Nat /\ j \in Nat /\ i >= 1 /\ j >= 1
      BY <1>2
    <2>2. ~(i < j)
      BY <2>1
    <2>3. ~(j < i)
      BY <2>1
    <2> QED
      BY <2>1, <2>2, <2>3
  <1>5. Different(s) => Cardinality(places) = Len(s)
    <2> SUFFICES ASSUME Different(s)
                 PROVE  Cardinality(places) = Len(s)
      OBVIOUS
    <2>1. ASSUME NEW i \in DOMAIN s, NEW j \in 1..(i - 1)
          PROVE  s[j] # s[i]
      <3>1. i \in 1..Len(s) /\ j \in 1..Len(s) /\ j # i
        BY <1>2
      <3> QED
        BY <3>1 DEF Different
    <2>2. places = DOMAIN s
      BY <2>1
    <2> QED
      BY <1>2, <2>2, FirstNumbers
  <1> HIDE DEF places
  <1>6. kept \in Seq(X) /\ Len(kept) = Cardinality(places) /\ Len(kept) <= Len(s)
    BY <1>3, KeptIsPart
  <1>a. TakenAt(kept, s, places)
    BY <1>3, KeptIsPart
  <1>7. PICK order \in [1..Len(kept) -> places] :
             /\ \A n \in 1..Len(kept) : kept[n] = s[order[n]]
             /\ \A m, n \in 1..Len(kept) : order[m] = order[n] => m = n
    BY <1>a DEF TakenAt
  <1> HIDE DEF kept
  <1>8. Different(kept)
    <2> SUFFICES ASSUME NEW m \in 1..Len(kept), NEW n \in 1..Len(kept), kept[m] = kept[n]
                 PROVE  m = n
      BY DEF Different
    <2>1. order[m] \in places /\ order[n] \in places /\ s[order[m]] = s[order[n]]
      BY <1>7
    <2> QED
      BY <1>4, <1>7, <2>1
  <1>9. ToSet(kept) \subseteq ToSet(s)
    <2>1. \A n \in 1..Len(kept) : order[n] \in DOMAIN s /\ kept[n] = s[order[n]]
      BY <1>3, <1>7
    <2>2. DOMAIN kept = 1..Len(kept)
      BY <1>6
    <2> QED
      BY <2>1, <2>2 DEF ToSet
  <1> QED
    BY <1>1, <1>5, <1>6, <1>8, <1>9

\* The lesser of two numbers.
LEMMA LesserOfTwo ==
    ASSUME NEW m \in Nat, NEW n \in Nat
    PROVE  Min({m, n}) = IF m <= n THEN m ELSE n
  <1> DEFINE least == IF m <= n THEN m ELSE n
  <1>1. least \in {m, n} /\ \A k \in {m, n} : least <= k
    OBVIOUS
  <1>2. Min({m, n}) \in {m, n} /\ \A k \in {m, n} : Min({m, n}) <= k
    BY <1>1 DEF Min
  <1>3. Min({m, n}) <= least /\ least <= Min({m, n})
    BY <1>1, <1>2
  <1> QED
    BY <1>2, <1>3

\* A list is cut at the limit.
LEMMA FirstIsPart ==
    ASSUME NEW X, NEW s \in Seq(X), query.limit \in Nat
    PROVE  /\ FirstOf(s) \in Seq(X)
           /\ Len(FirstOf(s)) = Min({query.limit, Len(s)})
           /\ Len(FirstOf(s)) <= query.limit
           /\ ToSet(FirstOf(s)) \subseteq ToSet(s)
           /\ Different(s) => Different(FirstOf(s))
  <1> DEFINE most == Min({query.limit, Len(s)})
             cut == FirstOf(s)
  <1>1. Len(s) \in Nat /\ DOMAIN s = 1..Len(s) /\ \A i \in 1..Len(s) : s[i] \in X
    OBVIOUS
  <1>2. most \in Nat /\ most <= Len(s) /\ most <= query.limit
    BY <1>1, LesserOfTwo
  <1>3. cut = SubSeq(s, 1, most)
    BY DEF FirstOf
  <1> HIDE DEF most
  <1>4. \A i \in 1..most : s[i] \in X
    BY <1>1, <1>2
  <1>5. cut \in Seq(X) /\ Len(cut) = most /\ \A i \in 1..most : cut[i] = s[i]
    BY <1>2, <1>3, <1>4, SubSeqProperties
  <1> HIDE DEF cut
  <1>6. ToSet(cut) \subseteq ToSet(s)
    BY <1>1, <1>2, <1>5 DEF ToSet
  <1>7. Different(s) => Different(cut)
    BY <1>1, <1>2, <1>5 DEF Different
  <1> QED
    BY <1>2, <1>5, <1>6, <1>7 DEF cut, most

\* The ids of a sequence of items, place by place.
LEMMA IdsOfItems ==
    ASSUME NEW X, NEW items \in Seq(X)
    PROVE  /\ Ids(items) \in Seq(ToSet(Ids(items))) /\ Len(Ids(items)) = Len(items)
           /\ \A n \in 1..Len(items) : Ids(items)[n] = items[n].id
           /\ ToSet(Ids(items)) = {items[n].id : n \in 1..Len(items)}
  <1> DEFINE ids == Ids(items)
  <1>1. Len(items) \in Nat /\ DOMAIN items = 1..Len(items)
    OBVIOUS
  <1>2. ids = [n \in 1..Len(items) |-> items[n].id]
    BY <1>1 DEF Ids
  <1>3. DOMAIN ids = 1..Len(items) /\ \A n \in 1..Len(items) : ids[n] = items[n].id
    BY <1>2
  <1>4. ToSet(ids) = {items[n].id : n \in 1..Len(items)}
    BY <1>3 DEF ToSet
  <1>5. ids \in [1..Len(items) -> ToSet(ids)]
    BY <1>2, <1>4
  <1> HIDE DEF ids
  <1>6. ids \in Seq(ToSet(ids)) /\ Len(ids) = Len(items)
    BY <1>1, <1>5, FunctionIsSeq
  <1> QED
    BY <1>3, <1>4, <1>6 DEF ids

\* What is asked for is a part of what is listed.
LEMMA MatchingIsPart ==
    ASSUME query.listing \in Listing
    PROVE  /\ query.listing \in Seq(ToSet(query.listing))
           /\ Matching \in Seq(ToSet(query.listing))
           /\ ToSet(Ids(Matching)) \subseteq ToSet(Ids(query.listing))
           /\ Different(Ids(query.listing)) => Different(Ids(Matching))
  <1> DEFINE items == query.listing
             places == {i \in DOMAIN items : items[i].found}
             kept == Kept(items, places)
  <1>1. items \in Seq(ToSet(items))
    BY ConnectionsAssumption
  <1>2. CASE ~query.search
    BY <1>1, <1>2 DEF Matching
  <1>3. CASE query.search
    <2>1. Matching = kept
      BY <1>3 DEF Matching
    <2>2. places \in SUBSET DOMAIN items /\ DOMAIN items = 1..Len(items)
      BY <1>1
    <2> HIDE DEF places, items
    <2>3. kept \in Seq(ToSet(items))
      BY <1>1, <2>2, KeptIsPart
    <2>a. TakenAt(kept, items, places)
      BY <1>1, <2>2, KeptIsPart
    <2> HIDE DEF kept
    <2>4. PICK order \in [1..Len(kept) -> places] :
               /\ \A n \in 1..Len(kept) : kept[n] = items[order[n]]
               /\ \A m, n \in 1..Len(kept) : order[m] = order[n] => m = n
      BY <2>a DEF TakenAt
    <2>5. /\ Len(Ids(kept)) = Len(kept)
          /\ \A n \in 1..Len(kept) : Ids(kept)[n] = kept[n].id
          /\ ToSet(Ids(kept)) = {kept[n].id : n \in 1..Len(kept)}
      BY <2>3, IdsOfItems
    <2>6. /\ Len(Ids(items)) = Len(items)
          /\ \A n \in 1..Len(items) : Ids(items)[n] = items[n].id
          /\ ToSet(Ids(items)) = {items[n].id : n \in 1..Len(items)}
      BY <1>1, IdsOfItems
    <2>7. \A n \in 1..Len(kept) : order[n] \in 1..Len(items)
      BY <2>2, <2>4
    <2>8. ToSet(Ids(kept)) \subseteq ToSet(Ids(items))
      BY <2>4, <2>5, <2>6, <2>7
    <2>9. ASSUME Different(Ids(items))
          PROVE  Different(Ids(kept))
      <3>1. \A n \in 1..Len(kept) : Ids(kept)[n] = Ids(items)[order[n]]
        BY <2>4, <2>5, <2>6, <2>7
      <3> QED
        BY <2>4, <2>5, <2>6, <2>7, <2>9, <3>1 DEF Different
    <2> QED
      BY <1>1, <2>1, <2>3, <2>8, <2>9 DEF items
  <1> QED
    BY <1>2, <1>3

\* No page of Civitai is cut off.
WholePages == query.limit <= PageSize \/ query.limit % PageSize = 0

\* What ListingIsTrue asks of a list of ids.
TrueList(ids) ==
    /\ ToSet(ids) \subseteq ToSet(Ids(query.listing))
    /\ Len(ids) <= query.limit
    /\ Cardinality(ToSet(ids)) = Len(ids)
    /\ setting.adapter # "ollama" => ToSet(ids) \subseteq ToSet(Ids(Matching))
    /\ /\ Distinct(Ids(query.listing)) = Ids(query.listing)
       /\ setting.adapter = "civitai" => WholePages
       => Len(ids) >= Min({query.limit, Len(Matching)})

\* Ids of what was found, none twice, are a true list when they are enough.
LEMMA ListIsTrue ==
    ASSUME query.listing \in Listing, query.limit \in Limit,
           NEW ids \in Seq(ToSet(Ids(query.listing))), Different(ids),
           Len(ids) <= query.limit,
           setting.adapter # "ollama" => ids \in Seq(ToSet(Ids(Matching))),
           /\ Different(Ids(query.listing)) /\ Different(Ids(Matching))
           /\ setting.adapter = "civitai" => WholePages
           => Len(ids) >= Min({query.limit, Len(Matching)})
    PROVE  TrueList(ids)
  <1>1. \A X : ids \in Seq(X) => ToSet(ids) \subseteq X
    BY DEF ToSet
  <1>2. Cardinality(ToSet(ids)) = Len(ids)
    BY DifferentCounts
  <1>3. Distinct(Ids(query.listing)) = Ids(query.listing) =>
            Different(Ids(query.listing)) /\ Different(Ids(Matching))
    <2>1. query.listing \in Seq(ToSet(query.listing))
      BY MatchingIsPart
    <2>2. Ids(query.listing) \in Seq(ToSet(Ids(query.listing)))
      BY <2>1, IdsOfItems
    <2>3. Different(Distinct(Ids(query.listing)))
      BY <2>2, DistinctIsPart
    <2> QED
      BY <2>3, MatchingIsPart
  <1> QED
    BY <1>1, <1>2, <1>3 DEF TrueList

\* Every adapter that asks once answers with a true list.
LEMMA ListedIsTrue ==
    ASSUME query.listing \in Listing, query.limit \in Limit, setting.adapter # "civitai"
    PROVE  TrueList(Listed)
  <1> DEFINE items == query.listing
             ids == Ids(Matching)
             cut == FirstOf(ids)
             once == Distinct(ids)
  <1>1. /\ items \in Seq(ToSet(items)) /\ Matching \in Seq(ToSet(items))
        /\ ToSet(ids) \subseteq ToSet(Ids(items))
    BY MatchingIsPart
  <1>2. query.limit \in Nat
    BY ConnectionsAssumption
  <1>3. ids \in Seq(ToSet(ids)) /\ Len(ids) = Len(Matching) /\ Len(Matching) \in Nat
    BY <1>1, IdsOfItems
  <1> HIDE DEF ids
  <1>4. /\ cut \in Seq(ToSet(ids)) /\ Len(cut) = Min({query.limit, Len(ids)})
        /\ Len(cut) <= query.limit
        /\ Different(ids) => Different(cut)
    BY <1>2, <1>3, FirstIsPart
  <1>5. ASSUME NEW list, list \in Seq(ToSet(ids)), Different(list), Len(list) <= query.limit,
               Different(ids) => Len(list) >= Min({query.limit, Len(ids)})
        PROVE  TrueList(list)
    <2>1. list \in Seq(ToSet(Ids(items)))
      BY <1>1, <1>5
    <2> QED
      BY <1>3, <1>5, <2>1, ListIsTrue DEF ids
  <1>6. TrueList(CompatibleModels)
    <2> DEFINE list == Distinct(cut)
    <2> HIDE DEF cut
    <2>1. /\ list \in Seq(ToSet(ids)) /\ Different(list) /\ Len(list) <= Len(cut)
          /\ Different(cut) => Len(list) = Len(cut)
      BY <1>4, DistinctIsPart
    <2>2. Len(cut) \in Nat /\ Len(list) \in Nat
      BY <1>4, <2>1
    <2>3. CompatibleModels = list
      BY DEF CompatibleModels, cut, ids
    <2> HIDE DEF list
    <2>4. Len(list) <= query.limit
      BY <1>2, <1>4, <2>1, <2>2
    <2>5. ASSUME Different(ids)
          PROVE  Len(list) >= Min({query.limit, Len(ids)})
      <3>1. Len(list) = Min({query.limit, Len(ids)})
        BY <1>4, <2>1, <2>5
      <3> QED
        BY <2>2, <3>1
    <2> QED
      BY <1>5, <2>1, <2>3, <2>4, <2>5
  <1>7. TrueList(AnthropicModels)
    <2> DEFINE list == FirstOf(once)
    <2>1. /\ once \in Seq(ToSet(ids)) /\ Different(once)
          /\ Different(ids) => Len(once) = Len(ids)
      BY <1>3, DistinctIsPart
    <2> HIDE DEF once
    <2>2. /\ list \in Seq(ToSet(ids)) /\ Len(list) = Min({query.limit, Len(once)})
          /\ Len(list) <= query.limit /\ Different(list)
      BY <1>2, <2>1, FirstIsPart
    <2>3. AnthropicModels = list
      BY DEF AnthropicModels, once, ids
    <2> HIDE DEF list
    <2>4. Len(list) \in Nat
      BY <2>2
    <2>5. ASSUME Different(ids)
          PROVE  Len(list) >= Min({query.limit, Len(ids)})
      <3>1. Len(list) = Min({query.limit, Len(ids)})
        BY <2>1, <2>2, <2>5
      <3> QED
        BY <2>4, <3>1
    <2> QED
      BY <1>5, <2>2, <2>3, <2>5
  <1>8. CASE setting.adapter = "ollama"
    <2> DEFINE source == IF Matching = <<>> THEN items ELSE Matching
               names == Distinct(Ids(source))
               list == FirstOf(names)
    <2>1. source \in Seq(ToSet(items)) /\ ToSet(Ids(source)) \subseteq ToSet(Ids(items))
      BY <1>1 DEF ids
    <2>2. Matching # <<>> => source = Matching
      OBVIOUS
    <2> HIDE DEF source
    <2>3. Ids(source) \in Seq(ToSet(Ids(source))) /\ Len(Ids(source)) = Len(source)
      BY <2>1, IdsOfItems
    <2>4. /\ names \in Seq(ToSet(Ids(source))) /\ Different(names)
          /\ Different(Ids(source)) => Len(names) = Len(source)
      BY <2>3, DistinctIsPart
    <2> HIDE DEF names
    <2>5. /\ list \in Seq(ToSet(Ids(source))) /\ Len(list) = Min({query.limit, Len(names)})
          /\ Len(list) <= query.limit /\ Different(list)
      BY <1>2, <2>4, FirstIsPart
    <2>6. Listed = list
      BY <1>8 DEF Listed, LibraryModels, names, source
    <2> HIDE DEF list
    <2>7. list \in Seq(ToSet(Ids(items))) /\ Len(list) \in Nat
      BY <2>1, <2>5
    <2>8. Different(Ids(Matching)) => Len(list) >= Min({query.limit, Len(Matching)})
      <3>1. CASE Matching = <<>>
        <4>1. Len(Matching) = 0
          BY <3>1
        <4>2. Min({query.limit, Len(Matching)}) = 0
          <5>1. 0 \in Nat /\ ~(query.limit < 0)
            BY <1>2
          <5>2. Min({query.limit, 0}) = IF query.limit <= 0 THEN query.limit ELSE 0
            BY <1>2, <5>1, LesserOfTwo
          <5> QED
            BY <1>2, <4>1, <5>2
        <4> QED
          BY <2>7, <4>2
      <3>2. ASSUME Matching # <<>>, Different(Ids(Matching))
            PROVE  Len(list) >= Min({query.limit, Len(Matching)})
        <4>1. Len(list) = Min({query.limit, Len(Matching)})
          BY <2>2, <2>4, <2>5, <3>2
        <4> QED
          BY <2>7, <4>1
      <3> QED
        BY <3>1, <3>2
    <2>9. TrueList(list)
      BY <1>8, <2>5, <2>7, <2>8, ListIsTrue
    <2> QED
      BY <2>6, <2>9
  <1>9. CASE setting.adapter # "ollama"
    <2>1. Listed = AnthropicModels \/ Listed = CompatibleModels
      BY <1>9 DEF Listed, Deployments, Voices, HubModels
    <2> QED
      BY <1>6, <1>7, <2>1
  <1> QED
    BY <1>8, <1>9

\* A page of Civitai, as long as none is cut off.
FullPage == Min({PageSize, query.limit})

\* What the pages brought so far: below the limit, and when no page is cut off,
\* the beginning of what is found, in whole pages.
PagesSoFar ==
    /\ query.page \in Nat \ {0}
    /\ query.ids \in Seq(ToSet(Ids(Matching)))
    /\ Len(query.ids) < query.limit
    /\ WholePages =>
         /\ Len(query.ids) = (query.page - 1) * FullPage
         /\ Len(query.ids) <= Len(Matching)
         /\ Len(query.ids) + FullPage <= query.limit
         /\ \A n \in 1..Len(query.ids) : query.ids[n] = Matching[n].id

\* Between two multiples of a number is room for the number.
LEMMA MultiplesApart ==
    ASSUME NEW p \in Nat \ {0}, NEW k \in Nat, NEW l \in Nat, l % p = 0, k * p < l
    PROVE  k * p + p <= l
  <1>1. PICK m \in Int : l = m * p
    OBVIOUS
  <1>2. k < m
    <2> SUFFICES ASSUME m <= k
                 PROVE  FALSE
      OBVIOUS
    <2>1. m * p <= k * p
      OBVIOUS
    <2> QED
      BY <1>1, <2>1
  <1>3. (k + 1) * p <= m * p
    BY <1>2
  <1>4. (k + 1) * p = k * p + p
    OBVIOUS
  <1> QED
    BY <1>1, <1>3, <1>4

\* One page more.
LEMMA OneMore ==
    ASSUME NEW k \in Nat \ {0}, NEW p \in Nat
    PROVE  /\ (k - 1) * p \in Nat /\ k * p \in Nat
           /\ k * p = (k - 1) * p + p
  OBVIOUS

\* How much of the next page is taken, and the ids with it.
PageTaken == Min({PageSize, query.limit - Len(query.ids)})
NextIds == query.ids \o Ids(Page(Matching, PageTaken))

\* The next page, and what it makes of the list.
LEMMA NextPage ==
    ASSUME query.listing \in Listing, query.limit \in Limit, PagesSoFar
    PROVE  /\ NextIds \in Seq(ToSet(Ids(Matching))) /\ Len(NextIds) <= query.limit
           /\ PageTaken \in Nat /\ query.page * PageTaken \in Nat
           /\ WholePages =>
                /\ PageTaken = FullPage
                /\ Len(NextIds) = Min({query.page * PageTaken, Len(Matching)})
                /\ Len(NextIds) <= Len(Matching)
                /\ query.page * PageTaken = Len(query.ids) + PageTaken
                /\ \A n \in 1..Len(NextIds) : NextIds[n] = Matching[n].id
  <1> DEFINE found == Matching
             before == Len(query.ids)
             start == (query.page - 1) * PageTaken
             reach == query.page * PageTaken
             stop == Min({reach, Len(found)})
             part == Page(found, PageTaken)
             new == Ids(part)
  <1>1. query.limit \in Nat \ {0} /\ PageSize \in Nat \ {0}
    BY ConnectionsAssumption
  <1>2. before \in Nat /\ query.page \in Nat \ {0} /\ before < query.limit
    BY DEF PagesSoFar
  <1>3. found \in Seq(ToSet(query.listing)) /\ Len(found) \in Nat
    BY MatchingIsPart
  <1>4. /\ PageTaken = IF PageSize <= query.limit - before THEN PageSize ELSE query.limit - before
        /\ query.limit - before \in Nat \ {0}
    <2>1. query.limit - before \in Nat \ {0}
      BY <1>1, <1>2
    <2> QED
      BY <1>1, <2>1, LesserOfTwo DEF PageTaken
  <1>5. PageTaken \in Nat \ {0} /\ before + PageTaken <= query.limit
    BY <1>1, <1>2, <1>4
  <1>6. start \in Nat /\ reach \in Nat /\ reach = start + PageTaken
    BY <1>2, <1>5, OneMore
  <1>7. part = SubSeq(found, start + 1, stop)
    BY DEF Page
  <1> HIDE DEF start, reach
  <1>8. /\ stop = IF reach <= Len(found) THEN reach ELSE Len(found)
        /\ stop \in Nat /\ stop <= Len(found) /\ stop <= start + PageTaken
    <2> HIDE DEF found
    <2> QED
      BY <1>3, <1>5, <1>6, LesserOfTwo
  <1>9. \A i \in (start + 1)..stop : i \in 1..Len(found) /\ found[i] \in ToSet(query.listing)
    BY <1>3, <1>6, <1>8
  <1> HIDE DEF stop, found
  <1>10. /\ part \in Seq(ToSet(query.listing))
         /\ Len(part) = IF start + 1 <= stop THEN stop - start ELSE 0
         /\ \A n \in 1..(stop - start) : part[n] = found[start + n]
    <2>1. start + 1 \in Int /\ stop \in Int
      BY <1>6, <1>8
    <2> HIDE DEF part
    <2>2. /\ part \in Seq(ToSet(query.listing))
          /\ Len(part) = IF start + 1 <= stop THEN stop - (start + 1) + 1 ELSE 0
          /\ \A n \in 1..(stop - (start + 1) + 1) : part[n] = found[(start + 1) + n - 1]
      BY <1>7, <1>9, <2>1, SubSeqProperties
    <2>3. Len(part) = IF start + 1 <= stop THEN stop - start ELSE 0
      BY <1>6, <1>8, <2>2
    <2>4. ASSUME NEW n \in 1..(stop - start)
          PROVE  part[n] = found[start + n]
      <3>1. n \in 1..(stop - (start + 1) + 1) /\ (start + 1) + n - 1 = start + n
        BY <1>6, <1>8
      <3> QED
        BY <2>2, <3>1
    <2> QED
      BY <2>2, <2>3, <2>4
  <1> HIDE DEF part
  <1>11. /\ Len(new) = Len(part) /\ \A n \in 1..Len(part) : new[n] = part[n].id
         /\ new \in Seq(ToSet(new)) /\ ToSet(new) = {part[n].id : n \in 1..Len(part)}
    BY <1>10, IdsOfItems
  <1>12. ToSet(Ids(found)) = {found[n].id : n \in 1..Len(found)}
    BY <1>3, IdsOfItems DEF found
  <1>13. \A n \in 1..Len(part) : n \in 1..(stop - start) /\ start + n \in 1..Len(found)
                                 /\ part[n] = found[start + n]
    BY <1>6, <1>8, <1>10
  <1>14. ToSet(new) \subseteq ToSet(Ids(found))
    BY <1>11, <1>12, <1>13
  <1> HIDE DEF new
  <1>15. new \in Seq(ToSet(Ids(found)))
    BY <1>11, <1>14
  <1>16. query.ids \in Seq(ToSet(Ids(found)))
    BY DEF PagesSoFar, found
  <1>17. NextIds = query.ids \o new
    BY DEF NextIds, new, part, found
  <1>18. /\ NextIds \in Seq(ToSet(Ids(found))) /\ Len(NextIds) = before + Len(new)
         /\ \A n \in 1..(before + Len(new)) :
                NextIds[n] = IF n <= before THEN query.ids[n] ELSE new[n - before]
    BY <1>15, <1>16, <1>17, ConcatProperties
  <1>19. Len(new) \in Nat /\ Len(new) <= PageTaken
    BY <1>5, <1>6, <1>8, <1>10, <1>11
  <1>20. ASSUME WholePages
         PROVE  /\ PageTaken = FullPage
                /\ Len(NextIds) = stop
                /\ Len(NextIds) <= Len(found)
                /\ start = before
                /\ \A n \in 1..Len(NextIds) : NextIds[n] = found[n].id
    <2>1. FullPage = IF PageSize <= query.limit THEN PageSize ELSE query.limit
      BY <1>1, LesserOfTwo DEF FullPage
    <2>2. /\ before = (query.page - 1) * FullPage /\ before <= Len(found)
          /\ before + FullPage <= query.limit
          /\ \A n \in 1..before : query.ids[n] = found[n].id
      BY <1>20 DEF PagesSoFar, found
    <2>3. PageTaken = FullPage
      BY <1>1, <1>2, <1>4, <2>1, <2>2
    <2>4. start = before
      BY <2>2, <2>3 DEF start
    <2> HIDE DEF before
    <2>5. before <= stop
      BY <1>2, <1>3, <1>5, <1>6, <1>8, <2>2, <2>4
    <2>6. Len(new) = stop - before /\ Len(NextIds) = stop
      BY <1>2, <1>8, <1>10, <1>11, <1>18, <2>4, <2>5
    <2>7. ASSUME NEW n \in 1..Len(NextIds)
          PROVE  NextIds[n] = found[n].id
      <3>1. CASE n <= before
        <4>1. n \in 1..before /\ n \in 1..(before + Len(new))
          BY <1>2, <1>8, <2>5, <2>6, <3>1
        <4>2. NextIds[n] = query.ids[n]
          BY <1>18, <3>1, <4>1
        <4> QED
          BY <2>2, <4>1, <4>2
      <3>2. CASE ~(n <= before)
        <4>1. n - before \in 1..Len(new) /\ n \in 1..(before + Len(new))
          BY <1>2, <1>8, <2>5, <2>6, <3>2
        <4>2. NextIds[n] = new[n - before]
          BY <1>18, <3>2, <4>1
        <4>3. n - before \in 1..Len(part)
          BY <1>11, <4>1
        <4>4. new[n - before] = part[n - before].id /\ part[n - before] = found[start + (n - before)]
          BY <1>11, <1>13, <4>3
        <4>5. start + (n - before) = n
          BY <1>2, <1>8, <2>4, <2>6
        <4> QED
          BY <4>2, <4>4, <4>5
      <3> QED
        BY <3>1, <3>2
    <2> QED
      BY <1>8, <2>3, <2>4, <2>6, <2>7
  <1>21. Len(NextIds) <= query.limit
    BY <1>1, <1>2, <1>5, <1>18, <1>19
  <1> QED
    BY <1>5, <1>6, <1>18, <1>20, <1>21 DEF found, stop, reach

\* When the pages end, the ids without repetition are a true list; until then the
\* next page starts where this one ended.
LEMMA PagesAreTrue ==
    ASSUME query.listing \in Listing, query.limit \in Limit, PagesSoFar,
           setting.adapter = "civitai"
    PROVE  /\ ~(Len(NextIds) < query.limit /\ Len(Matching) > query.page * PageTaken) =>
                TrueList(Distinct(NextIds))
           /\ Len(NextIds) < query.limit /\ Len(Matching) > query.page * PageTaken =>
                /\ NextIds \in Seq(ToSet(Ids(Matching)))
                /\ WholePages =>
                     /\ Len(NextIds) = query.page * FullPage
                     /\ Len(NextIds) <= Len(Matching)
                     /\ Len(NextIds) + FullPage <= query.limit
                     /\ \A n \in 1..Len(NextIds) : NextIds[n] = Matching[n].id
  <1> DEFINE reach == query.page * PageTaken
             more == Len(NextIds) < query.limit /\ Len(Matching) > reach
             once == Distinct(NextIds)
  <1>1. /\ NextIds \in Seq(ToSet(Ids(Matching))) /\ Len(NextIds) <= query.limit
        /\ PageTaken \in Nat /\ reach \in Nat
        /\ WholePages =>
             /\ PageTaken = FullPage
             /\ Len(NextIds) = Min({reach, Len(Matching)})
             /\ Len(NextIds) <= Len(Matching)
             /\ reach = Len(query.ids) + PageTaken
             /\ \A n \in 1..Len(NextIds) : NextIds[n] = Matching[n].id
    BY NextPage
  <1> HIDE DEF reach
  <1>2. Len(NextIds) \in Nat /\ query.limit \in Nat \ {0} /\ PageSize \in Nat \ {0}
    <2>1. Len(NextIds) \in Nat
      BY <1>1
    <2>2. query.limit \in Nat \ {0} /\ PageSize \in Nat \ {0}
      BY ConnectionsAssumption
    <2> QED
      BY <2>1, <2>2
  <1>3. /\ Matching \in Seq(ToSet(query.listing)) /\ Len(Matching) \in Nat
        /\ ToSet(Ids(Matching)) \subseteq ToSet(Ids(query.listing))
    BY MatchingIsPart
  <1>4. /\ Len(Ids(Matching)) = Len(Matching)
        /\ \A n \in 1..Len(Matching) : Ids(Matching)[n] = Matching[n].id
    BY <1>3, IdsOfItems
  <1>5. Min({reach, Len(Matching)}) =
            IF reach <= Len(Matching) THEN reach ELSE Len(Matching)
    BY <1>1, <1>3, LesserOfTwo
  <1>6. ASSUME ~more
        PROVE  TrueList(once)
    <2>1. /\ once \in Seq(ToSet(Ids(Matching))) /\ Different(once) /\ Len(once) <= Len(NextIds)
          /\ Different(NextIds) => Len(once) = Len(NextIds)
      BY <1>1, DistinctIsPart
    <2>2. once \in Seq(ToSet(Ids(query.listing))) /\ Len(once) \in Nat
      BY <1>3, <2>1
    <2> HIDE DEF once
    <2>3. Len(once) <= query.limit
      BY <1>1, <1>2, <2>1, <2>2
    <2>4. ASSUME Different(Ids(Matching)), WholePages
          PROVE  Len(once) >= Min({query.limit, Len(Matching)})
      <3>1. ASSUME NEW n \in 1..Len(NextIds)
            PROVE  n \in 1..Len(Matching) /\ NextIds[n] = Ids(Matching)[n]
        <4>1. Len(NextIds) <= Len(Matching) /\ NextIds[n] = Matching[n].id
          BY <1>1, <2>4
        <4>2. n \in 1..Len(Matching)
          BY <1>2, <1>3, <4>1
        <4> QED
          BY <1>4, <4>1, <4>2
      <3>2. Different(NextIds)
        BY <1>4, <2>4, <3>1 DEF Different
      <3>3. Len(once) = Len(NextIds)
        BY <2>1, <3>2
      <3>4. Len(NextIds) >= query.limit \/ Len(NextIds) >= Len(Matching)
        BY <1>1, <1>2, <1>3, <1>5, <1>6, <2>4
      <3>5. Min({query.limit, Len(Matching)}) =
                IF query.limit <= Len(Matching) THEN query.limit ELSE Len(Matching)
        BY <1>2, <1>3, LesserOfTwo
      <3> QED
        BY <1>2, <1>3, <3>3, <3>4, <3>5
    <2> QED
      BY <2>1, <2>2, <2>3, <2>4, ListIsTrue
  <1>7. ASSUME more, WholePages
        PROVE  /\ Len(NextIds) = query.page * FullPage
               /\ Len(NextIds) <= Len(Matching)
               /\ Len(NextIds) + FullPage <= query.limit
               /\ \A n \in 1..Len(NextIds) : NextIds[n] = Matching[n].id
    <2>1. PageTaken = FullPage /\ Len(NextIds) = reach
      BY <1>1, <1>3, <1>5, <1>7
    <2>2. FullPage = IF PageSize <= query.limit THEN PageSize ELSE query.limit
      BY <1>2, LesserOfTwo DEF FullPage
    <2>3. Len(NextIds) + FullPage <= query.limit
      <3>1. CASE query.limit <= PageSize
        <4>1. PageTaken = query.limit
          BY <1>2, <2>1, <2>2, <3>1
        <4>2. Len(query.ids) \in Nat /\ Len(NextIds) = Len(query.ids) + PageTaken
          BY <1>1, <1>7, <2>1 DEF PagesSoFar
        <4> QED
          BY <1>2, <1>7, <4>1, <4>2
      <3>2. CASE ~(query.limit <= PageSize)
        <4>1. query.limit % PageSize = 0 /\ FullPage = PageSize
          BY <1>2, <1>7, <2>2, <3>2 DEF WholePages
        <4>2. query.page \in Nat /\ query.page * PageSize < query.limit
          BY <1>7, <2>1, <4>1 DEF PagesSoFar, reach
        <4>3. query.page * PageSize + PageSize <= query.limit
          BY <1>2, <4>1, <4>2, MultiplesApart
        <4> QED
          BY <2>1, <4>1, <4>3 DEF reach
      <3> QED
        BY <3>1, <3>2
    <2> QED
      BY <1>1, <1>7, <2>1, <2>3 DEF reach
  <1> QED
    BY <1>1, <1>6, <1>7 DEF reach

\* Where a command that lists models is, with the list so far.
ModelsFit ==
    query.kind = "models" =>
        /\ query.listing \in Listing /\ query.limit \in Limit
        /\ query.at \in {"ready", "ask"} => query.ids = <<>> /\ query.page = 1
        /\ query.at = "page" => setting.adapter = "civitai" /\ PagesSoFar

\* Before the first page there is nothing.
LEMMA FirstPage ==
    ASSUME query.listing \in Listing, query.limit \in Limit, query.ids = <<>>, query.page = 1
    PROVE  PagesSoFar
  <1>1. query.limit \in Nat \ {0} /\ PageSize \in Nat \ {0}
    BY ConnectionsAssumption
  <1>2. FullPage \in Nat /\ FullPage <= query.limit
    BY <1>1, LesserOfTwo DEF FullPage
  <1>3. (query.page - 1) * FullPage = 0
    BY <1>2
  <1>4. Len(query.ids) = 0 /\ query.ids \in Seq(ToSet(Ids(Matching)))
    OBVIOUS
  <1>5. Len(Matching) \in Nat
    BY MatchingIsPart
  <1>6. \A n \in 1..Len(query.ids) : query.ids[n] = Matching[n].id
    BY <1>4
  <1> QED
    BY <1>1, <1>2, <1>3, <1>4, <1>5, <1>6 DEF PagesSoFar

\* A step of the command towards a true list.
LEMMA ListingStep ==
    ASSUME QueryShape, ModelsFit, Ready \/ OnlineModels \/ CivitaiModels
    PROVE  ModelsFit' /\ ListingIsTrue'
  <1>1. query.kind = "models" /\ query.at # "end" /\ Edits({"at", "source", "ids", "page"})
    BY ModelsStep
  <1>2. DOMAIN query = ModelsFields /\ query.at \in {"ready", "ask", "page"}
    BY <1>1 DEF QueryShape, NoQuery, Edits
  <1>3. /\ query'.kind = "models" /\ query'.listing = query.listing
        /\ query'.limit = query.limit /\ query'.search = query.search
        /\ setting' = setting
    BY <1>1, <1>2 DEF Edits, ModelsFields
  <1>4. query.listing \in Listing /\ query.limit \in Limit
    BY <1>1 DEF ModelsFit
  <1>5. Matching' = Matching /\ FullPage' = FullPage /\ WholePages' = WholePages
    BY <1>3 DEF Matching, FullPage, WholePages
  <1>6. ASSUME NEW source, NEW ids, Ends(source, ids), source # "live"
        PROVE  ModelsFit' /\ ListingIsTrue'
    <2>1. query' = [query EXCEPT !.at = "end", !.source = source, !.ids = ids]
      BY <1>6 DEF Ends, Proceeds
    <2>2. query'.at = "end" /\ query'.source = source
      BY <1>2, <2>1 DEF ModelsFields
    <2> QED
      BY <1>3, <1>4, <1>6, <2>2 DEF ModelsFit, ListingIsTrue
  <1>7. ASSUME NEW ids, Ends("live", ids), TrueList(ids)
        PROVE  ModelsFit' /\ ListingIsTrue'
    <2>1. query' = [query EXCEPT !.at = "end", !.source = "live", !.ids = ids]
      BY <1>7 DEF Ends, Proceeds
    <2>2. query'.at = "end" /\ query'.ids = ids
      BY <1>2, <2>1 DEF ModelsFields
    <2>3. ListingIsTrue'
      BY <1>3, <1>5, <1>7, <2>2 DEF ListingIsTrue, TrueList, WholePages
    <2> QED
      BY <1>3, <1>4, <2>2, <2>3 DEF ModelsFit
  <1>8. ASSUME NEW failed, LocalModels(failed)
        PROVE  ModelsFit' /\ ListingIsTrue'
    BY <1>6, <1>8 DEF LocalModels
  <1>9. ASSUME NEW stage, Goes(stage), stage \in {"ask", "page"}, query.at \in {"ready", "ask"},
               stage = "page" => setting.adapter = "civitai"
        PROVE  ModelsFit' /\ ListingIsTrue'
    <2>1. query' = [query EXCEPT !.at = stage]
      BY <1>9 DEF Goes, Proceeds
    <2>2. query'.at = stage /\ query'.ids = query.ids /\ query'.page = query.page
      BY <1>2, <2>1 DEF ModelsFields
    <2>3. query.ids = <<>> /\ query.page = 1
      BY <1>1, <1>9 DEF ModelsFit
    <2>4. PagesSoFar
      BY <1>4, <2>3, FirstPage
    <2>5. PagesSoFar'
      BY <1>3, <1>5, <2>2, <2>4 DEF PagesSoFar
    <2> QED
      BY <1>3, <1>4, <1>9, <2>2, <2>3, <2>5 DEF ModelsFit, ListingIsTrue
  <1>10. CASE Ready
    <2>1. query.at = "ready"
      BY <1>10 DEF Ready
    <2> QED
      BY <1>6, <1>8, <1>9, <1>10, <2>1 DEF Ready
  <1>11. CASE OnlineModels
    <2>1. query.at = "ask"
      BY <1>11 DEF OnlineModels
    <2>2. CASE setting.adapter # "civitai" /\ Ends("live", Listed)
      BY <1>4, <1>7, <2>2, ListedIsTrue
    <2>3. CASE setting.adapter = "civitai" /\ Goes("page")
      BY <1>9, <2>1, <2>3
    <2>4. CASE LocalModels(TRUE)
      BY <1>8, <2>4
    <2> QED
      BY <1>11, <2>2, <2>3, <2>4 DEF OnlineModels
  <1>12. CASE CivitaiModels
    <2>1. query.at = "page" /\ setting.adapter = "civitai" /\ PagesSoFar
      BY <1>1, <1>12 DEF CivitaiModels, ModelsFit
    <2> DEFINE more == Len(NextIds) < query.limit /\ Len(Matching) > query.page * PageTaken
    <2>2. \/ more /\ Proceeds([query EXCEPT !.ids = NextIds, !.page = query.page + 1])
          \/ ~more /\ Ends("live", Distinct(NextIds))
          \/ LocalModels(TRUE)
      BY <1>12 DEF CivitaiModels, NextIds, PageTaken
    <2>3. CASE more /\ Proceeds([query EXCEPT !.ids = NextIds, !.page = query.page + 1])
      <3>1. query' = [query EXCEPT !.ids = NextIds, !.page = query.page + 1]
        BY <2>3 DEF Proceeds
      <3>2. query'.at = "page" /\ query'.ids = NextIds /\ query'.page = query.page + 1
        BY <1>2, <2>1, <3>1 DEF ModelsFields
      <3>3. /\ NextIds \in Seq(ToSet(Ids(Matching)))
            /\ WholePages =>
                 /\ Len(NextIds) = query.page * FullPage
                 /\ Len(NextIds) <= Len(Matching)
                 /\ Len(NextIds) + FullPage <= query.limit
                 /\ \A n \in 1..Len(NextIds) : NextIds[n] = Matching[n].id
        BY <1>4, <2>1, <2>3, PagesAreTrue
      <3>4. query'.page \in Nat \ {0} /\ query'.page - 1 = query.page
        BY <2>1, <3>2 DEF PagesSoFar
      <3>5. PagesSoFar'
        BY <1>3, <1>5, <2>3, <3>2, <3>3, <3>4 DEF PagesSoFar
      <3> QED
        BY <1>3, <1>4, <2>1, <3>2, <3>5 DEF ModelsFit, ListingIsTrue
    <2>4. CASE ~more /\ Ends("live", Distinct(NextIds))
      <3>1. TrueList(Distinct(NextIds))
        BY <1>4, <2>1, <2>4, PagesAreTrue
      <3> QED
        BY <1>7, <2>4, <3>1
    <2>5. CASE LocalModels(TRUE)
      BY <1>8, <2>5
    <2> QED
      BY <2>2, <2>3, <2>4, <2>5
  <1> QED
    BY <1>10, <1>11, <1>12

\* The list of models stays a true one with every step.
LEMMA ListingKept ==
    ASSUME QueryInv, ModelsFit, ListingIsTrue, [ConnectionsNext]_connectionVars
    PROVE  ModelsFit' /\ ListingIsTrue'
  <1>1. QueryShape
    BY DEF QueryInv
  <1>2. ASSUME query'.kind # "models"
        PROVE  ModelsFit' /\ ListingIsTrue'
    BY <1>2 DEF ModelsFit, ListingIsTrue
  <1>3. CASE Start
    <2>1. \/ query'.kind # "models"
          \/ /\ query'.kind = "models" /\ query'.at = "ready"
             /\ query'.listing \in Listing /\ query'.limit \in Limit
             /\ query'.ids = <<>> /\ query'.page = 1
      BY <1>3 DEF Start
    <2>2. ASSUME query'.kind = "models" /\ query'.at = "ready",
                 query'.listing \in Listing /\ query'.limit \in Limit,
                 query'.ids = <<>> /\ query'.page = 1
          PROVE  ModelsFit' /\ ListingIsTrue'
      BY <2>2 DEF ModelsFit, ListingIsTrue
    <2> QED
      BY <1>2, <2>1, <2>2
  <1>4. CASE Ready \/ OnlineModels \/ CivitaiModels
    BY <1>1, <1>4, ListingStep
  <1>5. CASE TestConnection
    <2>1. query.kind = "test" /\ Edits({"at", "ok"})
      BY <1>1, <1>5, TestStep
    <2>2. query'.kind = "test"
      BY <1>1, <2>1 DEF QueryShape, Edits, TestFields
    <2> QED
      BY <1>2, <2>2
  <1>6. CASE Examine \/ Probe \/ DoctorDone
    <2>1. query.kind = "doctor" /\ Edits({"at", "todo", "probes", "verdicts"})
      BY <1>1, <1>6, DoctorStep
    <2>2. query'.kind = "doctor"
      BY <1>1, <2>1 DEF QueryShape, Edits, DoctorFields
    <2> QED
      BY <1>2, <2>2
  <1>7. CASE Send \/ ReadContent \/ ReadFinal \/ StreamEnds
    <2>1. query.kind = "chat" /\ Edits({"at", "got", "answered"})
      BY <1>1, <1>7, ChatStep
    <2>2. query'.kind = "chat"
      BY <1>1, <2>1 DEF QueryShape, Edits, ChatFields
    <2> QED
      BY <1>2, <2>2
  <1>8. CASE StoreChanges \/ ServiceChanges \/ UNCHANGED connectionVars
    <2>1. UNCHANGED <<setting, query>>
      BY <1>8 DEF StoreChanges, ServiceChanges, connectionVars, conf
    <2>2. Matching' = Matching /\ FullPage' = FullPage /\ WholePages' = WholePages
      BY <2>1 DEF Matching, FullPage, WholePages
    <2>3. ModelsFit'
      BY <2>1, <2>2 DEF ModelsFit, PagesSoFar
    <2>4. ListingIsTrue'
      BY <2>1, <2>2 DEF ListingIsTrue
    <2> QED
      BY <2>3, <2>4
  <1>9. CASE Leave
    <2>1. query'.kind # "models"
      BY <1>9 DEF Leave, NoQuery
    <2> QED
      BY <1>2, <2>1
  <1> QED
    BY <1>3, <1>4, <1>5, <1>6, <1>7, <1>8, <1>9 DEF ConnectionsNext

\* providers models: a list of a service holds what was listed and asked for,
\* nothing twice, no more than the limit and no less than there is, whatever the
\* service lists and in however many pages.
THEOREM ListingsAreTrue == ConnectionsSpec => [](ModelsFit /\ ListingIsTrue)
  <1>1. ConnectionsInit => ModelsFit /\ ListingIsTrue
    BY DEF ConnectionsInit, ModelsFit, ListingIsTrue, NoQuery
  <1>2. QueryInv /\ ModelsFit /\ ListingIsTrue /\ [ConnectionsNext]_connectionVars =>
            ModelsFit' /\ ListingIsTrue'
    BY ListingKept
  <1> QED
    BY <1>1, <1>2, QueryInvariant, PTL DEF ConnectionsSpec

\* What is reported as the answer of a service came from it, and whole.
THEOREM OnlyAnswersReported == ConnectionsSpec => []OnlyWhatWasAnswered
  <1>1. ListingIsTrue /\ AnswerIsWhole => OnlyWhatWasAnswered
    BY DEF OnlyWhatWasAnswered
  <1> QED
    BY <1>1, ListingsAreTrue, AnswersWhole, PTL

-----------------------------------------------------------------------------
(* Facts about the constants and about sets of threads                     *)

\* The sets the counting arguments count are sets of threads.
LEMMA ThreadSets ==
    ASSUME NEW S \in SUBSET Thread
    PROVE  /\ IsFiniteSet(S)
           /\ Cardinality(S) \in Nat
           /\ \A t \in Thread \ S :
                 Cardinality(S \cup {t}) = Cardinality(S) + 1
           /\ \A t \in S : Cardinality(S \ {t}) = Cardinality(S) - 1
           /\ \A T \in SUBSET S : Cardinality(T) <= Cardinality(S)
  <1>1. IsFiniteSet(S)
    BY GuardrailsAssumption, FS_Subset
  <1>2. Cardinality(S) \in Nat
    BY <1>1, FS_CardinalityType
  <1>3. \A t \in Thread \ S : Cardinality(S \cup {t}) = Cardinality(S) + 1
    BY <1>1, FS_AddElement
  <1>4. \A t \in S : Cardinality(S \ {t}) = Cardinality(S) - 1
    BY <1>1, FS_RemoveElement
  <1>5. \A T \in SUBSET S : Cardinality(T) <= Cardinality(S)
    BY <1>1, FS_Subset
  <1> QED
    BY <1>1, <1>2, <1>3, <1>4, <1>5

\* The checks of a hook are limits, and the one at CountCheck of a gate
\* compares the counter of that gate with the limit of that gate.
LEMMA ChecksAreLimits ==
    /\ \A h \in DOMAIN Checks :
          /\ h \in Hook \ {"record_model_response"}
          /\ Len(Checks[h]) \in 1..5
          /\ \A i \in 1..Len(Checks[h]) : Checks[h][i] \in LimitKey
    /\ \A g \in Gate :
          /\ g \in DOMAIN Checks
          /\ CountCheck[g] \in 1..Len(Checks[g])
          /\ CountedBy[g] \in {"model_calls", "tool_calls", "retries"}
          /\ LET key == Checks[g][CountCheck[g]] IN
               /\ key \notin {"max_wall_seconds", "max_input_tokens",
                              "max_total_tokens", "max_cost_usd"}
               /\ Measured[key] = CountedBy[g]
               /\ Limits[key] = LimitOf[g]
  BY DEF Checks, Hook, Gate, LimitKey, Measured, CountCheck, CountedBy, LimitOf

\* A limit of a gate is a number or not configured.
LEMMA LimitsAreNumbers ==
    \A g \in Gate : LimitOf[g] # Nothing => LimitOf[g] \in Nat
  BY GuardrailsAssumption DEF LimitOf, Gate, LimitKey, Measured

\* The limits of a response are limits of counters.
LEMMA ResponseLimitsAreLimits ==
    \A i \in 1..4 :
        /\ ResponseLimits[i] \in LimitKey
        /\ Measured[ResponseLimits[i]] \in
              {"input_tokens", "output_tokens", "total_tokens", "cost_usd"}
  <1> SUFFICES ASSUME NEW i \in 1..4
               PROVE  /\ ResponseLimits[i] \in LimitKey
                      /\ Measured[ResponseLimits[i]] \in
                            {"input_tokens", "output_tokens", "total_tokens",
                             "cost_usd"}
    OBVIOUS
  <1>1. i = 1 \/ i = 2 \/ i = 3 \/ i = 4
    OBVIOUS
  <1> QED
    BY <1>1 DEF ResponseLimits, Measured, LimitKey

\* FirstExceeded names a limit that is exceeded, or none if there is none.
LEMMA FirstExceededIsExceeded ==
    ASSUME NEW c \in Counters
    PROVE  /\ FirstExceeded(c) \in LimitKey \cup {Nothing}
           /\ FirstExceeded(c) = Nothing =>
                 \A i \in 1..4 :
                    Limits[ResponseLimits[i]] # Nothing =>
                       c[Measured[ResponseLimits[i]]]
                          <= Limits[ResponseLimits[i]]
  <1> DEFINE over == {i \in 1..4 : /\ Limits[ResponseLimits[i]] # Nothing
                                   /\ c[Measured[ResponseLimits[i]]]
                                        > Limits[ResponseLimits[i]]}
             first == CHOOSE i \in over : \A j \in over : i <= j
  <1>1. \A i \in 1..4 : Limits[ResponseLimits[i]] # Nothing =>
           /\ Limits[ResponseLimits[i]] \in Nat
           /\ c[Measured[ResponseLimits[i]]] \in Nat
    BY GuardrailsAssumption, ResponseLimitsAreLimits DEF Counters, Counter
  <1>2. CASE over = {}
    <2>1. FirstExceeded(c) = Nothing
      BY <1>2 DEF FirstExceeded
    <2> QED
      BY <1>1, <1>2, <2>1
  <1>3. CASE over # {}
    <2>1. \E i \in over : \A j \in over : i <= j
      <3>1. over \subseteq 1..4
        OBVIOUS
      <3>2. CASE 1 \in over
        BY <3>1, <3>2
      <3>3. CASE 1 \notin over /\ 2 \in over
        BY <3>1, <3>3
      <3>4. CASE 1 \notin over /\ 2 \notin over /\ 3 \in over
        BY <3>1, <3>4
      <3>5. CASE 1 \notin over /\ 2 \notin over /\ 3 \notin over
        BY <1>3, <3>1, <3>5
      <3> HIDE DEF over
      <3> QED
        BY <3>2, <3>3, <3>4, <3>5
    <2>2. first \in over
      BY <2>1
    <2>3. FirstExceeded(c) = ResponseLimits[first]
      BY <1>3 DEF FirstExceeded
    <2>4. FirstExceeded(c) \in LimitKey
      BY <2>2, <2>3, ResponseLimitsAreLimits
    <2> QED
      BY <2>4, GuardrailsAssumption
  <1> HIDE DEF over
  <1> QED
    BY <1>2, <1>3

-----------------------------------------------------------------------------
(* The invariant                                                           *)

\* At first no hook was called.
LEMMA GuardrailsInitInv == BudgetInit => GuardrailsInv
  <1> SUFFICES ASSUME BudgetInit PROVE GuardrailsInv
    OBVIOUS
  <1>1. BudgetTypeOK
    <2>1. counters \in Counters
      BY DEF BudgetInit, Counters
    <2>2. granted \in [Gate -> Nat]
      BY DEF BudgetInit
    <2>3. begun \in 0..MaxHooks
      BY GuardrailsAssumption DEF BudgetInit
    <2>4. /\ hook \in [Thread -> Hook \cup {Nothing}]
          /\ at \in [Thread -> HookPoint]
          /\ step \in [Thread -> 1..5]
      BY DEF BudgetInit, HookPoint
    <2>5. /\ arg \in [Thread -> Estimate \cup Usage \cup {Nothing}]
          /\ reason \in [Thread -> LimitKey \cup {Nothing}]
          /\ draft \in [Thread -> Receipt \cup {Nothing}]
      BY DEF BudgetInit
    <2>6. /\ stop_reason \in LimitKey \cup {Nothing}
          /\ late \in BOOLEAN
          /\ receipt \in Receipt \cup {Nothing}
          /\ lateGrants \in Nat
          /\ overlap \in Nat
          /\ mishaps \subseteq {"rejected", "unsaved"}
      BY DEF BudgetInit
    <2> QED
      BY <2>1, <2>2, <2>3, <2>4, <2>5, <2>6 DEF BudgetTypeOK
  <1>2. FramesOK
    BY DEF BudgetInit, FramesOK, FrameOK
  <1>3. Busy = {} /\ InFlight = {}
    <2>1. Nothing # "before_model_call"
      BY GuardrailsAssumption DEF Hook, Gate
    <2> QED
      BY <2>1 DEF BudgetInit, Busy, InFlight
  <1>4. \A g \in Gate : Passed(g) = {} /\ Counted(g) = {}
    BY DEF BudgetInit, Passed, Counted
  <1>5. Cardinality({}) = 0
    BY FS_EmptySet
  <1>6. OverlapKnown /\ LateOnesKnown
    BY <1>3, <1>5 DEF BudgetInit, OverlapKnown, LateOnesKnown
  <1>7. \A g \in Gate : counters[CountedBy[g]] = 0
    BY ChecksAreLimits DEF BudgetInit, Counter
  <1>8. \A g \in Gate : LimitOf[g] # Nothing => LimitOf[g] \in Nat
    BY LimitsAreNumbers
  <1>9. overlap = 0 /\ \A g \in Gate : granted[g] = 0
    BY DEF BudgetInit
  <1>10. RoomLeft
    BY <1>4, <1>5, <1>7, <1>8, <1>9 DEF RoomLeft
  <1>11. GrantsCounted
    BY <1>4, <1>5, <1>7, <1>9 DEF GrantsCounted
  <1>12. OverageStops
    <2>1. \A i \in 1..4 : Limits[ResponseLimits[i]] # Nothing =>
             /\ Limits[ResponseLimits[i]] \in Nat
             /\ Spent(ResponseLimits[i]) = 0
      BY ResponseLimitsAreLimits, GuardrailsAssumption
         DEF BudgetInit, Spent, Counter
    <2> QED
      BY <2>1 DEF OverageStops
  <1> QED
    BY <1>1, <1>2, <1>6, <1>10, <1>11, <1>12 DEF GuardrailsInv

\* What a thread does when it calls a hook.
Called(t, h, a, location) ==
    /\ EnterHook(t, h, a, location)
    /\ h \in Hook
    /\ a \in Estimate \cup Usage \cup {Nothing}
    /\ location \in {"check", "add"}
    /\ location = "check" => h \in DOMAIN Checks
    /\ location = "add" => h = "record_model_response" /\ a \in Usage
    /\ h = "before_model_call" => a \in Estimate /\ stop_reason = Nothing

\* Every call of a hook begins in one way.
LEMMA CallsBegin ==
    ASSUME NEW t \in Thread,
           BeforeModelCall(t) \/ BeforeOther(t) \/ RecordModelResponse(t)
    PROVE  \E h, a, location : Called(t, h, a, location)
  <1>1. CASE BeforeModelCall(t)
    <2>1. PICK e \in Estimate : EnterHook(t, "before_model_call", e, "check")
      BY <1>1 DEF BeforeModelCall
    <2>2. Called(t, "before_model_call", e, "check")
      BY <1>1, <2>1 DEF BeforeModelCall, Called, Hook, Gate, Checks
    <2> QED
      BY <2>2
  <1>2. CASE BeforeOther(t)
    <2>1. PICK h \in {"before_tool_call", "record_retry",
                      "record_tool_result"} : EnterHook(t, h, Nothing, "check")
      BY <1>2 DEF BeforeOther
    <2>2. Called(t, h, Nothing, "check")
      BY <2>1 DEF Called, Hook, Gate, Checks
    <2> QED
      BY <2>2
  <1>3. CASE RecordModelResponse(t)
    <2>1. PICK u \in Usage : EnterHook(t, "record_model_response", u, "add")
      BY <1>3 DEF RecordModelResponse
    <2>2. Called(t, "record_model_response", u, "add")
      BY <2>1 DEF Called, Hook
    <2> QED
      BY <2>2
  <1> QED
    BY <1>1, <1>2, <1>3

\* A reported value is a number.
LEMMA ReportedIsNumber ==
    ASSUME NEW u \in Usage, NEW counter
    PROVE  ReportedUsage(u, counter) \in Int
  <1>1. u.input \in Int /\ u.output \in Int
    BY GuardrailsAssumption
  <1>2. u.cost # Nothing => u.cost \in Int
    BY GuardrailsAssumption
  <1>3. Rates.input \in Int /\ Rates.output \in Int
    BY GuardrailsAssumption
  <1>4. u.input * Rates.input + u.output * Rates.output \in Int
    BY <1>1, <1>3
  <1> QED
    BY <1>1, <1>2, <1>4 DEF ReportedUsage

\* Every step keeps the variables in their types.
LEMMA GuardrailsTypeStep ==
    ASSUME GuardrailsInv, [BudgetNext]_budgetVars PROVE BudgetTypeOK'
  <1>0. BudgetTypeOK /\ FramesOK
    BY DEF GuardrailsInv
  <1> USE <1>0 DEF BudgetTypeOK, MoveTo
  <1>1. ASSUME NEW t \in Thread, NEW h, NEW a, NEW location,
               Called(t, h, a, location)
        PROVE  BudgetTypeOK'
    <2>1. Cardinality(Busy) \in Nat
      BY ThreadSets DEF Busy
    <2>2. begun' \in 0..MaxHooks
      BY <1>1, GuardrailsAssumption DEF Called, EnterHook
    <2>3. overlap' \in Nat
      BY <1>1, <2>1 DEF Called, EnterHook
    <2> QED
      BY <1>1, <2>2, <2>3 DEF Called, EnterHook, HookPoint
  <1>2. ASSUME NEW t \in Thread, CheckFails(t)
        PROVE  BudgetTypeOK'
    <2>1. Checks[hook[t]][step[t]] \in LimitKey
      BY <1>2, ChecksAreLimits DEF CheckFails, FramesOK, FrameOK
    <2> QED
      BY <1>2, <2>1 DEF CheckFails, HookPoint, historyVars
  <1>3. ASSUME NEW t \in Thread, CheckPasses(t)
        PROVE  BudgetTypeOK'
    <2>1. Len(Checks[hook[t]]) \in 1..5
      BY <1>3, ChecksAreLimits DEF CheckPasses, FramesOK, FrameOK
    <2>2. step' \in [Thread -> 1..5]
      <3>1. CASE step[t] < Len(Checks[hook[t]])
        <4>1. \A n \in 1..5, k \in 1..5 : k < n => k + 1 \in 1..5
          OBVIOUS
        <4>2. step[t] \in 1..5
          OBVIOUS
        <4>3. step[t] + 1 \in 1..5
          BY <2>1, <3>1, <4>1, <4>2
        <4> QED
          BY <1>3, <3>1, <4>3 DEF CheckPasses
      <3>2. CASE ~(step[t] < Len(Checks[hook[t]]))
        BY <1>3, <3>2 DEF CheckPasses
      <3> QED
        BY <3>1, <3>2
    <2>3. at' \in [Thread -> HookPoint]
      BY <1>3 DEF CheckPasses, HookPoint, Persisting
    <2> QED
      BY <1>3, <2>2, <2>3 DEF CheckPasses, historyVars
  <1>4. ASSUME NEW t \in Thread, Count(t)
        PROVE  BudgetTypeOK'
    <2>1. CountedBy[hook[t]] \in Counter
      BY <1>4, ChecksAreLimits DEF Count, FramesOK, FrameOK, Counter
    <2>2. counters' \in Counters
      BY <1>4, <2>1 DEF Count, Counters
    <2> QED
      BY <1>4, <2>2 DEF Count, HookPoint, Persisting, historyVars
  <1>5. ASSUME NEW t \in Thread, AddValue(t)
        PROVE  BudgetTypeOK'
    <2>1. step[t] \in 1..3
      BY <1>5 DEF AddValue, FramesOK, FrameOK
    <2>2. ResponseValues[step[t]] \in Counter
      BY <2>1 DEF ResponseValues, Counter
    <2>3. ReportedUsage(arg[t], ResponseValues[step[t]]) \in Int
      BY <1>5, ReportedIsNumber DEF AddValue, FramesOK, FrameOK
    <2>4. counters' \in Counters
      BY <1>5, <2>2, <2>3 DEF AddValue, Counters
    <2>5. step' \in [Thread -> 1..5] /\ at' \in [Thread -> HookPoint]
      BY <1>5, <2>1 DEF AddValue, HookPoint
    <2> QED
      BY <1>5, <2>4, <2>5 DEF AddValue, historyVars
  <1>6. ASSUME NEW t \in Thread, Total(t)
        PROVE  BudgetTypeOK'
    <2>1. counters' \in Counters
      BY <1>6 DEF Total, Counters, Counter
    <2>2. FirstExceeded(counters') \in LimitKey \cup {Nothing}
      BY <2>1, FirstExceededIsExceeded
    <2> QED
      BY <1>6, <2>1, <2>2 DEF Total, HookPoint, Persisting, historyVars
  <1>7. ASSUME NEW t \in Thread, Stop(t)
        PROVE  BudgetTypeOK'
    BY <1>7 DEF Stop, HookPoint, Persisting, historyVars
  <1>8. ASSUME NEW t \in Thread, ReadStopReason(t)
        PROVE  BudgetTypeOK'
    <2>1. [counters |-> counters, stop_reason |-> stop_reason] \in Receipt
      BY DEF Receipt
    <2> QED
      BY <1>8, <2>1 DEF ReadStopReason, HookPoint, historyVars
  <1>9. ASSUME NEW t \in Thread, Encode(t)
        PROVE  BudgetTypeOK'
    <2>1. draft[t] \in Receipt
      BY <1>9 DEF Encode, FramesOK, FrameOK
    <2>2. draft' \in [Thread -> Receipt \cup {Nothing}]
      BY <1>9, <2>1 DEF Encode, Receipt
    <2> QED
      BY <1>9, <2>2 DEF Encode, HookPoint, historyVars
  <1>10. ASSUME NEW t \in Thread, Finish(t) \/ FinishUnsaved(t) \/ RejectValue(t)
         PROVE  BudgetTypeOK'
    <2>1. /\ hook' \in [Thread -> Hook \cup {Nothing}]
          /\ at' \in [Thread -> HookPoint]
          /\ step' \in [Thread -> 1..5]
          /\ arg' \in [Thread -> Estimate \cup Usage \cup {Nothing}]
          /\ reason' \in [Thread -> LimitKey \cup {Nothing}]
          /\ draft' \in [Thread -> Receipt \cup {Nothing}]
      BY <1>10 DEF Finish, FinishUnsaved, RejectValue, LeaveHook, HookPoint
    <2>2. receipt' \in Receipt \cup {Nothing}
      BY <1>10 DEF Finish, FinishUnsaved, RejectValue
    <2>3. granted' \in [Gate -> Nat] /\ lateGrants' \in Nat
      BY <1>10 DEF Finish, FinishUnsaved, RejectValue, Grants
    <2> QED
      BY <1>10, <2>1, <2>2, <2>3 DEF Finish, FinishUnsaved, RejectValue
  <1>11. CASE TimePasses \/ UNCHANGED budgetVars
    BY <1>11 DEF TimePasses, budgetVars, threadVars, historyVars
  <1> QED
    BY <1>1, <1>2, <1>3, <1>4, <1>5, <1>6, <1>7, <1>8, <1>9, <1>10, <1>11,
       CallsBegin DEF BudgetNext, Step

\* A thread stays where its hook can be.
LEMMA FramesStep ==
    ASSUME GuardrailsInv, [BudgetNext]_budgetVars PROVE FramesOK'
  <1>0. BudgetTypeOK /\ FramesOK
    BY DEF GuardrailsInv
  <1>1. Nothing \notin Hook /\ Nothing \notin LimitKey
    BY GuardrailsAssumption
  <1>2. SUFFICES ASSUME NEW u \in Thread PROVE FrameOK(u)'
    BY DEF FramesOK
  <1>3. FrameOK(u)
    BY <1>0 DEF FramesOK
  <1>4. ASSUME hook'[u] = hook[u], at'[u] = at[u], step'[u] = step[u],
               arg'[u] = arg[u], reason'[u] = reason[u], draft'[u] = draft[u]
        PROVE  FrameOK(u)'
    BY <1>3, <1>4 DEF FrameOK
  <1> USE <1>0 DEF BudgetTypeOK, MoveTo
  <1>5. ASSUME NEW t \in Thread, NEW h, NEW a, NEW location,
               Called(t, h, a, location)
        PROVE  FrameOK(u)'
    <2>1. CASE u = t
      <3>1. /\ hook'[t] = h /\ at'[t] = location /\ arg'[t] = a
            /\ step'[t] = step[t] /\ reason'[t] = reason[t]
        BY <1>5 DEF Called, EnterHook
      <3>2. step[t] = 1 /\ reason[t] = Nothing
        BY <1>3, <1>5, <2>1 DEF Called, EnterHook, FrameOK
      <3>3. h # Nothing
        BY <1>1, <1>5 DEF Called
      <3>4. h \in DOMAIN Checks => 1 <= Len(Checks[h])
        <4>1. h \in DOMAIN Checks => Len(Checks[h]) \in 1..5
          BY ChecksAreLimits
        <4>2. \A n \in 1..5 : 1 <= n
          OBVIOUS
        <4> QED
          BY <4>1, <4>2
      <3>5. /\ hook'[u] # Nothing /\ at'[u] \in {"check", "add"}
            /\ step'[u] = 1 /\ reason'[u] = Nothing
        BY <1>5, <2>1, <3>1, <3>2, <3>3 DEF Called
      <3>6. at'[u] = "check" =>
               /\ hook'[u] \in DOMAIN Checks
               /\ step'[u] <= Len(Checks[hook'[u]])
               /\ hook'[u] = "before_model_call" => arg'[u] \in Estimate
        BY <1>5, <2>1, <3>1, <3>4, <3>5 DEF Called
      <3>7. at'[u] = "add" =>
               /\ hook'[u] = "record_model_response"
               /\ arg'[u] \in Usage
        BY <1>5, <2>1, <3>1 DEF Called
      <3> QED
        BY <3>5, <3>6, <3>7 DEF FrameOK
    <2>2. CASE u # t
      BY <1>4, <1>5, <2>2 DEF Called, EnterHook
    <2> QED
      BY <2>1, <2>2
  <1>6. ASSUME NEW t \in Thread, CheckFails(t)
        PROVE  FrameOK(u)'
    <2>1. Checks[hook[t]][step[t]] # Nothing
      BY <1>1, <1>6, ChecksAreLimits DEF CheckFails, FramesOK, FrameOK
    <2> QED
      BY <1>3, <1>6, <2>1 DEF CheckFails, FrameOK
  <1>7. ASSUME NEW t \in Thread, CheckPasses(t)
        PROVE  FrameOK(u)'
    <2>1. CASE u # t
      BY <1>4, <1>7, <2>1 DEF CheckPasses
    <2>2. CASE u = t /\ step[t] < Len(Checks[hook[t]])
      <3>1. /\ hook' = hook /\ at' = at /\ arg' = arg /\ reason' = reason
            /\ draft' = draft /\ step'[t] = step[t] + 1 /\ at[t] = "check"
        BY <1>7, <2>2 DEF CheckPasses
      <3>2. Len(Checks[hook[t]]) \in 1..5
        BY <1>3, <2>2, <3>1, ChecksAreLimits DEF FrameOK
      <3>3. \A k \in 1..5, n \in 1..5 : k < n => k + 1 <= n
        OBVIOUS
      <3>4. step'[t] <= Len(Checks[hook[t]])
        BY <2>2, <3>1, <3>2, <3>3
      <3> QED
        BY <1>3, <2>2, <3>1, <3>4 DEF FrameOK
    <2>3. CASE u = t /\ ~(step[t] < Len(Checks[hook[t]]))
      BY <1>3, <1>7, <2>3 DEF CheckPasses, FrameOK, Persisting
    <2> QED
      BY <2>1, <2>2, <2>3
  <1>8. ASSUME NEW t \in Thread, Count(t) \/ Total(t) \/ Stop(t)
        PROVE  FrameOK(u)'
    BY <1>3, <1>8 DEF Count, Total, Stop, Persisting, FrameOK
  <1>9. ASSUME NEW t \in Thread, AddValue(t)
        PROVE  FrameOK(u)'
    <2>1. /\ UNCHANGED <<hook, arg, reason, draft>> /\ at[t] = "add"
          /\ at'[u] = at[u] \/ (u = t /\ at'[u] = "total")
          /\ step'[u] = step[u] \/ (u = t /\ step[u] < 3 /\ step'[u] = step[u] + 1)
      BY <1>9 DEF AddValue
    <2>2. CASE u # t
      BY <1>4, <2>1, <2>2
    <2>3. CASE u = t
      <3>1. step[u] \in 1..5 /\ step[u] <= 3 /\ at[u] = "add" /\ at'[u] \in {"add", "total"}
        BY <1>3, <2>1, <2>3 DEF FrameOK
      <3>2. step'[u] <= 3
        BY <2>1, <3>1
      <3> QED
        BY <1>3, <2>1, <3>1, <3>2 DEF FrameOK
    <2> QED
      BY <2>2, <2>3
  <1>10. ASSUME NEW t \in Thread, ReadStopReason(t)
         PROVE  FrameOK(u)'
    <2>1. [counters |-> counters, stop_reason |-> stop_reason] \in Receipt
      BY DEF Receipt
    <2> QED
      BY <1>3, <1>10, <2>1 DEF ReadStopReason, FrameOK
  <1>11. ASSUME NEW t \in Thread, Encode(t)
         PROVE  FrameOK(u)'
    <2>1. draft[t] \in Receipt
      BY <1>11 DEF Encode, FramesOK, FrameOK
    <2>2. [draft[t] EXCEPT !.counters = counters] \in Receipt
      BY <2>1 DEF Receipt
    <2>3. draft' = [draft EXCEPT ![t] = [draft[t] EXCEPT !.counters = counters]]
      BY <1>11 DEF Encode
    <2> QED
      BY <1>3, <1>11, <2>2, <2>3 DEF Encode, FrameOK
  <1>12. ASSUME NEW t \in Thread, Finish(t) \/ FinishUnsaved(t) \/ RejectValue(t)
         PROVE  FrameOK(u)'
    BY <1>3, <1>12 DEF Finish, FinishUnsaved, RejectValue, LeaveHook, FrameOK
  <1>13. CASE TimePasses \/ UNCHANGED budgetVars
    BY <1>4, <1>13 DEF TimePasses, budgetVars, threadVars
  <1> QED
    BY <1>5, <1>6, <1>7, <1>8, <1>9, <1>10, <1>11, <1>12, <1>13, CallsBegin
       DEF BudgetNext, Step

-----------------------------------------------------------------------------
(* The counting arguments                                                  *)

\* A thread that ends its hook leaves all the sets of threads in hooks.
EndsHook(t) == Finish(t) \/ FinishUnsaved(t) \/ RejectValue(t)

\* What a thread does inside a hook.
Inside(t) ==
    \/ CheckFails(t) \/ CheckPasses(t) \/ Count(t) \/ AddValue(t) \/ Total(t)
    \/ Stop(t) \/ ReadStopReason(t) \/ Encode(t)

\* The steps of the system, as the counting arguments take them.
LEMMA StepKinds ==
    ASSUME [BudgetNext]_budgetVars
    PROVE  \/ \E t \in Thread : \/ \E h, a, location : Called(t, h, a, location)
                                \/ Inside(t)
                                \/ EndsHook(t)
           \/ TimePasses
           \/ UNCHANGED budgetVars
  BY CallsBegin DEF BudgetNext, Step, Inside, EndsHook

\* Inside a hook a thread neither calls nor ends one.
LEMMA InsideKeepsHooks ==
    ASSUME NEW t \in Thread, Inside(t)
    PROVE  /\ hook' = hook
           /\ overlap' = overlap
           /\ granted' = granted
           /\ lateGrants' = lateGrants
           /\ mishaps' = mishaps
  BY DEF Inside, CheckFails, CheckPasses, Count, AddValue, Total, Stop,
         ReadStopReason, Encode, historyVars

\* The history of overlaps keeps up with the hooks in progress.
LEMMA OverlapStep ==
    ASSUME GuardrailsInv, [BudgetNext]_budgetVars PROVE OverlapKnown'
  <1>0. BudgetTypeOK /\ OverlapKnown
    BY DEF GuardrailsInv
  <1>1. Busy \in SUBSET Thread /\ Cardinality(Busy) \in Nat /\ overlap \in Nat
    BY <1>0, ThreadSets DEF Busy, BudgetTypeOK
  <1>2. ASSUME NEW t \in Thread, NEW h, NEW a, NEW location,
               Called(t, h, a, location)
        PROVE  OverlapKnown'
    <2>1. h # Nothing
      BY <1>2, GuardrailsAssumption DEF Called
    <2>2. hook[t] = Nothing /\ hook' = [hook EXCEPT ![t] = h]
      BY <1>2 DEF Called, EnterHook
    <2>3. t \in Thread \ Busy
      BY <2>2 DEF Busy
    <2>4. Busy' = Busy \cup {t}
      BY <1>0, <2>1, <2>2 DEF Busy, BudgetTypeOK
    <2>5. Cardinality(Busy') = Cardinality(Busy) + 1
      BY <1>1, <2>3, <2>4, ThreadSets
    <2>6. overlap' \in Nat /\ overlap' >= Cardinality(Busy)
      BY <1>1, <1>2 DEF Called, EnterHook
    <2> QED
      BY <1>1, <2>5, <2>6 DEF OverlapKnown
  <1>3. ASSUME NEW t \in Thread, EndsHook(t)
        PROVE  OverlapKnown'
    <2>1. hook' = [hook EXCEPT ![t] = Nothing] /\ overlap' = overlap
      BY <1>3 DEF EndsHook, Finish, FinishUnsaved, RejectValue, LeaveHook
    <2>2. Busy' \in SUBSET Busy
      BY <1>0, <2>1 DEF Busy, BudgetTypeOK
    <2>3. Cardinality(Busy') <= Cardinality(Busy)
      BY <1>1, <2>2, ThreadSets
    <2>4. Cardinality(Busy') \in Nat
      BY <1>1, <2>2, ThreadSets
    <2> QED
      BY <1>0, <1>1, <2>1, <2>3, <2>4 DEF OverlapKnown
  <1>4. ASSUME hook' = hook, overlap' = overlap
        PROVE  OverlapKnown'
    <2>1. Busy' = Busy
      BY <1>4 DEF Busy
    <2> QED
      BY <1>0, <1>4, <2>1 DEF OverlapKnown
  <1>5. ASSUME NEW t \in Thread, Inside(t)
        PROVE  OverlapKnown'
    BY <1>4, <1>5, InsideKeepsHooks
  <1>6. CASE TimePasses \/ UNCHANGED budgetVars
    BY <1>4, <1>6 DEF TimePasses, budgetVars, threadVars, historyVars
  <1> QED
    BY <1>2, <1>3, <1>5, <1>6, StepKinds

\* The overlaps known never get fewer.
LEMMA OverlapGrows ==
    ASSUME BudgetTypeOK, [BudgetNext]_budgetVars
    PROVE  overlap \in Nat /\ overlap' \in Nat /\ overlap <= overlap'
  <1>1. overlap \in Nat /\ Cardinality(Busy) \in Nat
    BY ThreadSets DEF BudgetTypeOK, Busy
  <1>2. ASSUME NEW t \in Thread, NEW h, NEW a, NEW location,
               Called(t, h, a, location)
        PROVE  overlap' \in Nat /\ overlap <= overlap'
    BY <1>1, <1>2 DEF Called, EnterHook
  <1>3. ASSUME NEW t \in Thread, EndsHook(t)
        PROVE  overlap' = overlap
    BY <1>3 DEF EndsHook, Finish, FinishUnsaved, RejectValue
  <1>4. ASSUME TimePasses \/ UNCHANGED budgetVars
        PROVE  overlap' = overlap
    BY <1>4 DEF TimePasses, budgetVars, historyVars
  <1>5. ASSUME NEW t \in Thread, Inside(t)
        PROVE  overlap' = overlap
    BY <1>5, InsideKeepsHooks
  <1>6. CASE overlap' = overlap
    BY <1>1, <1>6
  <1> QED
    BY <1>1, <1>2, <1>3, <1>4, <1>5, <1>6, StepKinds

\* A count adds one to the counter of its own gate only.
LEMMA CountAddsOne ==
    ASSUME GuardrailsInv, NEW g \in Gate, NEW t \in Thread, Count(t)
    PROVE  counters'[CountedBy[g]] = IF hook[t] = g
                                     THEN counters[CountedBy[g]] + 1
                                     ELSE counters[CountedBy[g]]
  <1>1. hook[t] \in Gate
    BY DEF GuardrailsInv, Count, FramesOK, FrameOK
  <1>2. CountedBy[hook[t]] = CountedBy[g] <=> hook[t] = g
    BY <1>1 DEF CountedBy, Gate
  <1>3. CountedBy[g] \in DOMAIN counters
    BY ChecksAreLimits DEF GuardrailsInv, BudgetTypeOK, Counters, Counter
  <1>4. counters' = [counters EXCEPT ![CountedBy[hook[t]]] = @ + 1]
    BY DEF Count
  <1> QED
    BY <1>2, <1>3, <1>4

\* What a step other than a count does to the counters of the gates: nothing.
LEMMA OthersAddNothing ==
    ASSUME GuardrailsInv, NEW g \in Gate, NEW t \in Thread,
           \/ EndsHook(t)
           \/ Inside(t) /\ ~Count(t)
           \/ \E h, a, location : Called(t, h, a, location)
    PROVE  counters'[CountedBy[g]] = counters[CountedBy[g]]
  <1>0. BudgetTypeOK /\ FramesOK
    BY DEF GuardrailsInv
  <1>1. CountedBy[g] \in {"model_calls", "tool_calls", "retries"}
    BY ChecksAreLimits
  <1>2. CASE AddValue(t)
    <2>1. step[t] \in 1..3
      <3>1. at[t] = "add"
        BY <1>2 DEF AddValue
      <3>2. step[t] <= 3
        BY <1>0, <3>1 DEF FramesOK, FrameOK
      <3>3. step[t] \in 1..5
        BY <1>0 DEF BudgetTypeOK
      <3> QED
        BY <3>2, <3>3
    <2>2. ResponseValues[step[t]] # CountedBy[g]
      BY <1>1, <2>1 DEF ResponseValues
    <2> QED
      BY <1>2, <2>2 DEF AddValue
  <1>3. CASE Total(t)
    BY <1>1, <1>3 DEF Total
  <1>4. CASE CheckFails(t) \/ CheckPasses(t) \/ Stop(t) \/ ReadStopReason(t)
             \/ Encode(t)
    BY <1>4 DEF CheckFails, CheckPasses, Stop, ReadStopReason, Encode
  <1>5. CASE EndsHook(t) \/ \E h, a, location : Called(t, h, a, location)
    BY <1>5 DEF EndsHook, Finish, FinishUnsaved, RejectValue, Called, EnterHook
  <1> QED
    BY <1>2, <1>3, <1>4, <1>5 DEF Inside

\* A check that passes lets its thread through only at the check of its gate.
LEMMA CheckLetsThrough ==
    ASSUME GuardrailsInv, NEW g \in Gate, NEW t \in Thread, CheckPasses(t)
    PROVE  \/ Passed(g)' \subseteq Passed(g)
           \/ /\ t \notin Passed(g)
              /\ hook[t] = g
              /\ step[t] = CountCheck[g]
              /\ Passed(g)' = Passed(g) \cup {t}
  <1>0. BudgetTypeOK /\ FramesOK
    BY DEF GuardrailsInv
  <1>1. CountCheck[g] \in 1..5 /\ CountCheck[g] <= Len(Checks[g])
    <2>1. CountCheck[g] \in 1..Len(Checks[g]) /\ Len(Checks[g]) \in 1..5
      BY ChecksAreLimits
    <2>2. \A n \in 1..5 : \A k \in 1..n : k \in 1..5 /\ k <= n
      OBVIOUS
    <2> QED
      BY <2>1, <2>2
  <1>2. hook' = hook /\ step[t] \in 1..5 /\ at[t] = "check"
    BY <1>0 DEF CheckPasses, BudgetTypeOK
  <1>3. \A u \in Thread \ {t} : at'[u] = at[u] /\ step'[u] = step[u]
    BY <1>0 DEF CheckPasses, MoveTo, BudgetTypeOK
  <1>4. step'[t] \in {step[t], step[t] + 1}
    BY <1>0 DEF CheckPasses, BudgetTypeOK
  <1>5. CASE hook[t] # g
    BY <1>2, <1>3, <1>5 DEF Passed
  <1>6. CASE hook[t] = g /\ step[t] > CountCheck[g]
    BY <1>2, <1>3, <1>6 DEF Passed
  <1>7. CASE hook[t] = g /\ step[t] < CountCheck[g]
    <2>1. \A k \in 1..5, c \in 1..5 : k < c => ~(k + 1 > c) /\ ~(k > c)
      OBVIOUS
    <2>2. ~(step'[t] > CountCheck[g])
      BY <1>1, <1>2, <1>4, <1>7, <2>1
    <2>3. step[t] < Len(Checks[hook[t]])
      <3>1. Len(Checks[g]) \in 1..5
        BY ChecksAreLimits
      <3>2. \A k, c, n \in 1..5 : k < c /\ c <= n => k < n
        OBVIOUS
      <3> QED
        BY <1>1, <1>2, <1>7, <3>1, <3>2
    <2>4. at' = at
      BY <2>3 DEF CheckPasses
    <2>5. t \notin Passed(g)'
      BY <1>2, <2>2, <2>4 DEF Passed
    <2> QED
      BY <1>2, <1>3, <2>5 DEF Passed
  <1>8. CASE hook[t] = g /\ step[t] = CountCheck[g]
    <2>1. t \notin Passed(g)
      BY <1>1, <1>2, <1>8 DEF Passed
    <2>2. t \in Passed(g)'
      <3>1. CASE step[t] < Len(Checks[hook[t]])
        <4>1. step'[t] = step[t] + 1 /\ at' = at
          BY <1>0, <3>1 DEF CheckPasses, BudgetTypeOK
        <4>2. step'[t] > CountCheck[g]
          BY <1>1, <1>8, <4>1
        <4> QED
          BY <1>2, <1>8, <4>1, <4>2 DEF Passed
      <3>2. CASE ~(step[t] < Len(Checks[hook[t]]))
        <4>1. at'[t] = "count"
          BY <1>0, <1>8, <3>2 DEF CheckPasses, MoveTo, BudgetTypeOK
        <4> QED
          BY <1>2, <1>8, <4>1 DEF Passed
      <3> QED
        BY <3>1, <3>2
    <2>3. Passed(g)' = Passed(g) \cup {t}
      BY <1>2, <1>3, <2>2 DEF Passed
    <2> QED
      BY <1>8, <2>1, <2>3
  <1>9. step[t] < CountCheck[g] \/ step[t] = CountCheck[g]
        \/ step[t] > CountCheck[g]
    BY <1>1, <1>2
  <1> QED
    BY <1>5, <1>6, <1>7, <1>8, <1>9

\* No other step lets a thread through, and a count takes its thread out.
LEMMA OthersLetNobodyThrough ==
    ASSUME GuardrailsInv, NEW g \in Gate, NEW t \in Thread,
           \/ EndsHook(t)
           \/ Inside(t) /\ ~Count(t) /\ ~CheckPasses(t)
           \/ \E h, a, location : Called(t, h, a, location)
    PROVE  Passed(g)' \subseteq Passed(g)
  <1>0. BudgetTypeOK /\ FramesOK
    BY DEF GuardrailsInv
  <1>1. CASE \/ CheckFails(t) \/ AddValue(t) \/ Total(t) \/ Stop(t)
             \/ ReadStopReason(t) \/ Encode(t)
    BY <1>0, <1>1 DEF CheckFails, AddValue, Total, Stop, ReadStopReason,
                      Encode, Passed, MoveTo, BudgetTypeOK, Persisting
  <1>2. CASE EndsHook(t)
    BY <1>0, <1>2 DEF EndsHook, Finish, FinishUnsaved, RejectValue, LeaveHook,
                      Passed, MoveTo, BudgetTypeOK
  <1>3. ASSUME NEW h, NEW a, NEW location, Called(t, h, a, location)
        PROVE  Passed(g)' \subseteq Passed(g)
    <2>1. step[t] = 1 /\ step' = step
      BY <1>0, <1>3 DEF Called, EnterHook, FramesOK, FrameOK
    <2>2. CountCheck[g] = 1 \/ CountCheck[g] = 2
      BY DEF CountCheck, Gate
    <2>3. ~(step'[t] > CountCheck[g])
      BY <2>1, <2>2
    <2>4. at' = [at EXCEPT ![t] = location] /\ location \in {"check", "add"}
          /\ \A u \in Thread \ {t} : hook'[u] = hook[u]
      BY <1>0, <1>3 DEF Called, EnterHook, MoveTo, BudgetTypeOK
    <2> QED
      BY <1>0, <2>1, <2>3, <2>4 DEF Passed, BudgetTypeOK
  <1> QED
    BY <1>1, <1>2, <1>3 DEF Inside

\* A thread that counts was let through, and is not any more.
LEMMA CountTakesOut ==
    ASSUME GuardrailsInv, NEW g \in Gate, NEW t \in Thread, Count(t)
    PROVE  /\ hook[t] = g => t \in Passed(g) /\ Passed(g)' = Passed(g) \ {t}
           /\ hook[t] # g => Passed(g)' = Passed(g)
  BY DEF GuardrailsInv, Count, Passed, MoveTo, BudgetTypeOK, Persisting

\* The counters of the gates are numbers.
LEMMA GateCountersAreNumbers ==
    ASSUME BudgetTypeOK, NEW g \in Gate
    PROVE  counters[CountedBy[g]] \in Nat
  BY ChecksAreLimits DEF BudgetTypeOK, Counters, Counter

\* Where a check finds room, the threads let through are among the hooks that
\* overlap; from there on a call that is counted was let through before.
LEMMA RoomStep ==
    ASSUME GuardrailsInv, [BudgetNext]_budgetVars PROVE RoomLeft'
  <1>0. BudgetTypeOK /\ FramesOK /\ RoomLeft /\ BudgetTypeOK' /\ OverlapKnown'
    BY GuardrailsTypeStep, OverlapStep DEF GuardrailsInv
  <1> SUFFICES ASSUME NEW g \in Gate, LimitOf[g] # Nothing
               PROVE  counters'[CountedBy[g]] + Cardinality(Passed(g)')
                         <= LimitOf[g] + overlap'
    BY DEF RoomLeft
  <1> DEFINE c == CountedBy[g]
             Goal == counters'[c] + Cardinality(Passed(g)')
                        <= LimitOf[g] + overlap'
  <1>1. /\ LimitOf[g] \in Nat
        /\ counters[c] \in Nat
        /\ overlap \in Nat /\ overlap' \in Nat /\ overlap <= overlap'
    BY <1>0, LimitsAreNumbers, GateCountersAreNumbers, OverlapGrows
  <1>2. /\ Passed(g) \in SUBSET Thread
        /\ Passed(g)' \in SUBSET Thread
        /\ Cardinality(Passed(g)) \in Nat
        /\ Cardinality(Passed(g)') \in Nat
    BY ThreadSets DEF Passed
  <1>3. counters[c] + Cardinality(Passed(g)) <= LimitOf[g] + overlap
    BY <1>0 DEF RoomLeft
  <1>4. ASSUME counters'[c] = counters[c], Passed(g)' \subseteq Passed(g)
        PROVE  Goal
    <2>1. Cardinality(Passed(g)') <= Cardinality(Passed(g))
      BY <1>2, <1>4, ThreadSets
    <2> HIDE DEF c
    <2> QED
      BY <1>1, <1>2, <1>3, <1>4, <2>1
  <1>5. ASSUME NEW t \in Thread, Count(t)
        PROVE  Goal
    <2>1. CASE hook[t] = g
      <3>1. counters'[c] = counters[c] + 1
        BY <1>5, <2>1, CountAddsOne
      <3>2. Cardinality(Passed(g)') = Cardinality(Passed(g)) - 1
        BY <1>2, <1>5, <2>1, CountTakesOut, ThreadSets
      <3> HIDE DEF c
      <3> QED
        BY <1>1, <1>2, <1>3, <3>1, <3>2
    <2>2. CASE hook[t] # g
      BY <1>4, <1>5, <2>2, CountAddsOne, CountTakesOut
    <2> QED
      BY <2>1, <2>2
  <1>6. ASSUME NEW t \in Thread, CheckPasses(t)
        PROVE  Goal
    <2>1. counters'[c] = counters[c]
      BY <1>6 DEF CheckPasses
    <2>2. CASE Passed(g)' \subseteq Passed(g)
      BY <1>4, <2>1, <2>2
    <2>3. CASE ~(Passed(g)' \subseteq Passed(g))
      <3>1. hook[t] = g /\ step[t] = CountCheck[g]
        BY <1>6, <2>3, CheckLetsThrough
      <3>2. counters[c] + 1 <= LimitOf[g]
        <4>1. ~Exceeds(t, Checks[g][CountCheck[g]])
          BY <1>6, <3>1 DEF CheckPasses
        <4>2. Demand(t, Checks[g][CountCheck[g]]) = 1
          BY ChecksAreLimits DEF Demand
        <4>3. ~(counters[c] + 1 > LimitOf[g])
          BY <4>1, <4>2, ChecksAreLimits DEF Exceeds
        <4> HIDE DEF c
        <4> QED
          BY <1>1, <4>3
      <3>3. Passed(g)' \in SUBSET Busy'
        BY GuardrailsAssumption DEF Passed, Busy, Hook
      <3>4. Cardinality(Passed(g)') <= Cardinality(Busy')
        BY <3>3, ThreadSets DEF Busy
      <3>5. Cardinality(Busy') \in Nat /\ Cardinality(Busy') <= overlap' + 1
        BY <1>0, ThreadSets DEF Busy, OverlapKnown
      <3> HIDE DEF c
      <3> QED
        BY <1>1, <1>2, <2>1, <3>2, <3>4, <3>5
    <2> QED
      BY <2>2, <2>3
  <1>7. ASSUME NEW t \in Thread,
               \/ EndsHook(t)
               \/ Inside(t) /\ ~Count(t) /\ ~CheckPasses(t)
               \/ \E h, a, location : Called(t, h, a, location)
        PROVE  Goal
    BY <1>4, <1>7, OthersAddNothing, OthersLetNobodyThrough
  <1>8. CASE TimePasses \/ UNCHANGED budgetVars
    <2>1. counters' = counters /\ Passed(g)' = Passed(g)
      BY <1>8 DEF TimePasses, budgetVars, threadVars, Passed
    <2> QED
      BY <1>4, <2>1
  <1> QED
    BY <1>5, <1>6, <1>7, <1>8, StepKinds

\* A call joins the counted ones when it is counted, and no other way.
LEMMA CountedStep ==
    ASSUME GuardrailsInv, NEW g \in Gate, NEW t \in Thread,
           \/ Inside(t)
           \/ EndsHook(t)
           \/ \E h, a, location : Called(t, h, a, location)
    PROVE  \/ Counted(g)' \subseteq Counted(g)
           \/ /\ Count(t)
              /\ hook[t] = g
              /\ t \notin Counted(g)
              /\ Counted(g)' = Counted(g) \cup {t}
  <1>0. BudgetTypeOK /\ FramesOK
    BY DEF GuardrailsInv
  <1>1. CASE Count(t)
    BY <1>0, <1>1 DEF Count, Counted, MoveTo, BudgetTypeOK, Persisting, FramesOK,
                      FrameOK
  <1>2. CASE CheckFails(t) \/ AddValue(t)
    BY <1>0, <1>2 DEF CheckFails, AddValue, Counted, MoveTo, BudgetTypeOK
  <1>3. CASE CheckPasses(t)
    <2>1. hook' = hook /\ reason' = reason
      BY <1>3 DEF CheckPasses
    <2>2. \A u \in Thread \ {t} : at'[u] = at[u]
      BY <1>0, <1>3 DEF CheckPasses, MoveTo, BudgetTypeOK
    <2>3. hook[t] \in Gate => at'[t] \in {"check", "count"}
      BY <1>0, <1>3 DEF CheckPasses, MoveTo, BudgetTypeOK
    <2> QED
      BY <2>1, <2>2, <2>3 DEF Counted
  <1>4. CASE Total(t)
    <2>1. hook' = hook /\ hook[t] \notin Gate
      BY <1>0, <1>4 DEF Total, FramesOK, FrameOK, Gate
    <2>2. \A u \in Thread \ {t} : at'[u] = at[u] /\ reason'[u] = reason[u]
      BY <1>0, <1>4 DEF Total, MoveTo, BudgetTypeOK
    <2> QED
      BY <2>1, <2>2 DEF Counted
  <1>5. CASE Stop(t)
    <2>1. hook' = hook /\ reason' = reason /\ reason[t] # Nothing
      BY <1>0, <1>5 DEF Stop, FramesOK, FrameOK
    <2>2. \A u \in Thread \ {t} : at'[u] = at[u]
      BY <1>0, <1>5 DEF Stop, MoveTo, BudgetTypeOK
    <2> QED
      BY <2>1, <2>2 DEF Counted
  <1>6. CASE ReadStopReason(t) \/ Encode(t)
    BY <1>0, <1>6 DEF ReadStopReason, Encode, Counted, MoveTo, BudgetTypeOK
  <1>7. CASE EndsHook(t)
    BY <1>0, <1>7 DEF EndsHook, Finish, FinishUnsaved, RejectValue, LeaveHook,
                      Counted, MoveTo, BudgetTypeOK
  <1>8. ASSUME NEW h, NEW a, NEW location, Called(t, h, a, location)
        PROVE  Counted(g)' \subseteq Counted(g)
    <2>1. /\ at' = [at EXCEPT ![t] = location]
          /\ location \in {"check", "add"}
          /\ hook' = [hook EXCEPT ![t] = h]
          /\ reason' = reason
      BY <1>8 DEF Called, EnterHook, MoveTo
    <2> QED
      BY <1>0, <2>1 DEF Counted, BudgetTypeOK
  <1> QED
    BY <1>1, <1>2, <1>3, <1>4, <1>5, <1>6, <1>7, <1>8 DEF Inside

\* A grant takes its thread out of the counted ones.
LEMMA GrantStep ==
    ASSUME GuardrailsInv, NEW g \in Gate, NEW t \in Thread, EndsHook(t)
    PROVE  \/ granted'[g] = granted[g]
           \/ /\ granted'[g] = granted[g] + 1
              /\ t \in Counted(g)
              /\ Counted(g)' = Counted(g) \ {t}
  <1>0. BudgetTypeOK
    BY DEF GuardrailsInv
  <1>1. CASE Finish(t) /\ Grants(t) /\ hook[t] = g
    <2>1. granted'[g] = granted[g] + 1
      BY <1>0, <1>1 DEF Finish, BudgetTypeOK
    <2>2. t \in Counted(g)
      BY <1>1 DEF Finish, Grants, Counted
    <2>3. Counted(g)' = Counted(g) \ {t}
      BY <1>0, <1>1 DEF Finish, LeaveHook, MoveTo, Counted, BudgetTypeOK
    <2> QED
      BY <2>1, <2>2, <2>3
  <1>2. CASE Finish(t) /\ ~(Grants(t) /\ hook[t] = g)
    BY <1>0, <1>2 DEF Finish, BudgetTypeOK
  <1>3. CASE FinishUnsaved(t) \/ RejectValue(t)
    BY <1>3 DEF FinishUnsaved, RejectValue
  <1> QED
    BY <1>1, <1>2, <1>3 DEF EndsHook

\* What is granted was counted first.
LEMMA GrantsCountedStep ==
    ASSUME GuardrailsInv, [BudgetNext]_budgetVars PROVE GrantsCounted'
  <1>0. BudgetTypeOK /\ GrantsCounted
    BY DEF GuardrailsInv
  <1> SUFFICES ASSUME NEW g \in Gate
               PROVE  granted'[g] + Cardinality(Counted(g)')
                         <= counters'[CountedBy[g]]
    BY DEF GrantsCounted
  <1> DEFINE Goal == granted'[g] + Cardinality(Counted(g)')
                        <= counters'[CountedBy[g]]
  <1>1. /\ granted[g] \in Nat
        /\ counters[CountedBy[g]] \in Nat
        /\ Counted(g) \in SUBSET Thread
        /\ Counted(g)' \in SUBSET Thread
        /\ Cardinality(Counted(g)) \in Nat
        /\ Cardinality(Counted(g)') \in Nat
    BY <1>0, GateCountersAreNumbers, ThreadSets DEF BudgetTypeOK, Counted
  <1>2. granted[g] + Cardinality(Counted(g)) <= counters[CountedBy[g]]
    BY <1>0 DEF GrantsCounted
  <1>3. ASSUME granted'[g] = granted[g], Counted(g)' \subseteq Counted(g),
               \/ counters'[CountedBy[g]] = counters[CountedBy[g]]
               \/ counters'[CountedBy[g]] = counters[CountedBy[g]] + 1
        PROVE  Goal
    <2>1. Cardinality(Counted(g)') <= Cardinality(Counted(g))
      BY <1>1, <1>3, ThreadSets
    <2> QED
      BY <1>1, <1>2, <1>3, <2>1
  <1>4. ASSUME NEW t \in Thread, Count(t)
        PROVE  Goal
    <2>1. granted' = granted
      BY <1>4 DEF Count, historyVars
    <2>2. CASE Counted(g)' \subseteq Counted(g)
      BY <1>3, <1>4, <2>1, <2>2, CountAddsOne
    <2>3. CASE ~(Counted(g)' \subseteq Counted(g))
      <3>1. /\ hook[t] = g /\ t \notin Counted(g)
            /\ Counted(g)' = Counted(g) \cup {t}
        BY <1>4, <2>3, CountedStep DEF Inside
      <3>2. Cardinality(Counted(g)') = Cardinality(Counted(g)) + 1
        BY <1>1, <3>1, ThreadSets
      <3>3. counters'[CountedBy[g]] = counters[CountedBy[g]] + 1
        BY <1>4, <3>1, CountAddsOne
      <3> QED
        BY <1>1, <1>2, <2>1, <3>2, <3>3
    <2> QED
      BY <2>2, <2>3
  <1>5. ASSUME NEW t \in Thread,
               \/ Inside(t) /\ ~Count(t)
               \/ \E h, a, location : Called(t, h, a, location)
        PROVE  Goal
    <2>1. granted' = granted
      BY <1>5, InsideKeepsHooks DEF Called, EnterHook
    <2>2. counters'[CountedBy[g]] = counters[CountedBy[g]]
      BY <1>5, OthersAddNothing
    <2>3. Counted(g)' \subseteq Counted(g)
      <3>1. ~Count(t)
        BY <1>5 DEF Called, EnterHook, Count, MoveTo, GuardrailsInv, BudgetTypeOK
      <3> QED
        BY <1>5, <3>1, CountedStep
    <2> QED
      BY <1>3, <2>1, <2>2, <2>3
  <1>6. ASSUME NEW t \in Thread, EndsHook(t)
        PROVE  Goal
    <2>1. counters'[CountedBy[g]] = counters[CountedBy[g]]
      BY <1>6, OthersAddNothing
    <2>2. CASE granted'[g] = granted[g]
      <3>1. ~Count(t)
        BY <1>6 DEF EndsHook, Finish, FinishUnsaved, RejectValue, Count
      <3>2. Counted(g)' \subseteq Counted(g)
        BY <1>6, <3>1, CountedStep
      <3> QED
        BY <1>3, <2>1, <2>2, <3>2
    <2>3. CASE granted'[g] # granted[g]
      <3>1. /\ granted'[g] = granted[g] + 1
            /\ t \in Counted(g)
            /\ Counted(g)' = Counted(g) \ {t}
        BY <1>6, <2>3, GrantStep
      <3>2. Cardinality(Counted(g)') = Cardinality(Counted(g)) - 1
        BY <1>1, <3>1, ThreadSets
      <3> QED
        BY <1>1, <1>2, <2>1, <3>1, <3>2
    <2> QED
      BY <2>2, <2>3
  <1>7. CASE TimePasses \/ UNCHANGED budgetVars
    <2>1. counters' = counters /\ Counted(g)' = Counted(g) /\ granted' = granted
      BY <1>7 DEF TimePasses, budgetVars, threadVars, historyVars, Counted
    <2> QED
      BY <1>3, <2>1
  <1> QED
    BY <1>4, <1>5, <1>6, <1>7, StepKinds

\* Only Stop sets the stop reason, and it sets one.
LEMMA StopReasonStep ==
    ASSUME GuardrailsInv, [BudgetNext]_budgetVars
    PROVE  \/ stop_reason' = stop_reason
           \/ \E t \in Thread : Stop(t) /\ stop_reason' # Nothing
  <1>1. ASSUME NEW t \in Thread,
               \/ CheckFails(t) \/ CheckPasses(t) \/ Count(t) \/ AddValue(t)
               \/ Total(t) \/ ReadStopReason(t) \/ Encode(t)
               \/ EndsHook(t) \/ \E h, a, location : Called(t, h, a, location)
        PROVE  stop_reason' = stop_reason
    BY <1>1 DEF CheckFails, CheckPasses, Count, AddValue, Total,
                ReadStopReason, Encode, EndsHook, Finish, FinishUnsaved,
                RejectValue, Called, EnterHook
  <1>2. ASSUME NEW t \in Thread, Stop(t)
        PROVE  stop_reason' # Nothing
    BY <1>2 DEF Stop, GuardrailsInv, FramesOK, FrameOK
  <1>3. CASE TimePasses \/ UNCHANGED budgetVars
    BY <1>3 DEF TimePasses, budgetVars
  <1> QED
    BY <1>1, <1>2, <1>3, StepKinds DEF Inside

\* Once a run is stopped, every late grant was in flight at the stop, next to
\* the hook that found the limit exceeded.
LEMMA LateOnesStep ==
    ASSUME GuardrailsInv, [BudgetNext]_budgetVars PROVE LateOnesKnown'
  <1>0. BudgetTypeOK /\ FramesOK /\ OverlapKnown /\ LateOnesKnown
    BY DEF GuardrailsInv
  <1>1. /\ InFlight \in SUBSET Thread
        /\ InFlight' \in SUBSET Thread
        /\ Cardinality(InFlight) \in Nat
        /\ Cardinality(InFlight') \in Nat
        /\ lateGrants \in Nat
        /\ overlap \in Nat /\ overlap' \in Nat /\ overlap <= overlap'
    BY <1>0, ThreadSets, OverlapGrows DEF InFlight, BudgetTypeOK
  <1>2. Nothing \notin Hook
    BY GuardrailsAssumption
  <1>3. ASSUME stop_reason' = stop_reason, lateGrants' = lateGrants,
               stop_reason # Nothing => InFlight' \subseteq InFlight
        PROVE  LateOnesKnown'
    <2>1. CASE stop_reason = Nothing
      BY <1>0, <1>3, <2>1 DEF LateOnesKnown
    <2>2. CASE stop_reason # Nothing
      <3>1. Cardinality(InFlight') <= Cardinality(InFlight)
        BY <1>1, <1>3, <2>2, ThreadSets
      <3>2. lateGrants + Cardinality(InFlight) <= overlap
        BY <1>0, <2>2 DEF LateOnesKnown
      <3>3. lateGrants' + Cardinality(InFlight') <= overlap'
        BY <1>1, <1>3, <3>1, <3>2
      <3> QED
        BY <1>3, <2>2, <3>3 DEF LateOnesKnown
    <2> QED
      BY <2>1, <2>2
  <1>4. ASSUME NEW t \in Thread, Stop(t)
        PROVE  LateOnesKnown'
    <2>1. /\ InFlight' = InFlight /\ lateGrants' = lateGrants
          /\ overlap' = overlap /\ stop_reason' # Nothing /\ reason[t] # Nothing
      BY <1>0, <1>4 DEF Stop, InFlight, historyVars, FramesOK, FrameOK
    <2>2. t \in Busy
      BY <1>0, <1>4 DEF Stop, Busy, FramesOK, FrameOK
    <2>3. InFlight \in SUBSET (Busy \ {t})
      BY <1>2, <2>1 DEF InFlight, Busy, Hook, Gate
    <2>4. /\ Cardinality(Busy) \in Nat
          /\ Cardinality(Busy \ {t}) = Cardinality(Busy) - 1
      BY <2>2, ThreadSets DEF Busy
    <2>5. Busy \ {t} \in SUBSET Thread
      BY DEF Busy
    <2>6. Cardinality(InFlight) <= Cardinality(Busy \ {t})
      BY <2>3, <2>5, ThreadSets
    <2>7. Cardinality(InFlight) <= overlap
      BY <1>0, <1>1, <2>4, <2>6 DEF OverlapKnown
    <2>8. CASE stop_reason = Nothing
      <3>1. lateGrants = 0
        BY <1>0, <2>8 DEF LateOnesKnown
      <3>2. lateGrants + Cardinality(InFlight) <= overlap
        BY <1>1, <2>7, <3>1
      <3> QED
        BY <2>1, <3>2 DEF LateOnesKnown
    <2>9. CASE stop_reason # Nothing
      BY <1>0, <2>1, <2>9 DEF LateOnesKnown
    <2> QED
      BY <2>8, <2>9
  <1>5. ASSUME NEW t \in Thread, Inside(t), ~Stop(t)
        PROVE  LateOnesKnown'
    <2>1. stop_reason' = stop_reason
      BY <1>5 DEF Inside, CheckFails, CheckPasses, Count, AddValue, Total,
                  ReadStopReason, Encode
    <2>2. hook' = hook /\ lateGrants' = lateGrants
      BY <1>5, InsideKeepsHooks
    <2>3. \A u \in Thread : reason'[u] = Nothing => reason[u] = Nothing
      <3>1. CASE CheckFails(t) \/ Total(t)
        <4>1. reason[t] = Nothing
          BY <1>0, <3>1 DEF CheckFails, Total, FramesOK, FrameOK
        <4>2. \A u \in Thread \ {t} : reason'[u] = reason[u]
          BY <1>0, <3>1 DEF CheckFails, Total, BudgetTypeOK
        <4> QED
          BY <4>1, <4>2
      <3>2. CASE ~(CheckFails(t) \/ Total(t))
        BY <1>5, <3>2 DEF Inside, CheckPasses, Count, AddValue,
                          ReadStopReason, Encode
      <3> QED
        BY <3>1, <3>2
    <2>4. InFlight' \subseteq InFlight
      BY <2>2, <2>3 DEF InFlight
    <2> QED
      BY <1>3, <2>1, <2>2, <2>4
  <1>6. ASSUME NEW t \in Thread, NEW h, NEW a, NEW location,
               Called(t, h, a, location)
        PROVE  LateOnesKnown'
    <2>1. stop_reason' = stop_reason /\ lateGrants' = lateGrants
      BY <1>6 DEF Called, EnterHook
    <2>2. stop_reason # Nothing => InFlight' \subseteq InFlight
      <3>1. /\ hook' = [hook EXCEPT ![t] = h]
            /\ reason' = reason
            /\ stop_reason # Nothing => h # "before_model_call"
        BY <1>6 DEF Called, EnterHook
      <3> QED
        BY <1>0, <3>1 DEF InFlight, BudgetTypeOK
    <2> QED
      BY <1>3, <2>1, <2>2
  <1>7. ASSUME NEW t \in Thread, EndsHook(t)
        PROVE  LateOnesKnown'
    <2>1. /\ stop_reason' = stop_reason
          /\ overlap' = overlap
          /\ hook' = [hook EXCEPT ![t] = Nothing]
          /\ reason' = [reason EXCEPT ![t] = Nothing]
      BY <1>7 DEF EndsHook, Finish, FinishUnsaved, RejectValue, LeaveHook
    <2>2. InFlight' = InFlight \ {t}
      BY <1>0, <1>2, <2>1 DEF InFlight, BudgetTypeOK, Hook, Gate
    <2>3. CASE lateGrants' = lateGrants
      BY <1>3, <2>1, <2>2, <2>3
    <2>4. CASE lateGrants' # lateGrants
      <3>1. /\ lateGrants' = lateGrants + 1
            /\ stop_reason # Nothing
            /\ t \in InFlight
        BY <1>7, <2>4 DEF EndsHook, Finish, FinishUnsaved, RejectValue,
                          Grants, InFlight
      <3>2. Cardinality(InFlight') = Cardinality(InFlight) - 1
        BY <1>1, <2>2, <3>1, ThreadSets
      <3>3. lateGrants + Cardinality(InFlight) <= overlap
        BY <1>0, <3>1 DEF LateOnesKnown
      <3>4. lateGrants' + Cardinality(InFlight') <= overlap'
        BY <1>1, <2>1, <3>1, <3>2, <3>3
      <3> QED
        BY <2>1, <3>1, <3>4 DEF LateOnesKnown
    <2> QED
      BY <2>3, <2>4
  <1>8. CASE TimePasses \/ UNCHANGED budgetVars
    <2>1. /\ InFlight' = InFlight /\ lateGrants' = lateGrants
          /\ stop_reason' = stop_reason
      BY <1>8 DEF TimePasses, budgetVars, threadVars, historyVars, InFlight
    <2> QED
      BY <1>3, <2>1
  <1> QED
    BY <1>4, <1>5, <1>6, <1>7, <1>8, StepKinds

-----------------------------------------------------------------------------
(* The stop that follows an overage                                        *)

\* What was spent against the limits of a response, as Total sees it.
LEMMA TotalSeesSpent ==
    ASSUME GuardrailsInv, NEW t \in Thread, Total(t), NEW i \in 1..4,
           Limits[ResponseLimits[i]] # Nothing,
           Spent(ResponseLimits[i])' > Limits[ResponseLimits[i]]
    PROVE  at'[t] = "stop"
  <1> DEFINE key == ResponseLimits[i]
  <1>0. BudgetTypeOK
    BY DEF GuardrailsInv
  <1>1. counters' \in Counters
    BY <1>0 DEF Total, BudgetTypeOK, Counters, Counter
  <1>2. counters'["total_tokens"]
           = counters'["input_tokens"] + counters'["output_tokens"]
    BY <1>0 DEF Total, BudgetTypeOK, Counters, Counter
  <1>3. Spent(key)' = counters'[Measured[key]]
    BY <1>2 DEF Spent, Measured
  <1>4. Limits[key] \in Nat /\ counters'[Measured[key]] \in Nat
    BY <1>1, GuardrailsAssumption, ResponseLimitsAreLimits
       DEF Counters, Counter
  <1>5. FirstExceeded(counters') # Nothing
    <2>1. CASE FirstExceeded(counters') = Nothing
      <3>1. counters'[Measured[key]] <= Limits[key]
        BY <1>1, <2>1, FirstExceededIsExceeded
      <3> QED
        BY <1>3, <1>4, <3>1
    <2> QED
      BY <2>1
  <1>6. reason'[t] # Nothing
    BY <1>0, <1>5 DEF Total, BudgetTypeOK
  <1> QED
    BY <1>0, <1>6 DEF Total, MoveTo, BudgetTypeOK

\* What is spent against a response limit changes only where a response is
\* recorded.
LEMMA SpentStep ==
    ASSUME GuardrailsInv, [BudgetNext]_budgetVars, NEW i \in 1..4,
           ~\E t \in Thread : AddValue(t) \/ Total(t)
    PROVE  Spent(ResponseLimits[i])' = Spent(ResponseLimits[i])
  <1> DEFINE C == {"input_tokens", "output_tokens", "total_tokens", "cost_usd"}
  <1>0. BudgetTypeOK /\ FramesOK
    BY DEF GuardrailsInv
  <1>1. ASSUME \A c \in C : counters'[c] = counters[c]
        PROVE  Spent(ResponseLimits[i])' = Spent(ResponseLimits[i])
    BY <1>1, ResponseLimitsAreLimits DEF Spent
  <1>2. ASSUME NEW t \in Thread, Count(t)
        PROVE  \A c \in C : counters'[c] = counters[c]
    <2>1. hook[t] \in Gate
      BY <1>0, <1>2 DEF Count, FramesOK, FrameOK
    <2>2. CountedBy[hook[t]] \notin C
      BY <2>1, ChecksAreLimits
    <2>3. counters' = [counters EXCEPT ![CountedBy[hook[t]]] = @ + 1]
      BY <1>2 DEF Count
    <2> QED
      BY <2>2, <2>3
  <1>3. ASSUME NEW t \in Thread,
               \/ CheckFails(t) \/ CheckPasses(t) \/ Stop(t)
               \/ ReadStopReason(t) \/ Encode(t) \/ EndsHook(t)
               \/ \E h, a, location : Called(t, h, a, location)
        PROVE  counters' = counters
    BY <1>3 DEF CheckFails, CheckPasses, Stop, ReadStopReason, Encode,
                EndsHook, Finish, FinishUnsaved, RejectValue, Called, EnterHook
  <1>4. ASSUME TimePasses \/ UNCHANGED budgetVars
        PROVE  counters' = counters
    BY <1>4 DEF TimePasses, budgetVars
  <1> QED
    BY <1>1, <1>2, <1>3, <1>4, StepKinds DEF Inside

\* A thread leaves the recording of a response through a total, which goes to
\* the stop when there is an overage, through a rejection, or through a stop.
LEMMA RecordingEnds ==
    ASSUME GuardrailsInv, [BudgetNext]_budgetVars, NEW u \in Thread,
           at[u] \in {"add", "total", "stop"},
           at'[u] \notin {"add", "total", "stop"}
    PROVE  Total(u) \/ Stop(u) \/ "rejected" \in mishaps'
  <1>0. BudgetTypeOK /\ FramesOK
    BY DEF GuardrailsInv
  <1>1. ASSUME NEW t \in Thread, Inside(t)
        PROVE  Total(u) \/ Stop(u)
    <2>1. \A v \in Thread \ {t} : at'[v] = at[v]
      BY <1>0, <1>1 DEF Inside, CheckFails, CheckPasses, Count, AddValue,
                        Total, Stop, ReadStopReason, Encode, MoveTo, BudgetTypeOK
    <2>2. u = t
      BY <2>1
    <2>3. ~AddValue(t)
      BY <1>0, <2>2 DEF AddValue, MoveTo, BudgetTypeOK
    <2> QED
      BY <1>1, <2>2, <2>3 DEF Inside, CheckFails, CheckPasses, Count,
                              ReadStopReason, Encode
  <1>2. ASSUME NEW t \in Thread, EndsHook(t)
        PROVE  "rejected" \in mishaps'
    <2>1. at' = [at EXCEPT ![t] = "idle"]
      BY <1>2 DEF EndsHook, Finish, FinishUnsaved, RejectValue, LeaveHook, MoveTo
    <2>2. u = t
      BY <1>0, <2>1 DEF BudgetTypeOK
    <2>3. RejectValue(t)
      BY <1>2, <2>2 DEF EndsHook, Finish, FinishUnsaved
    <2> QED
      BY <2>3 DEF RejectValue
  <1>3. ASSUME NEW t \in Thread, NEW h, NEW a, NEW location,
               Called(t, h, a, location)
        PROVE  FALSE
    <2>1. hook[t] = Nothing /\ at' = [at EXCEPT ![t] = location]
      BY <1>3 DEF Called, EnterHook, MoveTo
    <2>2. at[t] = "idle"
      BY <1>0, <2>1 DEF FramesOK, FrameOK
    <2> QED
      BY <1>0, <2>1, <2>2 DEF BudgetTypeOK
  <1>4. CASE TimePasses \/ UNCHANGED budgetVars
    BY <1>4 DEF TimePasses, budgetVars, threadVars
  <1> QED
    BY <1>1, <1>2, <1>3, <1>4, StepKinds

\* A rejection is not forgotten.
LEMMA MishapsStay ==
    ASSUME [BudgetNext]_budgetVars PROVE mishaps \subseteq mishaps'
  <1>1. ASSUME NEW t \in Thread,
               EndsHook(t) \/ \E h, a, location : Called(t, h, a, location)
        PROVE  mishaps \subseteq mishaps'
    BY <1>1 DEF EndsHook, Finish, FinishUnsaved, RejectValue, Called, EnterHook
  <1>2. CASE TimePasses \/ UNCHANGED budgetVars
    BY <1>2 DEF TimePasses, budgetVars, historyVars
  <1> QED
    BY <1>1, <1>2, InsideKeepsHooks, StepKinds

\* An overage that nobody is recording any more has stopped the run.
LEMMA OverageStep ==
    ASSUME GuardrailsInv, [BudgetNext]_budgetVars PROVE OverageStops'
  <1>0. BudgetTypeOK /\ OverageStops
    BY DEF GuardrailsInv
  <1> SUFFICES ASSUME \A t \in Thread : at'[t] \notin {"add", "total", "stop"},
                      NEW i \in 1..4,
                      Limits[ResponseLimits[i]] # Nothing,
                      Spent(ResponseLimits[i])' > Limits[ResponseLimits[i]],
                      "rejected" \notin mishaps'
               PROVE  stop_reason' # Nothing
    BY DEF OverageStops
  <1>1. CASE stop_reason # Nothing
    BY <1>1, StopReasonStep
  <1>2. CASE \E t \in Thread : AddValue(t) \/ Total(t)
    <2>1. PICK t \in Thread : AddValue(t) \/ Total(t)
      BY <1>2
    <2>2. CASE Total(t)
      BY <2>2, TotalSeesSpent
    <2>3. CASE AddValue(t)
      BY <1>0, <2>3 DEF AddValue, MoveTo, BudgetTypeOK
    <2> QED
      BY <2>1, <2>2, <2>3
  <1>3. CASE stop_reason = Nothing /\ ~\E t \in Thread : AddValue(t) \/ Total(t)
    <2>1. Spent(ResponseLimits[i]) > Limits[ResponseLimits[i]]
      BY <1>3, SpentStep
    <2>2. "rejected" \notin mishaps
      BY MishapsStay
    <2>3. PICK u \in Thread : at[u] \in {"add", "total", "stop"}
      BY <1>0, <1>3, <2>1, <2>2 DEF OverageStops
    <2>4. Stop(u)
      BY <1>3, <2>3, RecordingEnds
    <2> QED
      BY <2>4 DEF GuardrailsInv, Stop, FramesOK, FrameOK
  <1> QED
    BY <1>1, <1>2, <1>3

-----------------------------------------------------------------------------
(* The theorems                                                            *)

\* GuardrailsInv holds in every reachable state.
THEOREM GuardrailsInvariant == BudgetSpec => []GuardrailsInv
  <1>1. GuardrailsInv /\ [BudgetNext]_budgetVars => GuardrailsInv'
    BY GuardrailsTypeStep, FramesStep, OverlapStep, RoomStep,
       GrantsCountedStep, LateOnesStep, OverageStep
       DEF GuardrailsInv
  <1> QED
    BY <1>1, GuardrailsInitInv, PTL DEF BudgetSpec

\* The hooks of agent_guardrails.py let through no more calls than the limit
\* and one for each hook that overlapped.
THEOREM GrantsAreBounded == BudgetSpec => []GrantsWithinLimits
  <1>1. GuardrailsInv => GrantsWithinLimits
    <2> SUFFICES ASSUME GuardrailsInv, NEW g \in Gate, LimitOf[g] # Nothing
                 PROVE  granted[g] <= LimitOf[g] + overlap
      BY DEF GrantsWithinLimits
    <2>1. /\ granted[g] \in Nat
          /\ overlap \in Nat
          /\ counters[CountedBy[g]] \in Nat
      BY GateCountersAreNumbers DEF GuardrailsInv, BudgetTypeOK
    <2>2. /\ LimitOf[g] \in Nat
          /\ Cardinality(Passed(g)) \in Nat
          /\ Cardinality(Counted(g)) \in Nat
      BY LimitsAreNumbers, ThreadSets DEF Passed, Counted
    <2>3. counters[CountedBy[g]] + Cardinality(Passed(g))
             <= LimitOf[g] + overlap
      BY DEF GuardrailsInv, RoomLeft
    <2>4. granted[g] + Cardinality(Counted(g)) <= counters[CountedBy[g]]
      BY DEF GuardrailsInv, GrantsCounted
    <2> QED
      BY <2>1, <2>2, <2>3, <2>4
  <1> QED
    BY <1>1, GuardrailsInvariant, PTL

\* Model calls let through after the stop were in progress at the stop.
THEOREM LateGrantsAreBounded == BudgetSpec => []LateGrantsBounded
  <1>1. GuardrailsInv => LateGrantsBounded
    <2> SUFFICES ASSUME GuardrailsInv PROVE lateGrants <= overlap
      BY DEF LateGrantsBounded
    <2>1. /\ lateGrants \in Nat
          /\ overlap \in Nat
          /\ Cardinality(InFlight) \in Nat
      BY ThreadSets DEF GuardrailsInv, BudgetTypeOK, InFlight
    <2> QED
      BY <2>1 DEF GuardrailsInv, LateOnesKnown
  <1> QED
    BY <1>1, GuardrailsInvariant, PTL

\* Hooks that a single thread calls never pass a limit and never let a model
\* call through after the stop.
THEOREM SerialHooksAreExact ==
    BudgetSpec => [](overlap = 0 =>
                 /\ \A g \in Gate : LimitOf[g] # Nothing => granted[g] <= LimitOf[g]
                 /\ lateGrants = 0)
  <1>1. GuardrailsInv /\ GrantsWithinLimits /\ LateGrantsBounded =>
          (overlap = 0 =>
             /\ \A g \in Gate : LimitOf[g] # Nothing => granted[g] <= LimitOf[g]
             /\ lateGrants = 0)
    <2> SUFFICES ASSUME GuardrailsInv, GrantsWithinLimits, LateGrantsBounded,
                        overlap = 0
                 PROVE  /\ \A g \in Gate : LimitOf[g] # Nothing =>
                              granted[g] <= LimitOf[g]
                        /\ lateGrants = 0
      OBVIOUS
    <2>1. lateGrants \in Nat
      BY DEF GuardrailsInv, BudgetTypeOK
    <2>2. lateGrants = 0
      BY <2>1 DEF LateGrantsBounded
    <2>3. ASSUME NEW g \in Gate, LimitOf[g] # Nothing
          PROVE  granted[g] <= LimitOf[g]
      BY <2>3, LimitsAreNumbers DEF GrantsWithinLimits
    <2> QED
      BY <2>2, <2>3
  <1> QED
    BY <1>1, GuardrailsInvariant, GrantsAreBounded, LateGrantsAreBounded, PTL

\* record_model_response stops the run at an overage, unless it rejected a
\* value half way.
THEOREM OverageStopsTheRun == BudgetSpec => []OverageStops
  <1>1. GuardrailsInv => OverageStops
    BY DEF GuardrailsInv
  <1> QED
    BY <1>1, GuardrailsInvariant, PTL
=============================================================================
