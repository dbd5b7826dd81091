------------------------------ MODULE Quickstart ------------------------------
(***************************************************************************)
(* quickstart local-coding, and profiles bootstrap-local, which is its     *)
(* first part: make the profile unless it is there, load it, select the    *)
(* closest hardware template, refresh the discovered models, pull a model, *)
(* and answer with one status and one next action.  With --dry-run every   *)
(* nested command is asked for its preview.                                *)
(*                                                                         *)
(* What the nested commands do in themselves is in Profiles, ModelCatalog, *)
(* Runtime and LocalDoctor; here each is one step that may fail, and the   *)
(* process may be killed between any two.                                  *)
(***************************************************************************)
EXTENDS Naturals, Sequences, FiniteSets

CONSTANTS
    ConfigFile,  \* files of a profile
    Asks,        \* the flags the commands are given, see QsFlag
    MaxChanges   \* bound on what changes between two commands

\* pull is the alias of --pull-model: one that is known and self-managed, one
\* that is a managed service's, one that is unknown, or none.
QsFlag == [whole : BOOLEAN, dry : BOOLEAN, overwrite : BOOLEAN, discovery : BOOLEAN,
           closest : BOOLEAN, disableNew : BOOLEAN,
           pull : {"none", "own", "managed", "unknown"}]

ASSUME AsksAssumption == Asks \subseteq QsFlag /\ MaxChanges \in Nat

Absent == "absent"

VARIABLES
    dir,       \* [there, files] of the profile's directory
    curated,   \* aliases of models.yaml: "none", "disabled" or "enabled"
    found,     \* the same of models.discovered.yaml
    hardware,  \* the selected template: "template" or "closest"
    weights,   \* the model of --pull-model is on the host
    ollama,    \* the program is on the PATH
    phase,     \* where the command is, or "idle"
    ask,       \* the flags of the command that runs or ran last
    before,    \* the profile and the weights when it began
    answer,    \* what the last command answered
    changes

profile == <<dir, curated, found, hardware>>
qsVars == <<profile, weights, ollama, phase, ask, before, answer, changes>>

NoAnswer == [status |-> "none", next |-> "none"]
Whole == dir.there /\ dir.files = ConfigFile
SomeEnabled == curated = "enabled" \/ found = "enabled"

End(status, next) ==
    phase' = "idle" /\ answer' = [status |-> status, next |-> next]

(***************************************************************************)
(* bootstrap: the profile                                                  *)
(***************************************************************************)
BeginRun(q) ==
    /\ phase = "idle"
    /\ phase' = "create" /\ ask' = q
    /\ before' = <<profile, weights>> /\ answer' = NoAnswer
    /\ UNCHANGED <<profile, weights, ollama, changes>>

\* A preview reports on the profile that is there, also with --overwrite.
Creates == ~ask.dry /\ (ask.overwrite \/ ~dir.there)

Create ==
    /\ phase = "create"
    /\ phase' = IF Creates THEN (IF dir.there THEN "remove" ELSE "copy") ELSE "load"
    /\ UNCHANGED <<profile, weights, ollama, ask, before, answer, changes>>

\* rmtree: the files one after the other, then the directory.
RemoveOld ==
    /\ phase = "remove"
    /\ \/ \E f \in dir.files :
             /\ dir' = [dir EXCEPT !.files = @ \ {f}] /\ UNCHANGED phase
       \/ dir.files = {} /\ dir' = [there |-> FALSE, files |-> {}] /\ phase' = "copy"
    /\ curated' = "none" /\ found' = "none" /\ hardware' = "template"
    /\ UNCHANGED <<weights, ollama, ask, before, answer, changes>>

\* copytree: the directory, then the files; the template has no aliases.
CopyTemplate ==
    /\ phase = "copy"
    /\ \/ ~dir.there /\ dir' = [there |-> TRUE, files |-> {}] /\ UNCHANGED phase
       \/ dir.there /\ \E f \in ConfigFile \ dir.files :
             dir' = [dir EXCEPT !.files = @ \cup {f}] /\ UNCHANGED phase
       \/ Whole /\ phase' = "load" /\ UNCHANGED dir
    /\ curated' = "none" /\ found' = "none" /\ hardware' = "template"
    /\ UNCHANGED <<weights, ollama, ask, before, answer, changes>>

(***************************************************************************)
(* bootstrap: hardware and discovery                                       *)
(***************************************************************************)
\* A file that is missing ends the command; without a profile the rest is
\* skipped.
Load ==
    /\ phase = "load"
    /\ IF Whole THEN phase' = "hardware" /\ UNCHANGED answer
       ELSE IF dir.there THEN End("error", "none")
       ELSE phase' = "status" /\ UNCHANGED answer
    /\ UNCHANGED <<profile, weights, ollama, ask, before, changes>>

\* matched: some template is close to what was discovered.
SelectHardware(matched) ==
    /\ phase = "hardware"
    /\ hardware' = IF ask.closest /\ matched /\ ~ask.dry THEN "closest" ELSE hardware
    /\ phase' = "discovery"
    /\ UNCHANGED <<dir, curated, found, weights, ollama, ask, before, answer, changes>>

\* What models.discovered.yaml may have after a refresh: rows keep their flag,
\* rows that are no longer listed go, new ones get the flag that was asked for.
RefreshResults == {"none", found, IF ask.disableNew THEN "disabled" ELSE "enabled"}

\* A bug: the refresh of a preview writes.
RefreshedAlways(result) == IF ask.discovery THEN result ELSE found

Refreshed(result) == IF ask.discovery /\ ~ask.dry THEN result ELSE found

\* The refresh of a named provider may fail, and ends the command.
Discover(result, failed) ==
    /\ phase = "discovery"
    /\ result \in RefreshResults /\ (failed => ask.discovery)
    /\ IF failed THEN End("error", "none") /\ UNCHANGED found
       ELSE /\ found' = Refreshed(result)
            /\ phase' = IF ask.whole THEN "pull" ELSE "status"
            /\ UNCHANGED answer
    /\ UNCHANGED <<dir, curated, hardware, weights, ollama, ask, before, changes>>

(***************************************************************************)
(* quickstart: the pull and the answer                                     *)
(***************************************************************************)
\* An alias the catalog does not have ends the command; one of a managed
\* service, and a helper that fails, do not.
PullModel(ok) ==
    /\ phase = "pull"
    /\ IF ask.pull = "unknown" THEN End("error", "none") ELSE phase' = "status" /\ UNCHANGED answer
    /\ weights' = (weights \/ (ask.pull = "own" /\ ok /\ ~ask.dry))
    /\ UNCHANGED <<profile, ollama, ask, before, changes>>

\* One status, and one command to go on with.
Readiness ==
    CASE ~dir.there -> [status |-> "profile_required", next |-> "quickstart"]
      [] dir.there /\ SomeEnabled -> [status |-> "ready_to_export", next |-> "export"]
      [] OTHER -> [status |-> "model_required",
                   next |-> IF ollama THEN "models refresh" ELSE "runtimes install --dry-run"]

\* bootstrap-local ends here with what it did and what it skipped.
Answer ==
    /\ phase = "status"
    /\ IF ask.whole THEN End(Readiness.status, Readiness.next) ELSE End("bootstrapped", "none")
    /\ UNCHANGED <<profile, weights, ollama, ask, before, changes>>

(***************************************************************************)
(* Around the commands; the profile does not change while one runs         *)
(***************************************************************************)
Killed ==
    /\ phase # "idle" /\ End("killed", "none")
    /\ UNCHANGED <<profile, weights, ollama, ask, before, changes>>

\* The user edits the aliases, loses a file or installs Ollama.
Change ==
    /\ phase = "idle" /\ changes < MaxChanges
    /\ changes' = changes + 1 /\ answer' = NoAnswer
    /\ \/ Whole /\ curated' \in {"none", "disabled", "enabled"} /\ UNCHANGED <<dir, ollama>>
       \/ \E f \in dir.files : dir' = [dir EXCEPT !.files = @ \ {f}] /\ UNCHANGED <<curated, ollama>>
       \/ ollama' = TRUE /\ UNCHANGED <<dir, curated>>
    /\ UNCHANGED <<found, hardware, weights, phase, ask, before>>

QsInit ==
    /\ dir \in {[there |-> FALSE, files |-> {}], [there |-> TRUE, files |-> ConfigFile]}
    /\ curated \in (IF dir.there THEN {"none", "disabled", "enabled"} ELSE {"none"})
    /\ found = "none" /\ hardware = "template" /\ weights = FALSE /\ ollama = FALSE
    /\ phase = "idle" /\ ask \in Asks /\ before = <<profile, weights>> /\ answer = NoAnswer /\ changes = 0

QsNext ==
    \/ \E q \in Asks : BeginRun(q)
    \/ Create \/ RemoveOld \/ CopyTemplate \/ Load \/ Answer
    \/ \E b \in BOOLEAN : SelectHardware(b) \/ PullModel(b)
    \/ \E result \in {"none", "disabled", "enabled"}, failed \in BOOLEAN : Discover(result, failed)
    \/ Killed \/ Change

\* At every moment of a preview, and after one that was killed or failed, the
\* profile and the weights are as they were; and the status a quickstart ends
\* with is what the disk says: a profile is required only when there is none,
\* which only a preview leaves so, and "ready to export" stands for a whole
\* profile with an alias that is enabled.
QuickstartTellsTheTruth ==
    /\ (phase # "idle" \/ answer # NoAnswer) /\ ask.dry => before = <<profile, weights>>
    /\ answer.status = "profile_required" => ask.dry /\ ~dir.there
    /\ answer.status \in {"model_required", "ready_to_export"} =>
          Whole /\ (SomeEnabled <=> answer.status = "ready_to_export")
=============================================================================
