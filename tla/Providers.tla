----------------------------- MODULE Providers -----------------------------
(***************************************************************************)
(* The catalog providers of a profile: a list of defaults and a list of    *)
(* the user's additions and overrides, each in a file of its own with an   *)
(* older name that is still read, and a built-in list.  The commands       *)
(* enable, disable, add, remove, init-defaults, update-defaults and clear. *)
(*                                                                         *)
(* A command reads, decides and replaces one file atomically; clear removes *)
(* up to four files one by one.  It may die at any point.  One command runs *)
(* at a time: nothing is locked, and of two that overlap the later write    *)
(* wins.                                                                    *)
(***************************************************************************)
EXTENDS Sequences, FiniteSets

CONSTANTS
    Provider,
    BuiltIn,   \* the providers of the built-in list
    Missing    \* no file

ASSUME ProvidersAssumption == BuiltIn \subseteq Provider /\ Provider # {}

File == {"defaults", "legacyDefaults", "user", "legacyUser"}

\* A row: def tells where the definition of the provider comes from ("none"
\* for an override, which has only flags), on that it is enabled.
Row == [def : {"absent", "none", "builtin", "own"}, on : BOOLEAN, removed : BOOLEAN]
Absent == [def |-> "absent", on |-> FALSE, removed |-> FALSE]
Table == [Provider -> Row]
Empty == [p \in Provider |-> Absent]

ASSUME MissingAssumption == Missing \notin Table

VARIABLES
    file,      \* [File -> the table in it, or Missing]
    job,       \* the command
    gone,      \* ghost: providers removed and not brought back since
    cleared    \* ghost: the defaults were cleared and not touched since

vars == <<file, job, gone, cleared>>

Kind == {"enable", "disable", "add", "remove", "enable all", "disable all",
         "init", "overwrite", "update", "clear embedded", "clear user", "clear all"}
Overrides == {"enable", "disable", "add", "remove"}

Job == [at : {"idle", "read", "write", "unlink"}, kind : Kind,
        name : Provider, table : Table, todo : Seq(File)]

TypeOK ==
    /\ file \in [File -> Table \cup {Missing}]
    /\ job \in Job
    /\ cleared \in BOOLEAN
    /\ gone \subseteq Provider

Exists(f) == file[f] # Missing

-----------------------------------------------------------------------------
(* What is read.                                                           *)

Defaults == [p \in Provider |->
    IF p \in BuiltIn THEN [def |-> "builtin", on |-> TRUE, removed |-> FALSE] ELSE Absent]

\* The built-in list stands in while there is no file at all.
DefaultConfig ==
    IF Exists("defaults") THEN file["defaults"]
    ELSE IF Exists("legacyDefaults") THEN file["legacyDefaults"]
    ELSE IF ~Exists("user") /\ ~Exists("legacyUser") THEN Defaults
    ELSE Empty

UserConfig ==
    IF Exists("user") THEN file["user"]
    ELSE IF Exists("legacyUser") THEN file["legacyUser"]
    ELSE Empty

\* The user's row is laid over the default one, key by key.
ModelProviders ==
    [p \in Provider |->
        LET u == UserConfig[p]  d == DefaultConfig[p] IN
        IF u.def = "absent" THEN d
        ELSE IF u.def = "none" /\ d.def # "absent" THEN [u EXCEPT !.def = d.def]
        ELSE u]

Known(p) == ModelProviders[p].def # "absent"
Listed(p) == Known(p) /\ ~ModelProviders[p].removed

-----------------------------------------------------------------------------

\* An old table as a user may have left it; the new one of the template may
\* have been edited too.
OldTables(def) ==
    {Missing} \cup {[Empty EXCEPT ![p] = [def |-> def, on |-> FALSE, removed |-> FALSE]] : p \in BuiltIn}

NoJob == [at |-> "idle", kind |-> "init", name |-> CHOOSE p \in Provider : TRUE,
          table |-> Empty, todo |-> <<>>]

Init ==
    /\ \E d \in {Missing, Defaults} \cup {[Defaults EXCEPT ![p].on = FALSE] : p \in BuiltIn},
          ld \in OldTables("builtin"), lu \in OldTables("none") :
          file = [f \in File |-> CASE f = "defaults" -> d
                                   [] f = "legacyDefaults" -> ld
                                   [] f = "legacyUser" -> lu
                                   [] OTHER -> Missing]
    /\ job = NoJob
    /\ gone = {}
    /\ cleared = FALSE

Begin(kind, name) ==
    /\ job.at = "idle"
    /\ job' = [NoJob EXCEPT !.at = "read", !.kind = kind, !.name = name]
    /\ UNCHANGED <<file, gone, cleared>>

Reads(kinds) == job.at = "read" /\ job.kind \in kinds

Done == job' = NoJob

WillWrite(table) == job' = [job EXCEPT !.at = "write", !.table = table]

\* The flags of a row; an override of a provider without a row has no
\* definition of its own.
Flag(r, on, removed) ==
    [def |-> IF r.def = "absent" THEN "none" ELSE r.def, on |-> on, removed |-> removed]

\* A removed provider is found too.
SetEnabledRemoved ==
    /\ Reads({"enable", "disable"})
    /\ LET p == job.name  u == UserConfig IN
       IF Known(p)
       THEN WillWrite([u EXCEPT ![p] = Flag(@, job.kind = "enable", FALSE)])
       ELSE Done
    /\ UNCHANGED <<file, gone, cleared>>

\* A command stops with an error when the provider is not known, or hidden.
SetEnabled ==
    /\ Reads({"enable", "disable"})
    /\ LET p == job.name  u == UserConfig IN
       IF Listed(p)
       THEN WillWrite([u EXCEPT ![p] = Flag(@, job.kind = "enable", FALSE)])
       ELSE Done
    /\ UNCHANGED <<file, gone, cleared>>

SetAllEnabled ==
    /\ Reads({"enable all", "disable all"})
    /\ WillWrite([p \in Provider |->
         IF Known(p) THEN Flag(UserConfig[p], job.kind = "enable all", FALSE)
                     ELSE UserConfig[p]])
    /\ UNCHANGED <<file, gone, cleared>>

Add ==
    /\ Reads({"add"})
    /\ \E on \in BOOLEAN :
          WillWrite([UserConfig EXCEPT ![job.name] =
                          [def |-> "own", on |-> on, removed |-> FALSE]])
    /\ UNCHANGED <<file, gone, cleared>>

RemoveProvider ==
    /\ Reads({"remove"})
    /\ LET p == job.name  u == UserConfig IN
       IF Known(p) THEN WillWrite([u EXCEPT ![p] = Flag(@, FALSE, TRUE)]) ELSE Done
    /\ UNCHANGED <<file, gone, cleared>>

InitDefaults ==
    /\ Reads({"init", "overwrite"})
    /\ IF job.kind = "init" /\ Exists("defaults") THEN Done
       ELSE WillWrite(Defaults)
    /\ UNCHANGED <<file, gone, cleared>>

\* Only a provider the built-in list has stays, with its old enabled flag.
UpdateDefaults ==
    LET existing == IF Exists("defaults") THEN file["defaults"] ELSE Empty IN
    /\ Reads({"update"})
    /\ WillWrite([p \in Provider |->
         IF p \in BuiltIn /\ existing[p].def # "absent"
         THEN [Defaults[p] EXCEPT !.on = existing[p].on] ELSE Defaults[p]])
    /\ UNCHANGED <<file, gone, cleared>>

Write ==
    LET kind == job.kind
        defaults == kind \in {"init", "overwrite", "update"}
    IN
    /\ job.at = "write"
    /\ file' = [file EXCEPT ![IF defaults THEN "defaults" ELSE "user"] = job.table]
    /\ gone' = CASE kind = "remove" -> gone \cup {job.name}
                 [] kind = "add" -> gone \ {job.name}
                 [] kind \in {"enable all", "disable all"} -> {}
                 [] OTHER -> gone
    /\ cleared' = (cleared /\ ~defaults)
    /\ Done

\* The order in which a clear removes files.
Files(kind) ==
    CASE kind = "clear embedded" -> <<"defaults", "legacyDefaults">>
      [] kind = "clear user" -> <<"user", "legacyUser">>
      [] OTHER -> <<"defaults", "legacyDefaults", "user", "legacyUser">>

EnterClear ==
    /\ Reads({"clear embedded", "clear user", "clear all"})
    /\ job' = [job EXCEPT !.at = "unlink", !.todo = Files(job.kind)]
    /\ gone' = IF job.kind = "clear embedded" THEN gone ELSE {}
    /\ cleared' = (cleared /\ job.kind = "clear user")
    /\ UNCHANGED file

Unlink ==
    /\ job.at = "unlink" /\ job.todo # <<>>
    /\ file' = [file EXCEPT ![Head(job.todo)] = Missing]
    /\ job' = [job EXCEPT !.todo = Tail(@)]
    /\ UNCHANGED <<gone, cleared>>

\* An empty defaults file is left: it keeps the built-in list away.
ClearDone ==
    LET embedded == job.kind # "clear user" IN
    /\ job.at = "unlink" /\ job.todo = <<>>
    /\ file' = IF embedded THEN [file EXCEPT !["defaults"] = Empty] ELSE file
    /\ cleared' = (cleared \/ embedded)
    /\ Done
    /\ UNCHANGED gone

Dies ==
    /\ job.at # "idle"
    /\ Done
    /\ UNCHANGED <<file, gone, cleared>>

Runs ==
    \/ SetEnabled \/ SetAllEnabled \/ Add \/ RemoveProvider
    \/ InitDefaults \/ UpdateDefaults \/ Write
    \/ EnterClear \/ Unlink \/ ClearDone

Next ==
    \/ \E kind \in Kind, name \in Provider :
          /\ kind \notin Overrides => name = NoJob.name
          /\ Begin(kind, name)
    \/ Runs \/ Dies

Spec == Init /\ [][Next]_vars

-----------------------------------------------------------------------------
(* Properties.                                                             *)

\* remove: a removed provider stays hidden over every other command until it is
\* added again, all are enabled or disabled, or the user's list is cleared.
RemovedStaysRemoved == \A p \in gone : ~Listed(p)

\* clear: once the defaults are cleared no built-in definition is listed until
\* init-defaults or update-defaults writes them, whatever the user adds, removes
\* or clears, and wherever a command dies.
MarkerSuppresses == cleared => \A p \in Provider : ModelProviders[p].def # "builtin"
=============================================================================
