------------------------------ MODULE Profiles ------------------------------
(***************************************************************************)
(* The directories of the profiles root and the commands that create,      *)
(* remove, repair, archive, restore, import, load and save profiles.  Each *)
(* command is a process of its own; several run on one root at a time.     *)
(*                                                                         *)
(* create, remove and repair work on the profile's directory file by file  *)
(* and take no lock.  restore and import fill a directory of their own in  *)
(* the root and rename it; restore locks the destination, import one file  *)
(* for all imports.  Whoever saves a setting has loaded the profile before *)
(* and writes one file, making the directory if need be.                   *)
(*                                                                         *)
(* A command that is refused before its first effect is not a step.        *)
(***************************************************************************)
EXTENDS FiniteSets

CONSTANTS
    Name,       \* profile names
    Command,    \* commands; also the place of a command's staging directory
    Required,   \* CONFIG_FILES
    Optional,   \* the portable files a profile may lack
    Drafted,    \* the files an import rewrites
    Absent,     \* no such directory, no such archive
    Missing     \* no such file

File == Required \cup Optional

ASSUME ProfilesAssumption ==
    /\ Drafted \subseteq Required
    /\ Name \cap Command = {}

VARIABLES
    dir,       \* [Name \cup Command -> Directory or Absent]
    archive,   \* Directory or Absent: the document archives are written to
    job,       \* [Command -> Job]: the command and how far it is
    robbed     \* commands under which a file or directory was deleted

vars == <<dir, archive, job, robbed>>

Version == {"template", "edited", "imported"}

Directory == [File -> Version \cup {Missing}]

ASSUME NothingAssumption == Missing \notin Version /\ Absent \notin Directory

Empty == [f \in File |-> Missing]

Present(d) == IF d = Absent THEN {} ELSE {f \in File : d[f] # Missing}

Whole(d) == Required \subseteq Present(d)

Kind == {"create", "remove", "repair", "save", "archive", "restore", "import"}

Ended == {"done", "failed", "crashed"}

Location == {"idle", "list", "clear", "make", "copy", "test", "write", "read",
             "lock", "stage", "rename", "cleanup"} \cup Ended

Job == [kind : Kind \cup {"none"}, name : Name, over : BOOLEAN,
        at : Location, asked : SUBSET File, todo : SUBSET File,
        got : Directory, bad : BOOLEAN]

TypeOK ==
    /\ dir \in [Name \cup Command -> Directory \cup {Absent}]
    /\ archive \in Directory \cup {Absent}
    /\ job \in [Command -> Job]
    /\ robbed \subseteq Command

Uniform(v) == [f \in File |-> v]

Init ==
    /\ \E d \in [Name -> {Absent, Uniform("edited")}] :
          dir = [p \in Name \cup Command |-> IF p \in Name THEN d[p] ELSE Absent]
    /\ archive \in {Absent, Uniform("edited")}
    /\ \E n \in Name :
          job = [c \in Command |->
                   [kind |-> "none", name |-> n, over |-> FALSE, at |-> "idle",
                    asked |-> {}, todo |-> {}, got |-> Empty, bad |-> FALSE]]
    /\ robbed = {}

Active(c) == job[c].at \notin {"idle"} \cup Ended

Goto(c, location) ==
    job' = [job EXCEPT ![c] =
              IF location \in Ended
              THEN [@ EXCEPT !.at = location, !.asked = {}, !.todo = {},
                             !.got = Empty, !.bad = FALSE, !.over = FALSE]
              ELSE [@ EXCEPT !.at = location]]

\* What c does is done to the profile itself, or to c's staging directory.
Place(c) == IF job[c].kind = "import" THEN c ELSE job[c].name

Target(c) == dir[job[c].name]

Begin(c, kind, n, over, location, todo, got) ==
    /\ job[c].at = "idle"
    /\ job' = [job EXCEPT ![c] =
                 [kind |-> kind, name |-> n, over |-> over, at |-> location,
                  asked |-> todo, todo |-> todo, got |-> got, bad |-> FALSE]]

\* The commands other than c that are at work on c's profile.
Others(c) == {d \in Command \ {c} : Active(d) /\ job[d].name = job[c].name}

-----------------------------------------------------------------------------
(* create and remove: rmtree and copytree.                                 *)

StartCreate(c, n, over) ==
    /\ dir[n] = Absent \/ over
    /\ Begin(c, "create", n, over,
             IF dir[n] = Absent THEN "make" ELSE "list", {}, Empty)
    /\ UNCHANGED <<dir, archive, robbed>>

StartRemove(c, n) ==
    /\ dir[n] # Absent
    /\ Begin(c, "remove", n, FALSE, "list", {}, Empty)
    /\ UNCHANGED <<dir, archive, robbed>>

\* rmtree lists the directory first.
List(c) ==
    /\ job[c].at = "list"
    /\ IF Target(c) = Absent
       THEN Goto(c, "failed")
       ELSE job' = [job EXCEPT ![c].at = "clear", ![c].todo = Present(Target(c))]
    /\ UNCHANGED <<dir, archive, robbed>>

\* A listed file that is gone by now is an error.
Unlink(c) ==
    /\ job[c].at = "clear"
    /\ \E f \in job[c].todo :
          IF f \in Present(Target(c))
          THEN /\ dir' = [dir EXCEPT ![job[c].name][f] = Missing]
               /\ job' = [job EXCEPT ![c].todo = @ \ {f}]
               /\ robbed' = robbed \cup Others(c)
          ELSE Goto(c, "failed") /\ UNCHANGED <<dir, robbed>>
    /\ UNCHANGED archive

\* Mutant of Rmdir: rmtree with ignore_errors.
RmdirQuietly(c) ==
    /\ job[c].at = "clear"
    /\ job[c].todo = {}
    /\ dir' = IF Target(c) = Empty THEN [dir EXCEPT ![job[c].name] = Absent]
                                   ELSE dir
    /\ Goto(c, IF job[c].kind = "create" THEN "make" ELSE "done")
    /\ robbed' = IF Target(c) = Empty THEN robbed \cup Others(c) ELSE robbed
    /\ UNCHANGED archive

\* A file that appeared since the listing keeps the directory alive.
Rmdir(c) ==
    /\ job[c].at = "clear"
    /\ job[c].todo = {}
    /\ IF Target(c) = Empty
       THEN /\ dir' = [dir EXCEPT ![job[c].name] = Absent]
            /\ Goto(c, IF job[c].kind = "create" THEN "make" ELSE "done")
            /\ robbed' = robbed \cup Others(c)
       ELSE Goto(c, "failed") /\ UNCHANGED <<dir, robbed>>
    /\ UNCHANGED archive

\* copytree insists on making the directory.
Make(c) ==
    /\ job[c].at = "make"
    /\ IF dir[Place(c)] = Absent
       THEN /\ dir' = [dir EXCEPT ![Place(c)] = Empty]
            /\ job' = [job EXCEPT ![c].at = "copy", ![c].todo = File]
       ELSE Goto(c, "failed") /\ UNCHANGED dir
    /\ UNCHANGED <<archive, robbed>>

\* A file that cannot be copied is noted and the next one is tried.
Copy(c) ==
    /\ job[c].at = "copy"
    /\ \E f \in job[c].todo :
          /\ dir' = IF dir[Place(c)] = Absent THEN dir
                    ELSE [dir EXCEPT ![Place(c)][f] = "template"]
          /\ job' = [job EXCEPT ![c].todo = @ \ {f},
                                ![c].bad = @ \/ dir[Place(c)] = Absent]
    /\ UNCHANGED <<archive, robbed>>

CopyEnds(c) ==
    /\ job[c].at = "copy"
    /\ job[c].todo = {}
    /\ \/ job[c].bad /\ Goto(c, "failed") /\ UNCHANGED dir
       \/ ~job[c].bad /\ job[c].kind = "create" /\ Goto(c, "done") /\ UNCHANGED dir
       \/ /\ job[c].kind = "import"
          /\ dir' = [dir EXCEPT ![c] =
                       [f \in File |-> IF f \in Drafted THEN "imported" ELSE @[f]]]
          /\ Goto(c, "lock")
    /\ UNCHANGED <<archive, robbed>>

-----------------------------------------------------------------------------
(* repair.                                                                 *)

StartRepair(c, n, files, over) ==
    /\ dir[n] # Absent
    /\ Begin(c, "repair", n, over, "test", files, Empty)
    /\ UNCHANGED <<dir, archive, robbed>>

\* Mutant of RepairTest: a missing file is not copied without --overwrite.
RepairTestOverwriteOnly(c) ==
    /\ job[c].at = "test"
    /\ \E f \in job[c].todo :
          job' = IF job[c].over
                 THEN [job EXCEPT ![c].at = "write", ![c].todo = @ \ {f},
                                  ![c].got[f] = "template"]
                 ELSE [job EXCEPT ![c].todo = @ \ {f}]
    /\ UNCHANGED <<dir, archive, robbed>>

\* A file is looked for first, and copied if it is missing or to be replaced.
RepairTest(c) ==
    /\ job[c].at = "test"
    /\ \E f \in job[c].todo :
          job' = IF job[c].over \/ f \notin Present(Target(c))
                 THEN [job EXCEPT ![c].at = "write", ![c].todo = @ \ {f},
                                  ![c].got[f] = "template"]
                 ELSE [job EXCEPT ![c].todo = @ \ {f}]
    /\ UNCHANGED <<dir, archive, robbed>>

\* The file's contents in a directory that is made if it is not there.
Put(place, f, version) ==
    dir' = [dir EXCEPT ![place] =
              [(IF dir[place] = Absent THEN Empty ELSE @) EXCEPT ![f] = version]]

RepairWrite(c) ==
    /\ job[c].at = "write"
    /\ \E f \in Present(job[c].got) : Put(job[c].name, f, "template")
    /\ job' = [job EXCEPT ![c].at = "test", ![c].got = Empty]
    /\ UNCHANGED <<archive, robbed>>

RepairEnds(c) ==
    /\ job[c].at = "test"
    /\ job[c].todo = {}
    /\ Goto(c, "done")
    /\ UNCHANGED <<dir, archive, robbed>>

-----------------------------------------------------------------------------
(* load and save, archive: the profile's files are read one by one.        *)

\* load_profile reads every configuration file before anything is changed.
StartSave(c, n) ==
    /\ dir[n] # Absent
    /\ Begin(c, "save", n, FALSE, "read", Required, Empty)
    /\ UNCHANGED <<dir, archive, robbed>>

StartArchive(c, n) ==
    /\ dir[n] # Absent
    /\ Begin(c, "archive", n, FALSE, "read", File, Empty)
    /\ UNCHANGED <<dir, archive, robbed>>

\* Mutant of ReadFile: every missing file is skipped like an optional one.
ReadSkips(c) ==
    /\ job[c].at = "read"
    /\ \E f \in job[c].todo :
          job' = [job EXCEPT ![c].todo = @ \ {f},
                    ![c].got[f] = IF f \in Present(Target(c)) THEN Target(c)[f]
                                  ELSE Missing]
    /\ UNCHANGED <<dir, archive, robbed>>

ReadFile(c) ==
    /\ job[c].at = "read"
    /\ \E f \in job[c].todo :
          IF f \in Present(Target(c))
          THEN job' = [job EXCEPT ![c].todo = @ \ {f}, ![c].got[f] = Target(c)[f]]
          ELSE IF f \in Required THEN Goto(c, "failed")
          ELSE job' = [job EXCEPT ![c].todo = @ \ {f}]
    /\ UNCHANGED <<dir, archive, robbed>>

\* One of the profile's settings is changed and its file replaced.
Save(c) ==
    /\ job[c].kind = "save"
    /\ job[c].at = "read"
    /\ job[c].todo = {}
    /\ \E f \in Required : Put(job[c].name, f, "edited")
    /\ Goto(c, "done")
    /\ UNCHANGED <<archive, robbed>>

\* With --overwrite or where no archive is.
WriteArchive(c) ==
    /\ job[c].kind = "archive"
    /\ job[c].at = "read"
    /\ job[c].todo = {}
    /\ archive' = job[c].got
    /\ Goto(c, "done")
    /\ UNCHANGED <<dir, robbed>>

-----------------------------------------------------------------------------
(* restore and import.                                                     *)

\* What validation asks of an archive whose bytes are those that were written:
\* a record for every required file.
Restorable(a) == a # Absent /\ Whole(a)

\* The archive has been read and validated, the destination is free.
StartRestore(c, n) ==
    /\ Restorable(archive)
    /\ dir[n] = Absent
    /\ Begin(c, "restore", n, FALSE, "lock", {}, archive)
    /\ UNCHANGED <<dir, archive, robbed>>

\* The draft profile is made by create_profile in the staging directory.
StartImport(c, n) ==
    /\ dir[n] = Absent
    /\ Begin(c, "import", n, FALSE, "make", {}, Empty)
    /\ UNCHANGED <<dir, archive, robbed>>

SameLock(c, d) ==
    /\ job[c].kind = job[d].kind
    /\ job[c].kind = "import" \/ job[c].name = job[d].name

\* An import leaves the lock before it clears its staging directory, a restore
\* after that.
HasLock(c) ==
    \/ job[c].at \in {"stage", "rename"}
    \/ job[c].at = "cleanup" /\ job[c].kind = "restore"

LockFree(c) == \A d \in Command \ {c} : HasLock(d) => ~SameLock(c, d)

\* In the lock the destination is looked at again; restore then stages the
\* archived files.
Enter(c) ==
    /\ job[c].at = "lock"
    /\ LockFree(c)
    /\ \/ /\ Target(c) # Absent
          /\ Goto(c, IF job[c].kind = "import" THEN "cleanup" ELSE "failed")
          /\ UNCHANGED dir
       \/ /\ Target(c) = Absent
          /\ job[c].kind = "restore"
          /\ dir' = [dir EXCEPT ![c] = Empty]
          /\ job' = [job EXCEPT ![c].at = "stage", ![c].todo = Present(job[c].got)]
       \/ /\ Target(c) = Absent
          /\ job[c].kind = "import"
          /\ Goto(c, "rename")
          /\ UNCHANGED dir
    /\ UNCHANGED <<archive, robbed>>

LockTimeout(c) ==
    /\ job[c].at = "lock"
    /\ ~LockFree(c)
    /\ Goto(c, IF job[c].kind = "import" THEN "cleanup" ELSE "failed")
    /\ UNCHANGED <<dir, archive, robbed>>

Stage(c) ==
    /\ job[c].at = "stage"
    /\ \E f \in job[c].todo :
          /\ dir' = [dir EXCEPT ![c][f] = job[c].got[f]]
          /\ job' = [job EXCEPT ![c].todo = @ \ {f},
                                ![c].at = IF job[c].todo = {f} THEN "rename" ELSE @]
    /\ UNCHANGED <<archive, robbed>>

\* A file cannot be written to the staging directory.
StageFails(c) ==
    /\ \/ job[c].at = "stage"
       \/ job[c].at = "copy" /\ job[c].kind = "import"
    /\ Goto(c, "cleanup")
    /\ UNCHANGED <<dir, archive, robbed>>

\* rename replaces nothing, or an empty directory; a directory with files in
\* it is an error.
Rename(c) ==
    /\ job[c].at = "rename"
    /\ IF Target(c) \in {Absent, Empty}
       THEN /\ dir' = [dir EXCEPT ![job[c].name] = dir[c], ![c] = Absent]
            /\ Goto(c, "done")
       ELSE Goto(c, "cleanup") /\ UNCHANGED dir
    /\ UNCHANGED <<archive, robbed>>

Cleanup(c) ==
    /\ job[c].at = "cleanup"
    /\ dir' = [dir EXCEPT ![c] = Absent]
    /\ Goto(c, "failed")
    /\ UNCHANGED <<archive, robbed>>

-----------------------------------------------------------------------------

Crash(c) ==
    /\ Active(c)
    /\ Goto(c, "crashed")
    /\ UNCHANGED <<dir, archive, robbed>>

Start(c) ==
    \E n \in Name :
        \/ \E over \in BOOLEAN :
              \/ StartCreate(c, n, over)
              \/ \E files \in SUBSET Required \ {{}} : StartRepair(c, n, files, over)
        \/ StartRemove(c, n)
        \/ StartSave(c, n)
        \/ StartArchive(c, n)
        \/ StartRestore(c, n)
        \/ StartImport(c, n)

Step(c) ==
    \/ List(c) \/ Unlink(c) \/ Rmdir(c)
    \/ Make(c) \/ Copy(c) \/ CopyEnds(c)
    \/ RepairTest(c) \/ RepairWrite(c) \/ RepairEnds(c)
    \/ ReadFile(c) \/ Save(c) \/ WriteArchive(c)
    \/ Enter(c) \/ LockTimeout(c)
    \/ Stage(c) \/ StageFails(c) \/ Rename(c) \/ Cleanup(c)

Next == \E c \in Command : Start(c) \/ Step(c) \/ Crash(c)

Spec == Init /\ [][Next]_vars

-----------------------------------------------------------------------------
(* Properties.                                                             *)

\* An archive is never short of a required file, whatever happened to the
\* profile while its files were read: it can be restored.
ArchiveIsWhole == archive # Absent => Whole(archive)

\* repair makes up for what failed, crashed and half-done commands left: the
\* files it was asked for are there when it ends, unless some other command
\* deleted files meanwhile.
RepairCompletes ==
    [][\A c \in Command :
          /\ job[c].kind = "repair"
          /\ Active(c) /\ job'[c].at = "done"
          /\ c \notin robbed
          => job[c].asked \subseteq Present(dir'[job[c].name])]_vars

\* When every command ended normally and none had files deleted under it, every
\* profile is complete: only failures, crashes and deletions make partial ones.
SettledIsWhole ==
    (\A c \in Command : job[c].at \in {"idle", "done"}) /\ robbed = {} =>
        \A n \in Name : dir[n] # Absent => Whole(dir[n])
=============================================================================
