--------------------------- MODULE ProfilesProofs ---------------------------
(***************************************************************************)
(* The directories of the profiles root for any number of names, commands  *)
(* and files: an archive is whole, a repair repairs, and only failures,    *)
(* kills and deletions leave a profile that is not whole.                  *)
(***************************************************************************)
EXTENDS Profiles, TLAPS

-----------------------------------------------------------------------------
(* The inductive invariant.                                                *)

\* Which command can be at which step.
Fits(c) ==
    /\ job[c].at \in {"list", "clear"} => job[c].kind \in {"create", "remove"}
    /\ job[c].at \in {"make", "copy"} => job[c].kind \in {"create", "import"}
    /\ job[c].at \in {"test", "write"} => job[c].kind = "repair"
    /\ job[c].at = "read" => job[c].kind \in {"save", "archive"}
    /\ job[c].at = "stage" => job[c].kind = "restore"
    /\ job[c].at \in {"lock", "rename", "cleanup"} => job[c].kind \in {"restore", "import"}

\* What a reader has been through it has, and unless files were deleted under
\* it the profile has it too.
ReadsAll(c) ==
    job[c].at = "read" =>
        /\ job[c].kind = "archive" => Required \subseteq Present(job[c].got) \cup job[c].todo
        /\ c \notin robbed => Required \subseteq Present(Target(c)) \cup job[c].todo

\* A staging directory is its command's own and whole when it is renamed.
StagesAll(c) ==
    /\ job[c].at \in {"idle", "list", "clear", "make"} => dir[c] = Absent
    /\ job[c].kind = "restore" /\ Active(c) => Whole(job[c].got)
    /\ job[c].at = "stage" =>
          /\ dir[c] # Absent /\ Required \subseteq Present(dir[c]) \cup job[c].todo
          /\ job[c].todo \subseteq Present(job[c].got)
    /\ job[c].at = "copy" /\ job[c].kind = "import" =>
          dir[c] # Absent /\ File \subseteq Present(dir[c]) \cup job[c].todo
    /\ job[c].at = "lock" /\ job[c].kind = "import" => dir[c] # Absent /\ Whole(dir[c])
    /\ job[c].at = "rename" => dir[c] # Absent /\ Whole(dir[c])

\* A create that has noted no error has copied what it no longer has to.
CopiesAll(c) ==
    job[c].at = "copy" /\ job[c].kind = "create" /\ c \notin robbed /\ ~job[c].bad =>
        File \subseteq Present(Target(c)) \cup job[c].todo

\* A repair has dealt with each file it no longer has to look at.
RepairsAll(c) ==
    /\ job[c].at = "test" => job[c].got = Empty
    /\ job[c].at = "write" => \E f \in File : Present(job[c].got) = {f}
    /\ job[c].at \in {"test", "write"} /\ c \notin robbed =>
          /\ Target(c) # Absent
          /\ job[c].asked \subseteq Present(Target(c)) \cup Present(job[c].got) \cup job[c].todo

Own(c) == Fits(c) /\ ReadsAll(c) /\ StagesAll(c) /\ CopiesAll(c) /\ RepairsAll(c)

\* Who answers for a profile that is not whole: a command that did not end
\* normally, or one that is in the middle of it.
Answers(c, n) ==
    \/ job[c].at \in {"failed", "crashed"}
    \/ /\ job[c].name = n
       /\ job[c].at \in {"clear", "copy"} /\ job[c].kind \in {"create", "remove"}

Partial(n) == dir[n] # Absent /\ ~Whole(dir[n])

PartialIsBlamed ==
    \A n \in Name : Partial(n) => robbed # {} \/ \E c \in Command : Answers(c, n)

ProfilesInv ==
    /\ TypeOK
    /\ ArchiveIsWhole
    /\ \A c \in Command : Own(c)
    /\ PartialIsBlamed

-----------------------------------------------------------------------------
(* Operators on directories and jobs.                                      *)

\* A directory's files, after one was written or deleted.
LEMMA FilesOf ==
    ASSUME NEW d \in Directory, NEW f \in File
    PROVE  /\ d # Absent /\ Present(d) = {g \in File : d[g] # Missing}
           /\ \A v \in Version : /\ [d EXCEPT ![f] = v] \in Directory
                                 /\ Present([d EXCEPT ![f] = v]) = Present(d) \cup {f}
           /\ [d EXCEPT ![f] = Missing] \in Directory
           /\ Present([d EXCEPT ![f] = Missing]) = Present(d) \ {f}
  <1> USE NothingAssumption
  <1>1. \A e \in Directory : e # Absent /\ Present(e) = {g \in File : e[g] # Missing}
    BY DEF Present
  <1>2. ASSUME NEW v \in Version \cup {Missing}
        PROVE  /\ [d EXCEPT ![f] = v] \in Directory
               /\ \A g \in File : [d EXCEPT ![f] = v][g] = IF g = f THEN v ELSE d[g]
    BY DEF Directory
  <1>3. ASSUME NEW v \in Version
        PROVE  Present([d EXCEPT ![f] = v]) = Present(d) \cup {f}
    <2> DEFINE e == [d EXCEPT ![f] = v]
    <2>1. e \in Directory /\ \A g \in File : e[g] = IF g = f THEN v ELSE d[g]
      BY <1>2
    <2> HIDE DEF e
    <2>2. Present(e) = {g \in File : e[g] # Missing}
      BY <1>1, <2>1
    <2>3. Present(e) = Present(d) \cup {f}
      BY <1>1, <2>1, <2>2
    <2> QED
      BY <2>3 DEF e
  <1>4. Present([d EXCEPT ![f] = Missing]) = Present(d) \ {f}
    <2> DEFINE e == [d EXCEPT ![f] = Missing]
    <2>1. e \in Directory /\ \A g \in File : e[g] = IF g = f THEN Missing ELSE d[g]
      BY <1>2
    <2> HIDE DEF e
    <2>2. Present(e) = {g \in File : e[g] # Missing}
      BY <1>1, <2>1
    <2>3. Present(e) = Present(d) \ {f}
      BY <1>1, <2>1, <2>2
    <2> QED
      BY <2>3 DEF e
  <1> QED
    BY <1>1, <1>2, <1>3, <1>4

\* A file is written to a directory.
LEMMA FileWritten ==
    ASSUME NEW d \in Directory, NEW f \in File, NEW v \in Version
    PROVE  /\ [d EXCEPT ![f] = v] \in Directory
           /\ Present([d EXCEPT ![f] = v]) = Present(d) \cup {f}
  BY FilesOf

\* The empty directory, and none.
LEMMA FilesOfEmpty == Empty \in Directory /\ Present(Empty) = {} /\ Present(Absent) = {}
  BY NothingAssumption DEF Empty, Directory, Present

\* What Goto leaves of a job.
LEMMA GotoMoves ==
    ASSUME TypeOK, NEW c \in Command, NEW at \in Location, Goto(c, at)
    PROVE  /\ job' \in [Command -> Job]
           /\ \A d \in Command \ {c} : job'[d] = job[d]
           /\ job'[c].at = at /\ job'[c].kind = job[c].kind /\ job'[c].name = job[c].name
           /\ at \notin Ended => /\ job'[c].todo = job[c].todo /\ job'[c].got = job[c].got
                                 /\ job'[c].asked = job[c].asked /\ job'[c].bad = job[c].bad
  <1>1. job[c] \in Job
    BY DEF TypeOK
  <1>2. CASE at \in Ended
    <2>1. job' = [job EXCEPT ![c] = [@ EXCEPT !.at = at, !.asked = {}, !.todo = {},
                                              !.got = Empty, !.bad = FALSE, !.over = FALSE]]
      BY <1>2 DEF Goto
    <2> QED
      BY <1>1, <1>2, <2>1, FilesOfEmpty DEF TypeOK, Job
  <1>3. CASE at \notin Ended
    <2>1. job' = [job EXCEPT ![c] = [@ EXCEPT !.at = at]]
      BY <1>3 DEF Goto
    <2> QED
      BY <1>1, <1>3, <2>1 DEF TypeOK, Job
  <1> QED
    BY <1>2, <1>3

\* Two directories and a command's place in them are apart.
LEMMA Places ==
    ASSUME TypeOK, NEW c \in Command
    PROVE  /\ job[c] \in Job /\ job[c].name \in Name /\ c \notin Name
           /\ job[c].name \in Name \cup Command /\ c \in Name \cup Command
           /\ job[c].name # c /\ \A d \in Command : job[d].name # c
           /\ Target(c) = dir[job[c].name] /\ Target(c) \in Directory \cup {Absent}
           /\ dir[c] \in Directory \cup {Absent}
           /\ job[c].todo \subseteq File /\ job[c].asked \subseteq File
           /\ job[c].got \in Directory
  <1>1. job[c] \in Job
    BY DEF TypeOK
  <1>2. /\ job[c].name \in Name /\ job[c].todo \subseteq File /\ job[c].asked \subseteq File
        /\ job[c].got \in Directory
    BY <1>1 DEF Job
  <1>3. \A d \in Command : job[d].name \in Name
    BY DEF TypeOK, Job
  <1> QED
    BY <1>1, <1>2, <1>3, ProfilesAssumption DEF TypeOK, Target

-----------------------------------------------------------------------------
(* What a step of one command means for the others.                        *)

\* The profile n keeps its files.
Grows(n) == Present(dir[n]) \subseteq Present(dir'[n]) /\ (dir[n] # Absent => dir'[n] # Absent)

\* A step of c changes its own profile and its own staging directory.  Where it
\* deletes files, the others that are at work on the profile are robbed.
Within(c) ==
    /\ \A d \in Command \ {c} : job'[d] = job[d] /\ dir'[d] = dir[d]
    /\ \A n \in Name \ {job[c].name} : dir'[n] = dir[n]
    /\ robbed \subseteq robbed'
    /\ Grows(job[c].name) \/ Others(c) \subseteq robbed'

\* The profile of c is not partial after the step, or somebody answers for it.
Blamed(c) ==
    \/ ~Partial(job[c].name)'
    \/ robbed' # {}
    \/ Answers(c, job[c].name)'
    \/ Partial(job[c].name) /\ ~Answers(c, job[c].name)

\* A step of another command takes nothing away from what d knows.
LEMMA OthersKeep ==
    ASSUME TypeOK, NEW c \in Command, NEW d \in Command \ {c}, Within(c), Own(d)
    PROVE  Own(d)'
  <1>1. /\ job'[d] = job[d] /\ dir'[d] = dir[d] /\ Active(d)' = Active(d)
        /\ job[d].name \in Name
    BY Places DEF Within, Active
  <1>2. ASSUME Active(d), d \notin robbed'
        PROVE  /\ d \notin robbed
               /\ Present(Target(d)) \subseteq Present(Target(d)')
               /\ Target(d) # Absent => Target(d)' # Absent
    <2>1. d \notin robbed
      BY <1>2 DEF Within
    <2>2. CASE job[d].name = job[c].name
      <3>1. d \in Others(c)
        BY <1>2, <2>2 DEF Others
      <3>2. Grows(job[c].name)
        BY <1>2, <3>1 DEF Within
      <3> QED
        BY <1>1, <2>1, <2>2, <3>2 DEF Grows, Target
    <2>3. CASE job[d].name # job[c].name
      BY <1>1, <2>1, <2>3 DEF Within, Target
    <2> QED
      BY <2>2, <2>3
  <1>3. \A at \in {"read", "copy", "test", "write"} : job[d].at = at => Active(d)
    BY DEF Active, Ended
  <1>4. Fits(d)'
    BY <1>1 DEF Own, Fits
  <1>5. ReadsAll(d)'
    BY <1>1, <1>2, <1>3 DEF Own, ReadsAll
  <1>6. StagesAll(d)'
    BY <1>1 DEF Own, StagesAll
  <1>7. CopiesAll(d)'
    BY <1>1, <1>2, <1>3 DEF Own, CopiesAll
  <1>8. RepairsAll(d)'
    BY <1>1, <1>2, <1>3 DEF Own, RepairsAll
  <1> QED
    BY <1>4, <1>5, <1>6, <1>7, <1>8 DEF Own

\* Each partial profile keeps somebody who answers for it.
LEMMA BlameKeeps ==
    ASSUME TypeOK, NEW c \in Command, Within(c), Blamed(c),
           PartialIsBlamed, job[c].at \notin {"failed", "crashed"},
           job'[c].name = job[c].name
    PROVE  PartialIsBlamed'
  <1> SUFFICES ASSUME NEW n \in Name, Partial(n)', robbed' = {}
               PROVE  \E d \in Command : Answers(d, n)'
    BY DEF PartialIsBlamed
  <1>1. robbed = {}
    BY DEF Within
  <1>2. \A d \in Command \ {c} : Answers(d, n) => Answers(d, n)'
    BY DEF Within, Answers
  <1>3. CASE n # job[c].name
    <2>1. Partial(n)
      BY <1>3 DEF Within, Partial
    <2>2. PICK d \in Command : Answers(d, n)
      BY <1>1, <2>1 DEF PartialIsBlamed
    <2>3. d # c
      BY <1>3, <2>2 DEF Answers
    <2> QED
      BY <1>2, <2>2, <2>3
  <1>4. CASE n = job[c].name /\ Answers(c, n)'
    BY <1>4
  <1>5. CASE n = job[c].name /\ ~Answers(c, n)'
    <2>1. Partial(n) /\ ~Answers(c, n)
      BY <1>5 DEF Blamed
    <2>2. PICK d \in Command : Answers(d, n)
      BY <1>1, <2>1 DEF PartialIsBlamed
    <2> QED
      BY <1>2, <2>1, <2>2
  <1> QED
    BY <1>3, <1>4, <1>5

\* What has to be shown of a step.
LEMMA StepKeeps ==
    ASSUME ProfilesInv, NEW c \in Command, Within(c), Blamed(c),
           job[c].at \notin {"failed", "crashed"}, job'[c].name = job[c].name,
           TypeOK', ArchiveIsWhole', Own(c)'
    PROVE  ProfilesInv'
  BY OthersKeep, BlameKeeps DEF ProfilesInv

\* A command that has ended knows nothing any more.
LEMMA OwnEnds ==
    ASSUME NEW c \in Command, job'[c].at \in Ended
    PROVE  Own(c)'
  BY DEF Own, Fits, ReadsAll, StagesAll, CopiesAll, RepairsAll, Active, Ended

\* A step that leaves the profile as it is.
LEMMA QuietStep ==
    ASSUME ProfilesInv, NEW c \in Command,
           \A d \in Command \ {c} : job'[d] = job[d] /\ dir'[d] = dir[d],
           \A n \in Name : dir'[n] = dir[n],
           robbed' = robbed, job'[c].name = job[c].name
    PROVE  Within(c) /\ (Answers(c, job[c].name)' \/ ~Answers(c, job[c].name) => Blamed(c))
  <1>1. job[c].name \in Name
    BY Places DEF ProfilesInv
  <1>2. dir'[job[c].name] = dir[job[c].name]
    BY <1>1
  <1>3. Within(c)
    BY <1>2 DEF Within, Grows
  <1>4. Partial(job[c].name) <=> dir[job[c].name] # Absent /\ ~Whole(dir[job[c].name])
    BY DEF Partial
  <1>5. ASSUME job'[c].name = job[c].name
        PROVE  Partial(job[c].name)' <=> Partial(job[c].name)
    BY <1>2, <1>5 DEF Partial
  <1> QED
    BY <1>3, <1>5 DEF Blamed

\* A step of c that only ends the command, or moves it from a step at which it
\* answers for nothing.
LEMMA QuietKeeps ==
    ASSUME ProfilesInv, NEW c \in Command, Active(c),
           \A d \in Command \ {c} : job'[d] = job[d],
           dir' = dir, robbed' = robbed, archive' = archive,
           job' \in [Command -> Job], job'[c].name = job[c].name,
           Answers(c, job[c].name)' \/ ~Answers(c, job[c].name),
           Own(c)'
    PROVE  ProfilesInv'
  <1>1. Within(c) /\ Blamed(c)
    BY QuietStep
  <1>2. TypeOK' /\ ArchiveIsWhole'
    BY DEF ProfilesInv, TypeOK, ArchiveIsWhole, Present, Whole
  <1>3. job[c].at \notin {"failed", "crashed"}
    BY DEF Active, Ended
  <1> QED
    BY <1>1, <1>2, <1>3, StepKeeps

\* A command that fails or is killed answers for whatever is partial.
LEMMA FailureKeeps ==
    ASSUME ProfilesInv, NEW c \in Command, Active(c), NEW how \in {"failed", "crashed"},
           Goto(c, how), UNCHANGED <<dir, archive, robbed>>
    PROVE  ProfilesInv'
  <1>1. how \in Location /\ how \in Ended /\ TypeOK
    BY DEF Location, Ended, ProfilesInv
  <1>2. /\ job' \in [Command -> Job] /\ \A d \in Command \ {c} : job'[d] = job[d]
        /\ job'[c].at = how /\ job'[c].name = job[c].name
    BY <1>1, GotoMoves
  <1>3. Own(c)' /\ Answers(c, job[c].name)'
    BY <1>1, <1>2, OwnEnds DEF Answers
  <1> QED
    BY <1>2, <1>3, QuietKeeps

-----------------------------------------------------------------------------
(* The steps.                                                              *)

\* A command begins at a step where it has nothing to answer for.
LEMMA StartKeeps ==
    ASSUME ProfilesInv, NEW c \in Command, Start(c)
    PROVE  ProfilesInv'
  <1>1. PICK kind \in Kind, n \in Name, over \in BOOLEAN, at \in Location,
             todo \in SUBSET File, got \in Directory :
          /\ Begin(c, kind, n, over, at, todo, got)
          /\ \/ kind = "create" /\ at \in {"make", "list"}
             \/ kind = "remove" /\ at = "list"
             \/ kind = "repair" /\ at = "test" /\ got = Empty /\ dir[n] # Absent
             \/ kind = "save" /\ at = "read" /\ todo = Required
             \/ kind = "archive" /\ at = "read" /\ todo = File
             \/ kind = "restore" /\ at = "lock" /\ Whole(got)
             \/ kind = "import" /\ at = "make"
    <2> USE FilesOfEmpty
    <2>1. PICK n \in Name :
            \/ \E over \in BOOLEAN :
                  \/ StartCreate(c, n, over)
                  \/ \E files \in SUBSET Required \ {{}} : StartRepair(c, n, files, over)
            \/ StartRemove(c, n) \/ StartSave(c, n) \/ StartArchive(c, n)
            \/ StartRestore(c, n) \/ StartImport(c, n)
      BY DEF Start
    <2>2. CASE \E over \in BOOLEAN : StartCreate(c, n, over)
      BY <2>2 DEF StartCreate, Kind, Location
    <2>3. CASE \E over \in BOOLEAN, files \in SUBSET Required \ {{}} : StartRepair(c, n, files, over)
      <3>1. PICK over \in BOOLEAN, files \in SUBSET Required : StartRepair(c, n, files, over)
        BY <2>3
      <3>2. files \in SUBSET File /\ "repair" \in Kind /\ "test" \in Location
        BY DEF File, Kind, Location
      <3> QED
        BY <3>1, <3>2 DEF StartRepair
    <2>4. CASE StartRemove(c, n)
      BY <2>4 DEF StartRemove, Kind, Location
    <2>5. CASE StartSave(c, n)
      BY <2>5 DEF StartSave, Kind, Location, File
    <2>6. CASE StartArchive(c, n)
      BY <2>6 DEF StartArchive, Kind, Location
    <2>7. CASE StartRestore(c, n)
      <3>1. archive \in Directory /\ Whole(archive)
        BY <2>7 DEF StartRestore, Restorable, ProfilesInv, TypeOK
      <3> QED
        BY <2>7, <3>1 DEF StartRestore, Kind, Location
    <2>8. CASE StartImport(c, n)
      BY <2>8 DEF StartImport, Kind, Location
    <2> QED
      BY <2>1, <2>2, <2>3, <2>4, <2>5, <2>6, <2>7, <2>8
  <1> DEFINE r == [kind |-> kind, name |-> n, over |-> over, at |-> at,
                   asked |-> todo, todo |-> todo, got |-> got, bad |-> FALSE]
  <1>2. /\ r \in Job /\ r.kind = kind /\ r.name = n /\ r.at = at /\ r.asked = todo
        /\ r.todo = todo /\ r.got = got
    BY DEF Job
  <1>3. job[c].at = "idle" /\ job' = [job EXCEPT ![c] = r]
    BY <1>1 DEF Begin
  <1> HIDE DEF r
  <1>4. /\ job' \in [Command -> Job] /\ job'[c] = r
        /\ \A d \in Command \ {c} : job'[d] = job[d]
    BY <1>2, <1>3 DEF ProfilesInv, TypeOK
  <1>5. UNCHANGED <<dir, archive, robbed>>
    BY DEF Start, StartCreate, StartRepair, StartRemove, StartSave, StartArchive,
           StartRestore, StartImport
  <1>6. Own(c)'
    <2>1. dir[c] = Absent
      BY <1>3 DEF ProfilesInv, Own, StagesAll
    <2>2. Fits(c)' /\ ReadsAll(c)' /\ CopiesAll(c)'
      BY <1>1, <1>2, <1>4 DEF Fits, ReadsAll, CopiesAll, File
    <2>3. StagesAll(c)'
      BY <1>1, <1>2, <1>4, <1>5, <2>1 DEF StagesAll, Whole, Present
    <2>4. RepairsAll(c)'
      BY <1>1, <1>2, <1>4, <1>5 DEF RepairsAll, Target
    <2> QED
      BY <2>2, <2>3, <2>4 DEF Own
  <1>7. Within(c)
    BY <1>4, <1>5 DEF Within, Grows
  <1>8. \A d \in Command : Own(d)'
    BY <1>6, <1>7, OthersKeep DEF ProfilesInv
  <1>9. PartialIsBlamed'
    <2>1. ASSUME NEW d \in Command, NEW m \in Name, Answers(d, m)
          PROVE  Answers(d, m)'
      <3>1. d # c
        BY <1>3, <2>1 DEF Answers
      <3> QED
        BY <1>4, <2>1, <3>1 DEF Answers
    <2> QED
      BY <1>5, <2>1 DEF ProfilesInv, PartialIsBlamed, Partial, Whole, Present
  <1>10. TypeOK' /\ ArchiveIsWhole'
    BY <1>4, <1>5 DEF ProfilesInv, TypeOK, ArchiveIsWhole, Whole, Present
  <1> QED
    BY <1>8, <1>9, <1>10 DEF ProfilesInv

\* List: an absent profile fails the command, any other begins to be cleared.
LEMMA ListKeeps ==
    ASSUME ProfilesInv, NEW c \in Command, List(c)
    PROVE  ProfilesInv'
  <1>1. Active(c) /\ job[c].at = "list" /\ UNCHANGED <<dir, archive, robbed>>
    BY DEF List, Active, Ended
  <1>2. CASE Goto(c, "failed")
    BY <1>1, <1>2, FailureKeeps
  <1>3. CASE job' = [job EXCEPT ![c].at = "clear", ![c].todo = Present(Target(c))]
    <2>1. Present(Target(c)) \subseteq File
      BY DEF Present
    <2>2. job[c].kind \in {"create", "remove"} /\ job[c] \in Job
      BY <1>1, Places DEF ProfilesInv, Own, Fits
    <2>3. /\ job' \in [Command -> Job] /\ \A d \in Command \ {c} : job'[d] = job[d]
          /\ job'[c].at = "clear" /\ job'[c].kind = job[c].kind
          /\ job'[c].name = job[c].name
      BY <1>3, <2>1, <2>2 DEF ProfilesInv, TypeOK, Job, Location
    <2>4. Own(c)'
      BY <1>1, <2>2, <2>3 DEF ProfilesInv, Own, Fits, ReadsAll, StagesAll, CopiesAll, RepairsAll
    <2>5. Answers(c, job[c].name)'
      BY <2>2, <2>3 DEF Answers
    <2> QED
      BY <1>1, <2>3, <2>4, <2>5, QuietKeeps
  <1> QED
    BY <1>2, <1>3 DEF List

\* Unlink: the others at work on the profile are robbed.
LEMMA UnlinkKeeps ==
    ASSUME ProfilesInv, NEW c \in Command, Unlink(c)
    PROVE  ProfilesInv'
  <1>1. Active(c) /\ job[c].at = "clear" /\ archive' = archive /\ TypeOK
    BY DEF Unlink, Active, Ended, ProfilesInv
  <1>2. PICK f \in job[c].todo :
          IF f \in Present(Target(c))
          THEN /\ dir' = [dir EXCEPT ![job[c].name][f] = Missing]
               /\ job' = [job EXCEPT ![c].todo = @ \ {f}]
               /\ robbed' = robbed \cup Others(c)
          ELSE Goto(c, "failed") /\ UNCHANGED <<dir, robbed>>
    BY DEF Unlink
  <1>3. CASE f \notin Present(Target(c))
    BY <1>1, <1>2, <1>3, FailureKeeps
  <1>4. CASE f \in Present(Target(c))
    <2>1. job[c].kind \in {"create", "remove"} /\ job[c] \in Job
      BY <1>1, Places DEF ProfilesInv, Own, Fits
    <2>2. /\ job' \in [Command -> Job] /\ \A d \in Command \ {c} : job'[d] = job[d]
          /\ job'[c].at = "clear" /\ job'[c].kind = job[c].kind
          /\ job'[c].name = job[c].name
      BY <1>1, <1>2, <1>4, <2>1 DEF TypeOK, Job
    <2>3. /\ Target(c) \in Directory /\ f \in File
      BY <1>1, <1>4, Places, FilesOfEmpty
    <2>4. [Target(c) EXCEPT ![f] = Missing] \in Directory
      BY <2>3, FilesOf
    <2>5. /\ dir' \in [Name \cup Command -> Directory \cup {Absent}]
          /\ \A x \in Name \cup Command : x # job[c].name => dir'[x] = dir[x]
      BY <1>1, <1>2, <1>4, <2>4, Places DEF TypeOK
    <2>6. Others(c) \subseteq Command /\ robbed' = robbed \cup Others(c)
      BY <1>2, <1>4 DEF Others
    <2>7. TypeOK'
      BY <1>1, <2>2, <2>5, <2>6 DEF TypeOK
    <2>8. Within(c)
      BY <1>1, <2>2, <2>5, <2>6, Places DEF Within
    <2>9. Answers(c, job[c].name)'
      BY <2>1, <2>2 DEF Answers
    <2>10. Own(c)'
      BY <1>1, <2>1, <2>2, <2>5, Places DEF ProfilesInv, Own, Fits, ReadsAll, StagesAll, CopiesAll, RepairsAll
    <2>11. ArchiveIsWhole'
      BY <1>1 DEF ProfilesInv, ArchiveIsWhole, Whole, Present
    <2> QED
      BY <1>1, <2>2, <2>7, <2>8, <2>9, <2>10, <2>11, StepKeeps DEF Blamed
  <1> QED
    BY <1>3, <1>4

\* Rmdir: a profile that is gone is not partial.
LEMMA RmdirKeeps ==
    ASSUME ProfilesInv, NEW c \in Command, Rmdir(c)
    PROVE  ProfilesInv'
  <1>1. Active(c) /\ job[c].at = "clear" /\ archive' = archive /\ TypeOK
    BY DEF Rmdir, Active, Ended, ProfilesInv
  <1>2. CASE Target(c) # Empty
    BY <1>1, <1>2, FailureKeeps DEF Rmdir
  <1>3. CASE Target(c) = Empty
    <2> DEFINE at == IF job[c].kind = "create" THEN "make" ELSE "done"
    <2>1. job[c].kind \in {"create", "remove"} /\ job[c] \in Job
      BY <1>1, Places DEF ProfilesInv, Own, Fits
    <2>2. at \in Location /\ Goto(c, at)
      BY <1>3 DEF Rmdir, Location, Ended
    <2>3. /\ job' \in [Command -> Job] /\ \A d \in Command \ {c} : job'[d] = job[d]
          /\ job'[c].at = at /\ job'[c].kind = job[c].kind
          /\ job'[c].name = job[c].name
      BY <1>1, <2>2, GotoMoves
    <2>4. /\ dir' \in [Name \cup Command -> Directory \cup {Absent}]
          /\ \A x \in Name \cup Command : x # job[c].name => dir'[x] = dir[x]
          /\ dir'[job[c].name] = Absent
      BY <1>1, <1>3, Places DEF TypeOK, Rmdir
    <2>5. Others(c) \subseteq Command /\ robbed' = robbed \cup Others(c)
      BY <1>3 DEF Rmdir, Others
    <2>6. TypeOK'
      BY <1>1, <2>3, <2>4, <2>5 DEF TypeOK
    <2>7. Within(c)
      BY <1>1, <2>3, <2>4, <2>5, Places DEF Within
    <2>8. ~Partial(job[c].name)'
      BY <2>3, <2>4 DEF Partial
    <2>9. Own(c)'
      <3>1. CASE job[c].kind = "create"
        <4>1. job'[c].at = "make" /\ job'[c].kind = "create"
          BY <2>3, <3>1
        <4>2. dir'[c] = Absent
          BY <1>1, <2>4, Places DEF ProfilesInv, Own, StagesAll
        <4> QED
          BY <4>1, <4>2 DEF Own, Fits, ReadsAll, StagesAll, CopiesAll, RepairsAll
      <3>2. CASE job[c].kind # "create"
        BY <2>3, <3>2, OwnEnds DEF Ended
      <3> QED
        BY <3>1, <3>2
    <2>10. ArchiveIsWhole'
      BY <1>1 DEF ProfilesInv, ArchiveIsWhole, Whole, Present
    <2> QED
      BY <1>1, <2>3, <2>6, <2>7, <2>8, <2>9, <2>10, StepKeeps DEF Blamed
  <1> QED
    BY <1>2, <1>3

\* Make: a create begins to copy into the profile, an import into its own
\* directory.
LEMMA MakeKeeps ==
    ASSUME ProfilesInv, NEW c \in Command, Make(c)
    PROVE  ProfilesInv'
  <1>1. Active(c) /\ job[c].at = "make" /\ UNCHANGED <<archive, robbed>> /\ TypeOK
    BY DEF Make, Active, Ended, ProfilesInv
  <1>2. CASE dir[Place(c)] # Absent
    BY <1>1, <1>2, FailureKeeps DEF Make
  <1>3. CASE dir[Place(c)] = Absent
    <2>1. job[c].kind \in {"create", "import"} /\ job[c] \in Job
      BY <1>1, Places DEF ProfilesInv, Own, Fits
    <2>2. /\ job' \in [Command -> Job] /\ \A d \in Command \ {c} : job'[d] = job[d]
          /\ job'[c].at = "copy" /\ job'[c].kind = job[c].kind
          /\ job'[c].name = job[c].name /\ job'[c].todo = File
      BY <1>1, <1>3, <2>1 DEF Make, TypeOK, Job, Location
    <2>3. Place(c) \in {c, job[c].name} /\ Place(c) \in Name \cup Command
      BY <1>1, Places DEF Place
    <2>4. /\ dir' \in [Name \cup Command -> Directory \cup {Absent}]
          /\ \A x \in Name \cup Command : x # Place(c) => dir'[x] = dir[x]
          /\ dir'[Place(c)] = Empty /\ Empty # Absent
      BY <1>1, <1>3, <2>3, FilesOfEmpty, NothingAssumption DEF TypeOK, Make
    <2>5. TypeOK'
      BY <1>1, <2>2, <2>4 DEF TypeOK
    <2>6. Grows(job[c].name)
      BY <1>1, <1>3, <2>4, FilesOfEmpty, Places DEF Grows
    <2>7. Within(c)
      BY <1>1, <2>2, <2>3, <2>4, <2>6, Places DEF Within
    <2>8. Blamed(c)
      <3>1. CASE job[c].kind = "create"
        BY <2>2, <3>1 DEF Blamed, Answers
      <3>2. CASE job[c].kind = "import"
        BY <1>1, <2>2, <2>4, <3>2, Places DEF Blamed, Answers, Partial, Place
      <3> QED
        BY <2>1, <3>1, <3>2
    <2>9. Own(c)'
      <3>1. job[c].kind = "import" => dir'[c] # Absent
        BY <2>4 DEF Place
      <3> QED
        BY <2>1, <2>2, <3>1 DEF Own, Fits, ReadsAll, StagesAll, CopiesAll, RepairsAll
    <2>10. ArchiveIsWhole'
      BY <1>1 DEF ProfilesInv, ArchiveIsWhole, Whole, Present
    <2> QED
      BY <1>1, <2>2, <2>5, <2>7, <2>8, <2>9, <2>10, StepKeeps DEF Active, Ended
  <1> QED
    BY <1>2, <1>3

\* Copy: one more file, or one more error to note.
LEMMA CopyKeeps ==
    ASSUME ProfilesInv, NEW c \in Command, Copy(c)
    PROVE  ProfilesInv'
  <1>1. Active(c) /\ job[c].at = "copy" /\ UNCHANGED <<archive, robbed>> /\ TypeOK
    BY DEF Copy, Active, Ended, ProfilesInv
  <1>2. PICK f \in job[c].todo :
          /\ dir' = IF dir[Place(c)] = Absent THEN dir
                    ELSE [dir EXCEPT ![Place(c)][f] = "template"]
          /\ job' = [job EXCEPT ![c].todo = @ \ {f},
                                ![c].bad = @ \/ dir[Place(c)] = Absent]
    BY DEF Copy
  <1>3. job[c].kind \in {"create", "import"} /\ job[c] \in Job
    BY <1>1, Places DEF ProfilesInv, Own, Fits
  <1>4. /\ job' \in [Command -> Job] /\ \A d \in Command \ {c} : job'[d] = job[d]
        /\ job'[c].at = "copy" /\ job'[c].kind = job[c].kind
        /\ job'[c].name = job[c].name /\ job'[c].todo = job[c].todo \ {f}
        /\ ~job'[c].bad => ~job[c].bad /\ dir[Place(c)] # Absent
    BY <1>1, <1>2, <1>3 DEF TypeOK, Job
  <1>5. Place(c) \in {c, job[c].name} /\ Place(c) \in Name \cup Command /\ f \in File
    BY <1>1, Places DEF Place
  <1>6. /\ dir' \in [Name \cup Command -> Directory \cup {Absent}]
        /\ \A x \in Name \cup Command : x # Place(c) => dir'[x] = dir[x]
        /\ dir[Place(c)] = Absent => dir' = dir
        /\ dir[Place(c)] # Absent => /\ dir'[Place(c)] # Absent
                                     /\ Present(dir'[Place(c)]) = Present(dir[Place(c)]) \cup {f}
    <2>1. CASE dir[Place(c)] = Absent
      BY <1>1, <1>2, <2>1 DEF TypeOK
    <2>2. CASE dir[Place(c)] # Absent
      <3>1. dir[Place(c)] \in Directory
        BY <1>1, <1>5, <2>2 DEF TypeOK
      <3>2. "template" \in Version
        BY DEF Version
      <3>3. /\ [dir[Place(c)] EXCEPT ![f] = "template"] \in Directory
            /\ Present([dir[Place(c)] EXCEPT ![f] = "template"]) = Present(dir[Place(c)]) \cup {f}
        BY <1>5, <3>1, <3>2, FilesOf
      <3>4. dir' = [dir EXCEPT ![Place(c)] = [dir[Place(c)] EXCEPT ![f] = "template"]]
        BY <1>2, <2>2
      <3>5. dir'[Place(c)] = [dir[Place(c)] EXCEPT ![f] = "template"]
        BY <1>1, <1>5, <3>4 DEF TypeOK
      <3>6. dir'[Place(c)] # Absent
        BY <3>3, <3>5, NothingAssumption
      <3> QED
        BY <1>1, <1>5, <2>2, <3>3, <3>4, <3>5, <3>6 DEF TypeOK
    <2> QED
      BY <2>1, <2>2
  <1>7. TypeOK'
    BY <1>1, <1>4, <1>6 DEF TypeOK
  <1>8. Within(c)
    <2>1. Grows(job[c].name)
      BY <1>5, <1>6, Places, <1>1 DEF Grows
    <2> QED
      BY <1>1, <1>4, <1>5, <1>6, <2>1, Places DEF Within
  <1>9. Blamed(c)
    <2>1. CASE job[c].kind = "create"
      BY <1>4, <2>1 DEF Blamed, Answers
    <2>2. CASE job[c].kind = "import"
      BY <1>1, <1>4, <1>6, <2>2, Places DEF Blamed, Answers, Partial, Place
    <2> QED
      BY <1>3, <2>1, <2>2
  <1>10. Own(c)'
    <2>1. CopiesAll(c) /\ StagesAll(c)
      BY DEF ProfilesInv, Own
    <2>2. CopiesAll(c)'
      BY <1>1, <1>4, <1>6, <2>1 DEF CopiesAll, Target, Place
    <2>3. StagesAll(c)'
      BY <1>1, <1>3, <1>4, <1>6, <2>1 DEF StagesAll, Place
    <2> QED
      BY <1>3, <1>4, <2>2, <2>3 DEF Own, Fits, ReadsAll, RepairsAll
  <1>11. ArchiveIsWhole'
    BY <1>1 DEF ProfilesInv, ArchiveIsWhole, Whole, Present
  <1> QED
    BY <1>1, <1>4, <1>7, <1>8, <1>9, <1>10, <1>11, StepKeeps DEF Active, Ended

\* CopyEnds: a create that noted no error leaves a whole profile, an import has
\* a whole draft.
LEMMA CopyEndsKeeps ==
    ASSUME ProfilesInv, NEW c \in Command, CopyEnds(c)
    PROVE  ProfilesInv'
  <1>1. /\ Active(c) /\ job[c].at = "copy" /\ job[c].todo = {}
        /\ UNCHANGED <<archive, robbed>> /\ TypeOK
    BY DEF CopyEnds, Active, Ended, ProfilesInv
  <1>2. CASE Goto(c, "failed") /\ UNCHANGED dir
    BY <1>1, <1>2, FailureKeeps
  <1>3. CASE ~job[c].bad /\ job[c].kind = "create" /\ Goto(c, "done") /\ UNCHANGED dir
    <2>1. /\ job' \in [Command -> Job] /\ \A d \in Command \ {c} : job'[d] = job[d]
          /\ job'[c].at = "done" /\ job'[c].kind = job[c].kind /\ job'[c].name = job[c].name
      BY <1>1, <1>3, GotoMoves DEF Location, Ended
    <2>2. Own(c)'
      BY <2>1, OwnEnds DEF Ended
    <2>3. Within(c)
      BY <1>1, <1>3, <2>1 DEF Within, Grows
    <2>4. Blamed(c)
      <3>1. CASE c \in robbed
        BY <1>1, <3>1 DEF Blamed
      <3>2. CASE c \notin robbed
        <4>1. File \subseteq Present(Target(c))
          BY <1>1, <1>3, <3>2 DEF ProfilesInv, Own, CopiesAll
        <4>2. Whole(Target(c))
          BY <4>1 DEF Whole, File
        <4> QED
          BY <1>3, <2>1, <4>2 DEF Blamed, Partial, Target, Whole, Present
      <3> QED
        BY <3>1, <3>2
    <2>5. TypeOK' /\ ArchiveIsWhole'
      BY <1>1, <1>3, <2>1 DEF ProfilesInv, TypeOK, ArchiveIsWhole, Whole, Present
    <2> QED
      BY <1>1, <2>1, <2>2, <2>3, <2>4, <2>5, StepKeeps DEF Active, Ended
  <1>4. CASE /\ job[c].kind = "import"
             /\ dir' = [dir EXCEPT ![c] =
                          [f \in File |-> IF f \in Drafted THEN "imported" ELSE @[f]]]
             /\ Goto(c, "lock")
    <2>1. /\ job' \in [Command -> Job] /\ \A d \in Command \ {c} : job'[d] = job[d]
          /\ job'[c].at = "lock" /\ job'[c].kind = "import" /\ job'[c].name = job[c].name
      BY <1>1, <1>4, GotoMoves DEF Location, Ended
    <2>2. dir[c] \in Directory /\ File \subseteq Present(dir[c])
      BY <1>1, <1>4, Places DEF ProfilesInv, Own, StagesAll
    <2> DEFINE draft == [f \in File |-> IF f \in Drafted THEN "imported" ELSE dir[c][f]]
    <2>3. draft \in Directory /\ \A f \in File : draft[f] # Missing
      BY <2>2, FilesOf, NothingAssumption DEF Directory, Version
    <2>4. dir' = [dir EXCEPT ![c] = draft]
      BY <1>4
    <2> HIDE DEF draft
    <2>5. /\ dir' \in [Name \cup Command -> Directory \cup {Absent}]
          /\ \A x \in Name \cup Command : x # c => dir'[x] = dir[x]
          /\ dir'[c] = draft
      BY <1>1, <2>3, <2>4 DEF TypeOK
    <2>6. dir'[c] # Absent /\ Whole(dir'[c])
      BY <2>3, <2>5, NothingAssumption DEF Whole, Present, File
    <2>7. Own(c)'
      BY <2>1, <2>6 DEF Own, Fits, ReadsAll, StagesAll, CopiesAll, RepairsAll, Whole, Present
    <2>8. Within(c) /\ Blamed(c)
      <3>1. ~Answers(c, job[c].name)
        BY <1>1, <1>4 DEF Answers
      <3> QED
        BY <1>1, <2>1, <2>5, <3>1, Places, QuietStep
    <2>9. TypeOK' /\ ArchiveIsWhole'
      BY <1>1, <2>1, <2>5 DEF ProfilesInv, TypeOK, ArchiveIsWhole, Whole, Present
    <2> QED
      BY <1>1, <2>1, <2>7, <2>8, <2>9, StepKeeps DEF Active, Ended
  <1> QED
    BY <1>2, <1>3, <1>4 DEF CopyEnds

\* RepairTest: a file that is there is done with, a missing one is copied next.
LEMMA RepairTestKeeps ==
    ASSUME ProfilesInv, NEW c \in Command, RepairTest(c)
    PROVE  ProfilesInv'
  <1>1. Active(c) /\ job[c].at = "test" /\ UNCHANGED <<dir, archive, robbed>> /\ TypeOK
    BY DEF RepairTest, Active, Ended, ProfilesInv
  <1>2. PICK f \in job[c].todo :
          job' = IF job[c].over \/ f \notin Present(Target(c))
                 THEN [job EXCEPT ![c].at = "write", ![c].todo = @ \ {f},
                                  ![c].got[f] = "template"]
                 ELSE [job EXCEPT ![c].todo = @ \ {f}]
    BY DEF RepairTest
  <1>3. /\ job[c].kind = "repair" /\ job[c] \in Job /\ job[c].got = Empty /\ f \in File
        /\ RepairsAll(c)
    BY <1>1, Places DEF ProfilesInv, Own, Fits, RepairsAll
  <1>4. ~Answers(c, job[c].name)
    BY <1>1 DEF Answers
  <1>5. CASE job' = [job EXCEPT ![c].at = "write", ![c].todo = @ \ {f},
                                ![c].got[f] = "template"]
    <2> DEFINE one == [Empty EXCEPT ![f] = "template"]
    <2>1. one \in Directory /\ Present(one) = {f}
      <3>1. "template" \in Version
        BY DEF Version
      <3>2. one \in Directory /\ Present(one) = Present(Empty) \cup {f}
        BY <1>3, <3>1, FileWritten, FilesOfEmpty
      <3> QED
        BY <3>2, FilesOfEmpty
    <2>2. job' = [job EXCEPT ![c] = [job[c] EXCEPT !.at = "write", !.todo = @ \ {f}, !.got = one]]
      <3>1. [job[c].got EXCEPT ![f] = "template"] = one
        BY <1>3
      <3>2. job' = [job EXCEPT ![c] = [job[c] EXCEPT !.at = "write", !.todo = @ \ {f},
                                          !.got = [job[c].got EXCEPT ![f] = "template"]]]
        BY <1>1, <1>5 DEF TypeOK
      <3> HIDE DEF one
      <3> QED
        BY <3>1, <3>2
    <2> HIDE DEF one
    <2>3. /\ job' \in [Command -> Job] /\ \A d \in Command \ {c} : job'[d] = job[d]
          /\ job'[c].at = "write" /\ job'[c].kind = "repair" /\ job'[c].name = job[c].name
          /\ job'[c].todo = job[c].todo \ {f} /\ job'[c].got = one
          /\ job'[c].asked = job[c].asked
      BY <1>1, <1>3, <2>1, <2>2 DEF TypeOK, Job, Location
    <2>4. RepairsAll(c)'
      BY <1>1, <1>3, <2>1, <2>3, FilesOfEmpty DEF RepairsAll, Target, Present
    <2>5. Own(c)'
      BY <2>3, <2>4 DEF Own, Fits, ReadsAll, StagesAll, CopiesAll
    <2> QED
      BY <1>1, <1>4, <2>3, <2>5, QuietKeeps
  <1>6. CASE f \in Present(Target(c)) /\ job' = [job EXCEPT ![c].todo = @ \ {f}]
    <2>1. /\ job' \in [Command -> Job] /\ \A d \in Command \ {c} : job'[d] = job[d]
          /\ job'[c].at = "test" /\ job'[c].kind = "repair" /\ job'[c].name = job[c].name
          /\ job'[c].todo = job[c].todo \ {f} /\ job'[c].got = job[c].got
          /\ job'[c].asked = job[c].asked
      BY <1>1, <1>3, <1>6 DEF TypeOK, Job
    <2>2. RepairsAll(c)'
      BY <1>1, <1>3, <1>6, <2>1 DEF RepairsAll, Target, Present
    <2>3. Own(c)'
      BY <2>1, <2>2 DEF Own, Fits, ReadsAll, StagesAll, CopiesAll
    <2> QED
      BY <1>1, <1>4, <2>1, <2>3, QuietKeeps
  <1> QED
    BY <1>2, <1>5, <1>6

\* What Put does to the profile and to nothing else.
LEMMA PutAdds ==
    ASSUME TypeOK, NEW c \in Command, NEW f \in File, NEW v \in Version,
           Put(job[c].name, f, v)
    PROVE  /\ dir' \in [Name \cup Command -> Directory \cup {Absent}]
           /\ \A x \in Name \cup Command : x # job[c].name => dir'[x] = dir[x]
           /\ dir'[job[c].name] # Absent
           /\ Present(dir'[job[c].name]) = Present(dir[job[c].name]) \cup {f}
  <1> DEFINE n == job[c].name
             before == IF dir[n] = Absent THEN Empty ELSE dir[n]
             after == [before EXCEPT ![f] = v]
  <1>1. before \in Directory /\ Present(before) = Present(dir[n])
    BY Places, FilesOfEmpty
  <1>2. after \in Directory /\ Present(after) = Present(before) \cup {f} /\ after # Absent
    <2> HIDE DEF before
    <2> QED
      BY <1>1, FilesOf, NothingAssumption
  <1>3. dir' = [dir EXCEPT ![n] = after]
    BY DEF Put
  <1> HIDE DEF before, after
  <1> QED
    BY <1>1, <1>2, <1>3, Places DEF TypeOK

\* RepairWrite: the profile has the file; unless it was deleted meanwhile it had
\* the others.
LEMMA RepairWriteKeeps ==
    ASSUME ProfilesInv, NEW c \in Command, RepairWrite(c)
    PROVE  ProfilesInv'
  <1>1. Active(c) /\ job[c].at = "write" /\ UNCHANGED <<archive, robbed>> /\ TypeOK
    BY DEF RepairWrite, Active, Ended, ProfilesInv
  <1>2. /\ job[c].kind = "repair" /\ job[c] \in Job /\ RepairsAll(c)
    BY <1>1, Places DEF ProfilesInv, Own, Fits
  <1>3. PICK f \in File : Present(job[c].got) = {f}
    BY <1>1, <1>2 DEF RepairsAll
  <1>4. Put(job[c].name, f, "template")
    BY <1>3 DEF RepairWrite
  <1>5. /\ job' \in [Command -> Job] /\ \A d \in Command \ {c} : job'[d] = job[d]
        /\ job'[c].at = "test" /\ job'[c].kind = "repair" /\ job'[c].name = job[c].name
        /\ job'[c].todo = job[c].todo /\ job'[c].got = Empty /\ job'[c].asked = job[c].asked
    BY <1>1, <1>2, FilesOfEmpty DEF RepairWrite, TypeOK, Job, Location
  <1>6. /\ dir' \in [Name \cup Command -> Directory \cup {Absent}]
        /\ \A x \in Name \cup Command : x # job[c].name => dir'[x] = dir[x]
        /\ dir'[job[c].name] # Absent
        /\ Present(dir'[job[c].name]) = Present(dir[job[c].name]) \cup {f}
    BY <1>1, <1>4, PutAdds DEF Version
  <1>7. TypeOK' /\ ArchiveIsWhole'
    BY <1>1, <1>5, <1>6 DEF ProfilesInv, TypeOK, ArchiveIsWhole, Whole, Present
  <1>8. Within(c)
    <2>1. Grows(job[c].name)
      BY <1>6 DEF Grows
    <2> QED
      BY <1>1, <1>5, <1>6, <2>1, Places DEF Within
  <1>9. RepairsAll(c)'
    BY <1>1, <1>2, <1>3, <1>5, <1>6, FilesOfEmpty DEF RepairsAll, Target
  <1>10. Own(c)'
    BY <1>5, <1>9 DEF Own, Fits, ReadsAll, StagesAll, CopiesAll
  <1>11. Blamed(c)
    <2>1. CASE c \in robbed
      BY <1>1, <2>1 DEF Blamed
    <2>2. CASE c \notin robbed
      <3>1. dir[job[c].name] # Absent /\ ~Answers(c, job[c].name)
        BY <1>1, <1>2, <2>2 DEF RepairsAll, Target, Answers
      <3>2. Whole(dir[job[c].name]) => Whole(dir'[job[c].name])
        BY <1>6 DEF Whole
      <3> QED
        BY <1>5, <3>1, <3>2 DEF Blamed, Partial, Whole, Present
    <2> QED
      BY <2>1, <2>2
  <1> QED
    BY <1>1, <1>5, <1>7, <1>8, <1>10, <1>11, StepKeeps DEF Active, Ended

\* A command that ends normally and leaves the profile as it is.
LEMMA DoneKeeps ==
    ASSUME ProfilesInv, NEW c \in Command, Active(c), Goto(c, "done"),
           UNCHANGED <<dir, archive, robbed>>, ~Answers(c, job[c].name)
    PROVE  ProfilesInv'
  <1>1. /\ job' \in [Command -> Job] /\ \A d \in Command \ {c} : job'[d] = job[d]
        /\ job'[c].at = "done" /\ job'[c].name = job[c].name
    BY GotoMoves DEF ProfilesInv, Location, Ended
  <1>2. Own(c)'
    BY <1>1, OwnEnds DEF Ended
  <1> QED
    BY <1>1, <1>2, QuietKeeps

\* RepairEnds.
LEMMA RepairEndsKeeps ==
    ASSUME ProfilesInv, NEW c \in Command, RepairEnds(c)
    PROVE  ProfilesInv'
  <1>1. Active(c) /\ ~Answers(c, job[c].name)
    BY DEF RepairEnds, Active, Ended, Answers
  <1> QED
    BY <1>1, DoneKeeps DEF RepairEnds

\* ReadFile: a missing required file fails the command.
LEMMA ReadFileKeeps ==
    ASSUME ProfilesInv, NEW c \in Command, ReadFile(c)
    PROVE  ProfilesInv'
  <1>1. Active(c) /\ job[c].at = "read" /\ UNCHANGED <<dir, archive, robbed>> /\ TypeOK
    BY DEF ReadFile, Active, Ended, ProfilesInv
  <1>2. PICK f \in job[c].todo :
          IF f \in Present(Target(c))
          THEN job' = [job EXCEPT ![c].todo = @ \ {f}, ![c].got[f] = Target(c)[f]]
          ELSE IF f \in Required THEN Goto(c, "failed")
          ELSE job' = [job EXCEPT ![c].todo = @ \ {f}]
    BY DEF ReadFile
  <1>3. /\ job[c].kind \in {"save", "archive"} /\ job[c] \in Job /\ f \in File
        /\ ReadsAll(c) /\ job[c].got \in Directory
    BY <1>1, Places DEF ProfilesInv, Own, Fits
  <1>4. ~Answers(c, job[c].name)
    BY <1>1 DEF Answers
  <1>5. CASE f \in Present(Target(c))
    <2> DEFINE more == [job[c].got EXCEPT ![f] = Target(c)[f]]
    <2>1. Target(c)[f] \in Version
      BY <1>1, <1>3, <1>5, Places, FilesOfEmpty DEF Directory, Present
    <2>2. more \in Directory /\ Present(more) = Present(job[c].got) \cup {f}
      BY <1>3, <2>1, FileWritten
    <2>3. job' = [job EXCEPT ![c] = [job[c] EXCEPT !.todo = @ \ {f}, !.got = more]]
      <3>1. job' = [job EXCEPT ![c].todo = @ \ {f}, ![c].got[f] = Target(c)[f]]
        BY <1>2, <1>5
      <3>2. job' = [job EXCEPT ![c] = [job[c] EXCEPT !.todo = @ \ {f},
                                          !.got = [job[c].got EXCEPT ![f] = Target(c)[f]]]]
        BY <1>1, <3>1 DEF TypeOK
      <3> QED
        BY <3>2
    <2> HIDE DEF more
    <2>4. /\ job' \in [Command -> Job] /\ \A d \in Command \ {c} : job'[d] = job[d]
          /\ job'[c].at = "read" /\ job'[c].kind = job[c].kind /\ job'[c].name = job[c].name
          /\ job'[c].todo = job[c].todo \ {f} /\ job'[c].got = more
      BY <1>1, <1>3, <2>2, <2>3 DEF TypeOK, Job
    <2>5. ReadsAll(c)'
      BY <1>1, <1>3, <1>5, <2>2, <2>4 DEF ReadsAll, Target, Present
    <2>6. Own(c)'
      BY <1>3, <2>4, <2>5 DEF Own, Fits, StagesAll, CopiesAll, RepairsAll
    <2> QED
      BY <1>1, <1>4, <2>4, <2>6, QuietKeeps
  <1>6. CASE f \notin Present(Target(c)) /\ f \in Required
    BY <1>1, <1>2, <1>6, FailureKeeps
  <1>7. CASE f \notin Present(Target(c)) /\ f \notin Required
    <2>1. job' = [job EXCEPT ![c].todo = @ \ {f}]
      BY <1>2, <1>7
    <2>2. /\ job' \in [Command -> Job] /\ \A d \in Command \ {c} : job'[d] = job[d]
          /\ job'[c].at = "read" /\ job'[c].kind = job[c].kind /\ job'[c].name = job[c].name
          /\ job'[c].todo = job[c].todo \ {f} /\ job'[c].got = job[c].got
      BY <1>1, <1>3, <2>1 DEF TypeOK, Job
    <2>3. ReadsAll(c)'
      BY <1>1, <1>3, <1>7, <2>2 DEF ReadsAll, Target, Present
    <2>4. Own(c)'
      BY <1>3, <2>2, <2>3 DEF Own, Fits, StagesAll, CopiesAll, RepairsAll
    <2> QED
      BY <1>1, <1>4, <2>2, <2>4, QuietKeeps
  <1> QED
    BY <1>5, <1>6, <1>7

\* Save: the command has read every required file, so the profile is whole, or
\* files were deleted under it.
LEMMA SaveKeeps ==
    ASSUME ProfilesInv, NEW c \in Command, Save(c)
    PROVE  ProfilesInv'
  <1>1. /\ Active(c) /\ job[c].at = "read" /\ job[c].kind = "save" /\ job[c].todo = {}
        /\ UNCHANGED <<archive, robbed>> /\ TypeOK /\ Goto(c, "done")
    BY DEF Save, Active, Ended, ProfilesInv
  <1>2. PICK f \in Required : Put(job[c].name, f, "edited")
    BY DEF Save
  <1>3. /\ job' \in [Command -> Job] /\ \A d \in Command \ {c} : job'[d] = job[d]
        /\ job'[c].at = "done" /\ job'[c].name = job[c].name
    BY <1>1, GotoMoves DEF Location, Ended
  <1>4. /\ dir' \in [Name \cup Command -> Directory \cup {Absent}]
        /\ \A x \in Name \cup Command : x # job[c].name => dir'[x] = dir[x]
        /\ dir'[job[c].name] # Absent
        /\ Present(dir'[job[c].name]) = Present(dir[job[c].name]) \cup {f}
    BY <1>1, <1>2, PutAdds DEF Version, File
  <1>5. TypeOK' /\ ArchiveIsWhole'
    BY <1>1, <1>3, <1>4 DEF ProfilesInv, TypeOK, ArchiveIsWhole, Whole, Present
  <1>6. Within(c)
    <2>1. Grows(job[c].name)
      BY <1>4 DEF Grows
    <2> QED
      BY <1>1, <1>3, <1>4, <2>1, Places DEF Within
  <1>7. Own(c)'
    BY <1>3, OwnEnds DEF Ended
  <1>8. Blamed(c)
    <2>1. CASE c \in robbed
      BY <1>1, <2>1 DEF Blamed
    <2>2. CASE c \notin robbed
      <3>1. Required \subseteq Present(dir[job[c].name])
        BY <1>1, <2>2 DEF ProfilesInv, Own, ReadsAll, Target
      <3>2. Whole(dir'[job[c].name])
        BY <1>4, <3>1 DEF Whole
      <3> QED
        BY <1>3, <3>2 DEF Blamed, Partial, Whole, Present
    <2> QED
      BY <2>1, <2>2
  <1> QED
    BY <1>1, <1>3, <1>5, <1>6, <1>7, <1>8, StepKeeps DEF Active, Ended

\* WriteArchive: every required file has been read.
LEMMA WriteArchiveKeeps ==
    ASSUME ProfilesInv, NEW c \in Command, WriteArchive(c)
    PROVE  ProfilesInv'
  <1>1. /\ Active(c) /\ job[c].at = "read" /\ job[c].kind = "archive" /\ job[c].todo = {}
        /\ UNCHANGED <<dir, robbed>> /\ TypeOK /\ Goto(c, "done")
        /\ archive' = job[c].got
    BY DEF WriteArchive, Active, Ended, ProfilesInv
  <1>2. /\ job' \in [Command -> Job] /\ \A d \in Command \ {c} : job'[d] = job[d]
        /\ job'[c].at = "done" /\ job'[c].name = job[c].name
    BY <1>1, GotoMoves DEF Location, Ended
  <1>3. Own(c)'
    BY <1>2, OwnEnds DEF Ended
  <1>4. Within(c) /\ Blamed(c)
    <2>1. ~Answers(c, job[c].name)
      BY <1>1 DEF Answers
    <2> QED
      BY <1>1, <1>2, <2>1, QuietStep
  <1>5. archive' \in Directory /\ Whole(archive')
    BY <1>1, Places DEF ProfilesInv, Own, ReadsAll, Whole
  <1>6. TypeOK' /\ ArchiveIsWhole'
    BY <1>1, <1>2, <1>5 DEF TypeOK, ArchiveIsWhole, Whole, Present
  <1> QED
    BY <1>1, <1>2, <1>3, <1>4, <1>6, StepKeeps DEF Active, Ended

\* Enter: in the lock the profile is still absent, or the command gives up.
LEMMA EnterKeeps ==
    ASSUME ProfilesInv, NEW c \in Command, Enter(c)
    PROVE  ProfilesInv'
  <1>1. /\ Active(c) /\ job[c].at = "lock" /\ UNCHANGED <<archive, robbed>> /\ TypeOK
        /\ job[c].kind \in {"restore", "import"} /\ job[c] \in Job /\ StagesAll(c)
    BY Places DEF Enter, Active, Ended, ProfilesInv, Own, Fits
  <1>2. ~Answers(c, job[c].name)
    BY <1>1 DEF Answers
  <1>3. CASE Goto(c, "failed") /\ dir' = dir
    BY <1>1, <1>3, FailureKeeps
  <1>4. ASSUME NEW at \in {"cleanup", "rename"}, Goto(c, at), dir' = dir,
               at = "rename" => job[c].kind = "import"
        PROVE  ProfilesInv'
    <2>1. /\ job' \in [Command -> Job] /\ \A d \in Command \ {c} : job'[d] = job[d]
          /\ job'[c].at = at /\ job'[c].kind = job[c].kind /\ job'[c].name = job[c].name
          /\ job'[c].got = job[c].got
      BY <1>1, <1>4, GotoMoves DEF Location, Ended
    <2>2. StagesAll(c)'
      BY <1>1, <1>4, <2>1 DEF StagesAll, Whole, Present, Active
    <2>3. Own(c)'
      BY <1>1, <1>4, <2>1, <2>2 DEF Own, Fits, ReadsAll, CopiesAll, RepairsAll
    <2> QED
      BY <1>1, <1>2, <1>4, <2>1, <2>3, QuietKeeps
  <1>5. CASE /\ job[c].kind = "restore"
             /\ dir' = [dir EXCEPT ![c] = Empty]
             /\ job' = [job EXCEPT ![c].at = "stage", ![c].todo = Present(job[c].got)]
    <2>1. Present(job[c].got) \subseteq File /\ Whole(job[c].got)
      BY <1>1, <1>5 DEF Present, StagesAll
    <2>2. /\ job' \in [Command -> Job] /\ \A d \in Command \ {c} : job'[d] = job[d]
          /\ job'[c].at = "stage" /\ job'[c].kind = "restore" /\ job'[c].name = job[c].name
          /\ job'[c].got = job[c].got /\ job'[c].todo = Present(job[c].got)
      BY <1>1, <1>5, <2>1 DEF TypeOK, Job, Location
    <2>3. /\ dir' \in [Name \cup Command -> Directory \cup {Absent}]
          /\ \A x \in Name \cup Command : x # c => dir'[x] = dir[x]
          /\ dir'[c] = Empty /\ Empty # Absent
      BY <1>1, <1>5, FilesOfEmpty, NothingAssumption DEF TypeOK
    <2>4. StagesAll(c)'
      BY <2>1, <2>2, <2>3 DEF StagesAll, Whole, Present
    <2>5. Own(c)'
      BY <2>2, <2>4 DEF Own, Fits, ReadsAll, CopiesAll, RepairsAll
    <2>6. Within(c) /\ Blamed(c)
      BY <1>1, <1>2, <2>2, <2>3, Places, QuietStep
    <2>7. TypeOK' /\ ArchiveIsWhole'
      BY <1>1, <2>2, <2>3 DEF ProfilesInv, TypeOK, ArchiveIsWhole, Whole, Present
    <2> QED
      BY <1>1, <2>2, <2>5, <2>6, <2>7, StepKeeps DEF Active, Ended
  <1>6. CASE job[c].kind = "import" /\ Goto(c, "rename") /\ dir' = dir
    BY <1>4, <1>6
  <1>7. CASE Goto(c, "cleanup") /\ dir' = dir
    BY <1>4, <1>7
  <1> QED
    BY <1>3, <1>5, <1>6, <1>7 DEF Enter

\* A command that has to clear its staging directory.
LEMMA CleanupNext ==
    ASSUME ProfilesInv, NEW c \in Command, Active(c), Goto(c, "cleanup"),
           job[c].kind \in {"restore", "import"}, UNCHANGED <<dir, archive, robbed>>
    PROVE  ProfilesInv'
  <1>1. /\ job' \in [Command -> Job] /\ \A d \in Command \ {c} : job'[d] = job[d]
        /\ job'[c].at = "cleanup" /\ job'[c].kind = job[c].kind /\ job'[c].name = job[c].name
        /\ job'[c].got = job[c].got
    BY GotoMoves DEF ProfilesInv, Location, Ended
  <1>2. job[c].kind = "restore" => Whole(job[c].got)
    BY DEF ProfilesInv, Own, StagesAll
  <1>3. Own(c)'
    BY <1>1, <1>2 DEF Own, Fits, ReadsAll, StagesAll, CopiesAll, RepairsAll, Whole, Present
  <1>4. ~Answers(c, job[c].name)
    BY DEF Answers, Active, Ended
  <1> QED
    BY <1>1, <1>3, <1>4, QuietKeeps

\* LockTimeout.
LEMMA LockTimeoutKeeps ==
    ASSUME ProfilesInv, NEW c \in Command, LockTimeout(c)
    PROVE  ProfilesInv'
  <1>1. Active(c) /\ job[c].kind \in {"restore", "import"}
    BY DEF LockTimeout, Active, Ended, ProfilesInv, Own, Fits
  <1>2. CASE job[c].kind = "import"
    BY <1>1, <1>2, CleanupNext DEF LockTimeout
  <1>3. CASE job[c].kind # "import"
    BY <1>1, <1>3, FailureKeeps DEF LockTimeout
  <1> QED
    BY <1>2, <1>3

\* StageFails.
LEMMA StageFailsKeeps ==
    ASSUME ProfilesInv, NEW c \in Command, StageFails(c)
    PROVE  ProfilesInv'
  <1>1. Active(c) /\ job[c].kind \in {"restore", "import"}
    BY DEF StageFails, Active, Ended, ProfilesInv, Own, Fits
  <1> QED
    BY <1>1, CleanupNext DEF StageFails

\* Stage: one more archived file; with the last one the staging directory is
\* whole.
LEMMA StageKeeps ==
    ASSUME ProfilesInv, NEW c \in Command, Stage(c)
    PROVE  ProfilesInv'
  <1>1. /\ Active(c) /\ job[c].at = "stage" /\ UNCHANGED <<archive, robbed>> /\ TypeOK
        /\ job[c].kind = "restore" /\ job[c] \in Job /\ StagesAll(c)
    BY Places DEF Stage, Active, Ended, ProfilesInv, Own, Fits
  <1>2. PICK f \in job[c].todo :
          /\ dir' = [dir EXCEPT ![c][f] = job[c].got[f]]
          /\ job' = [job EXCEPT ![c].todo = @ \ {f},
                                ![c].at = IF job[c].todo = {f} THEN "rename" ELSE @]
    BY DEF Stage
  <1>3. f \in File /\ dir[c] \in Directory /\ job[c].got \in Directory
    BY <1>1, Places DEF StagesAll
  <1>4. /\ job' \in [Command -> Job] /\ \A d \in Command \ {c} : job'[d] = job[d]
        /\ job'[c].at = (IF job[c].todo = {f} THEN "rename" ELSE "stage")
        /\ job'[c].kind = "restore" /\ job'[c].name = job[c].name
        /\ job'[c].got = job[c].got /\ job'[c].todo = job[c].todo \ {f}
    BY <1>1, <1>2 DEF TypeOK, Job, Location
  <1> DEFINE staged == [dir[c] EXCEPT ![f] = job[c].got[f]]
  <1>5. job[c].got[f] \in Version
    BY <1>1, <1>3, FilesOf DEF StagesAll, Directory
  <1>6. staged \in Directory /\ staged # Absent /\ Present(staged) = Present(dir[c]) \cup {f}
    BY <1>3, <1>5, FileWritten, NothingAssumption
  <1>7. dir' = [dir EXCEPT ![c] = staged]
    BY <1>1, <1>2, Places DEF TypeOK
  <1> HIDE DEF staged
  <1>8. /\ dir' \in [Name \cup Command -> Directory \cup {Absent}]
        /\ \A x \in Name \cup Command : x # c => dir'[x] = dir[x]
        /\ dir'[c] = staged
    BY <1>1, <1>6, <1>7, Places DEF TypeOK
  <1>9. Required \subseteq Present(staged) \cup (job[c].todo \ {f})
    BY <1>1, <1>6 DEF StagesAll
  <1>10. StagesAll(c)'
    <2>1. Whole(job[c].got)
      BY <1>1 DEF StagesAll
    <2>2. job[c].todo \ {f} \subseteq Present(job[c].got)
      BY <1>1 DEF StagesAll
    <2>3. job[c].todo = {f} => Whole(staged)
      BY <1>9 DEF Whole
    <2> QED
      BY <1>4, <1>6, <1>8, <1>9, <2>1, <2>2, <2>3 DEF StagesAll, Whole, Present
  <1>11. Own(c)'
    BY <1>4, <1>10 DEF Own, Fits, ReadsAll, CopiesAll, RepairsAll
  <1>12. Within(c) /\ Blamed(c)
    <2>1. ~Answers(c, job[c].name)
      BY <1>1 DEF Answers
    <2> QED
      BY <1>1, <1>4, <1>8, <2>1, Places, QuietStep
  <1>13. TypeOK' /\ ArchiveIsWhole'
    BY <1>1, <1>4, <1>8 DEF ProfilesInv, TypeOK, ArchiveIsWhole, Whole, Present
  <1> QED
    BY <1>1, <1>4, <1>11, <1>12, <1>13, StepKeeps DEF Active, Ended

\* Rename: the profile is what was staged, and that is whole.
LEMMA RenameKeeps ==
    ASSUME ProfilesInv, NEW c \in Command, Rename(c)
    PROVE  ProfilesInv'
  <1>1. /\ Active(c) /\ job[c].at = "rename" /\ UNCHANGED <<archive, robbed>> /\ TypeOK
        /\ job[c].kind \in {"restore", "import"} /\ StagesAll(c)
    BY DEF Rename, Active, Ended, ProfilesInv, Own, Fits
  <1>2. CASE Target(c) \notin {Absent, Empty}
    BY <1>1, <1>2, CleanupNext DEF Rename
  <1>3. CASE Target(c) \in {Absent, Empty}
    <2>1. Goto(c, "done") /\ dir' = [dir EXCEPT ![job[c].name] = dir[c], ![c] = Absent]
      BY <1>3 DEF Rename
    <2>2. /\ job' \in [Command -> Job] /\ \A d \in Command \ {c} : job'[d] = job[d]
          /\ job'[c].at = "done" /\ job'[c].name = job[c].name
      BY <1>1, <2>1, GotoMoves DEF Location, Ended
    <2>3. dir[c] \in Directory /\ dir[c] # Absent /\ Whole(dir[c])
      BY <1>1, Places DEF StagesAll
    <2>4. /\ dir' \in [Name \cup Command -> Directory \cup {Absent}]
          /\ \A x \in Name \cup Command : x # c /\ x # job[c].name => dir'[x] = dir[x]
          /\ dir'[job[c].name] = dir[c]
      BY <1>1, <2>1, <2>3, Places DEF TypeOK
    <2>5. Grows(job[c].name)
      BY <1>1, <1>3, <2>3, <2>4, FilesOfEmpty, Places DEF Grows
    <2>6. Within(c)
      BY <1>1, <2>2, <2>4, <2>5, Places DEF Within
    <2>7. Blamed(c)
      BY <2>2, <2>3, <2>4 DEF Blamed, Partial, Whole, Present
    <2>8. Own(c)'
      BY <2>2, OwnEnds DEF Ended
    <2>9. TypeOK' /\ ArchiveIsWhole'
      BY <1>1, <2>2, <2>4 DEF ProfilesInv, TypeOK, ArchiveIsWhole, Whole, Present
    <2> QED
      BY <1>1, <2>2, <2>6, <2>7, <2>8, <2>9, StepKeeps DEF Active, Ended
  <1> QED
    BY <1>2, <1>3

\* Cleanup: the staging directory goes, the command has failed.
LEMMA CleanupKeeps ==
    ASSUME ProfilesInv, NEW c \in Command, Cleanup(c)
    PROVE  ProfilesInv'
  <1>1. /\ Active(c) /\ UNCHANGED <<archive, robbed>> /\ TypeOK
        /\ Goto(c, "failed") /\ dir' = [dir EXCEPT ![c] = Absent]
    BY DEF Cleanup, Active, Ended, ProfilesInv
  <1>2. /\ job' \in [Command -> Job] /\ \A d \in Command \ {c} : job'[d] = job[d]
        /\ job'[c].at = "failed" /\ job'[c].name = job[c].name
    BY <1>1, GotoMoves DEF Location, Ended
  <1>3. /\ dir' \in [Name \cup Command -> Directory \cup {Absent}]
        /\ \A x \in Name \cup Command : x # c => dir'[x] = dir[x]
    BY <1>1 DEF TypeOK
  <1>4. Answers(c, job[c].name)'
    BY <1>2 DEF Answers
  <1>5. Within(c) /\ Blamed(c)
    BY <1>1, <1>2, <1>3, <1>4, Places, QuietStep
  <1>6. Own(c)'
    BY <1>2, OwnEnds DEF Ended
  <1>7. TypeOK' /\ ArchiveIsWhole'
    BY <1>1, <1>2, <1>3 DEF ProfilesInv, TypeOK, ArchiveIsWhole, Whole, Present
  <1> QED
    BY <1>1, <1>2, <1>5, <1>6, <1>7, StepKeeps DEF Active, Ended

-----------------------------------------------------------------------------
(* The theorems.                                                           *)

\* At first each profile is whole or absent and nothing has begun.
LEMMA ProfilesStart == Init => ProfilesInv
  <1> SUFFICES ASSUME Init PROVE ProfilesInv
    OBVIOUS
  <1>1. Uniform("edited") \in Directory /\ Whole(Uniform("edited"))
    <2>1. Uniform("edited") \in Directory
      BY DEF Uniform, Directory, Version
    <2>2. \A f \in File : Uniform("edited")[f] # Missing
      BY NothingAssumption DEF Uniform, Version
    <2>3. Uniform("edited") # Absent
      BY <2>1, NothingAssumption
    <2> QED
      BY <2>1, <2>2, <2>3 DEF Whole, Present, File
  <1>2. PICK d \in [Name -> {Absent, Uniform("edited")}] :
          dir = [p \in Name \cup Command |-> IF p \in Name THEN d[p] ELSE Absent]
    BY DEF Init
  <1>3. /\ dir \in [Name \cup Command -> Directory \cup {Absent}]
        /\ \A c \in Command : dir[c] = Absent
        /\ \A m \in Name : dir[m] = Absent \/ Whole(dir[m])
    BY <1>1, <1>2, ProfilesAssumption
  <1>4. PICK m \in Name :
          job = [c \in Command |->
                   [kind |-> "none", name |-> m, over |-> FALSE, at |-> "idle",
                    asked |-> {}, todo |-> {}, got |-> Empty, bad |-> FALSE]]
    BY DEF Init
  <1> DEFINE r == [kind |-> "none", name |-> m, over |-> FALSE, at |-> "idle",
                   asked |-> {}, todo |-> {}, got |-> Empty, bad |-> FALSE]
  <1>5. r \in Job /\ r.at = "idle" /\ r.kind = "none"
    BY FilesOfEmpty DEF Job, Kind, Location
  <1>6. job = [c \in Command |-> r]
    BY <1>4
  <1> HIDE DEF r
  <1>7. job \in [Command -> Job] /\ \A c \in Command : job[c] = r
    BY <1>5, <1>6
  <1>8. TypeOK /\ ArchiveIsWhole
    BY <1>1, <1>3, <1>7 DEF Init, TypeOK, ArchiveIsWhole
  <1>9. \A c \in Command : Own(c)
    BY <1>3, <1>5, <1>7 DEF Own, Fits, ReadsAll, StagesAll, CopiesAll, RepairsAll, Active
  <1>10. PartialIsBlamed
    BY <1>3 DEF PartialIsBlamed, Partial
  <1> QED
    BY <1>8, <1>9, <1>10 DEF ProfilesInv

\* Every step keeps the invariant.
LEMMA ProfilesStep == ProfilesInv /\ [Next]_vars => ProfilesInv'
  <1> SUFFICES ASSUME ProfilesInv, [Next]_vars
               PROVE  ProfilesInv'
    OBVIOUS
  <1>1. ASSUME NEW c \in Command, Start(c)
        PROVE  ProfilesInv'
    BY <1>1, StartKeeps
  <1>2. ASSUME NEW c \in Command, Step(c)
        PROVE  ProfilesInv'
    BY <1>2, ListKeeps, UnlinkKeeps, RmdirKeeps, MakeKeeps, CopyKeeps, CopyEndsKeeps,
       RepairTestKeeps, RepairWriteKeeps, RepairEndsKeeps, ReadFileKeeps, SaveKeeps,
       WriteArchiveKeeps, EnterKeeps, LockTimeoutKeeps, StageKeeps, StageFailsKeeps,
       RenameKeeps, CleanupKeeps DEF Step
  <1>3. ASSUME NEW c \in Command, Crash(c)
        PROVE  ProfilesInv'
    BY <1>3, FailureKeeps DEF Crash
  <1>4. CASE UNCHANGED vars
    BY <1>4 DEF vars, ProfilesInv, TypeOK, ArchiveIsWhole, Own, Fits, ReadsAll, StagesAll,
               CopiesAll, RepairsAll, PartialIsBlamed, Partial, Answers, Whole, Present,
               Target, Active
  <1> QED
    BY <1>1, <1>2, <1>3, <1>4 DEF Next

\* The invariant of the profile directories holds in every reachable state.
THEOREM ProfilesInvariant == Spec => []ProfilesInv
  BY ProfilesStart, ProfilesStep, PTL DEF Spec

\* An archive has every required file, whatever became of the profile while it
\* was read (profile_archive.py, archive_profile).
THEOREM ArchivesAreWhole == Spec => []ArchiveIsWhole
  <1>1. ProfilesInv => ArchiveIsWhole
    BY DEF ProfilesInv
  <1> QED
    BY <1>1, ProfilesInvariant, PTL

\* Where every command ended normally and none had files deleted under it, every
\* profile is complete (config.py).
THEOREM SettledAreWhole == Spec => []SettledIsWhole
  <1>1. ProfilesInv => SettledIsWhole
    <2> SUFFICES ASSUME ProfilesInv, \A c \in Command : job[c].at \in {"idle", "done"},
                        robbed = {}, NEW n \in Name, dir[n] # Absent
                 PROVE  Whole(dir[n])
      BY DEF SettledIsWhole
    <2>1. \A c \in Command : ~Answers(c, n)
      BY DEF Answers
    <2> QED
      BY <2>1 DEF ProfilesInv, PartialIsBlamed, Partial
  <1> QED
    BY <1>1, ProfilesInvariant, PTL

\* A command's step is its own.
LEMMA OwnJob ==
    ASSUME TypeOK, NEW d \in Command, NEW c \in Command \ {d},
           Start(d) \/ Step(d) \/ Crash(d)
    PROVE  job'[c] = job[c]
  <1>1. \A at \in Location : Goto(d, at) => job'[c] = job[c]
    BY DEF Goto, TypeOK
  <1>2. {"clear", "make", "copy", "cleanup", "rename", "lock"} \cup Ended \subseteq Location
    BY DEF Location
  <1>3. CASE Start(d)
    BY <1>3 DEF Start, StartCreate, StartRepair, StartRemove, StartSave, StartArchive,
               StartRestore, StartImport, Begin, TypeOK
  <1>4. CASE List(d) \/ Unlink(d) \/ Rmdir(d)
    BY <1>1, <1>2, <1>4 DEF List, Unlink, Rmdir, TypeOK, Ended
  <1>5. CASE Make(d) \/ Copy(d) \/ CopyEnds(d)
    BY <1>1, <1>2, <1>5 DEF Make, Copy, CopyEnds, TypeOK, Ended
  <1>6. CASE RepairTest(d) \/ RepairWrite(d) \/ RepairEnds(d)
    BY <1>1, <1>2, <1>6 DEF RepairTest, RepairWrite, RepairEnds, TypeOK, Ended
  <1>7. CASE ReadFile(d) \/ Save(d) \/ WriteArchive(d)
    BY <1>1, <1>2, <1>7 DEF ReadFile, Save, WriteArchive, TypeOK, Ended
  <1>8. CASE Enter(d) \/ LockTimeout(d)
    BY <1>1, <1>2, <1>8 DEF Enter, LockTimeout, TypeOK, Ended
  <1>9. CASE Stage(d) \/ StageFails(d) \/ Rename(d) \/ Cleanup(d)
    BY <1>1, <1>2, <1>9 DEF Stage, StageFails, Rename, Cleanup, TypeOK, Ended
  <1>10. CASE Crash(d)
    BY <1>1, <1>2, <1>10 DEF Crash, Ended
  <1> QED
    BY <1>3, <1>4, <1>5, <1>6, <1>7, <1>8, <1>9, <1>10 DEF Step

\* The files a repair was asked for are there when it ends, unless some other
\* command deleted files meanwhile (config.py, repair_profile).
THEOREM RepairsComplete == Spec => RepairCompletes
  <1>1. ProfilesInv /\ [Next]_vars =>
          [\A c \in Command :
              /\ job[c].kind = "repair"
              /\ Active(c) /\ job'[c].at = "done"
              /\ c \notin robbed
              => job[c].asked \subseteq Present(dir'[job[c].name])]_vars
    <2> SUFFICES ASSUME ProfilesInv, Next, NEW c \in Command,
                        job[c].kind = "repair", Active(c), job'[c].at = "done",
                        c \notin robbed
                 PROVE  job[c].asked \subseteq Present(dir'[job[c].name])
      BY DEF vars, Active, Ended
    <2>1. TypeOK /\ Fits(c) /\ RepairsAll(c) /\ job[c] \in Job
      BY Places DEF ProfilesInv, Own
    <2>2. Start(c) \/ Step(c) \/ Crash(c)
      <3>1. PICK d \in Command : Start(d) \/ Step(d) \/ Crash(d)
        BY DEF Next
      <3>2. d = c
        BY <2>1, <3>1, OwnJob DEF Active, Ended
      <3> QED
        BY <3>1, <3>2
    <2>3. RepairEnds(c)
      <3>1. ~Start(c)
        BY DEF Start, StartCreate, StartRepair, StartRemove, StartSave, StartArchive,
               StartRestore, StartImport, Begin, Active
      <3>2. ~Crash(c)
        BY <2>1, GotoMoves DEF Crash, Location, Ended
      <3>3. ~(List(c) \/ Unlink(c) \/ Rmdir(c) \/ Make(c) \/ Copy(c) \/ CopyEnds(c))
        BY <2>1 DEF Fits, List, Unlink, Rmdir, Make, Copy, CopyEnds
      <3>4. ~(ReadFile(c) \/ Save(c) \/ WriteArchive(c) \/ Enter(c) \/ LockTimeout(c))
        BY <2>1 DEF Fits, ReadFile, Save, WriteArchive, Enter, LockTimeout
      <3>5. ~(Stage(c) \/ StageFails(c) \/ Rename(c) \/ Cleanup(c))
        BY <2>1 DEF Fits, Stage, StageFails, Rename, Cleanup
      <3>6. ~RepairTest(c)
        <4> SUFFICES ASSUME RepairTest(c) PROVE FALSE
          OBVIOUS
        <4>1. PICK f \in job[c].todo :
                job' = IF job[c].over \/ f \notin Present(Target(c))
                       THEN [job EXCEPT ![c].at = "write", ![c].todo = @ \ {f},
                                        ![c].got[f] = "template"]
                       ELSE [job EXCEPT ![c].todo = @ \ {f}]
          BY DEF RepairTest
        <4>2. job[c].at = "test"
          BY DEF RepairTest
        <4>3. CASE job' = [job EXCEPT ![c].todo = @ \ {f}]
          BY <2>1, <4>2, <4>3 DEF TypeOK, Job
        <4>4. CASE job' = [job EXCEPT ![c].at = "write", ![c].todo = @ \ {f},
                                      ![c].got[f] = "template"]
          <5>1. job' = [job EXCEPT ![c] = [job[c] EXCEPT !.at = "write", !.todo = @ \ {f},
                                              !.got = [job[c].got EXCEPT ![f] = "template"]]]
            BY <2>1, <4>4 DEF TypeOK
          <5> QED
            BY <2>1, <5>1 DEF TypeOK, Job
        <4> QED
          BY <4>1, <4>3, <4>4
      <3>7. ~RepairWrite(c)
        BY <2>1 DEF RepairWrite, TypeOK, Job
      <3> QED
        BY <2>2, <3>1, <3>2, <3>3, <3>4, <3>5, <3>6, <3>7 DEF Step
    <2>4. /\ job[c].at = "test" /\ job[c].todo = {} /\ dir' = dir /\ job[c].got = Empty
      BY <2>1, <2>3 DEF RepairEnds, RepairsAll
    <2> QED
      BY <2>1, <2>4, FilesOfEmpty DEF RepairsAll, Target, Present
  <1> QED
    BY <1>1, ProfilesInvariant, PTL DEF Spec, RepairCompletes
=============================================================================
