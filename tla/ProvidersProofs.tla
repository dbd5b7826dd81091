--------------------------- MODULE ProvidersProofs ---------------------------
(***************************************************************************)
(* For any set of providers and any built-in list: a removed provider      *)
(* stays hidden, and cleared defaults stay away, whatever is run next and  *)
(* wherever a command dies.                                                *)
(*                                                                         *)
(* The invariant says why: a user's file never holds a built-in            *)
(* definition, what a command is about to write already hides what was     *)
(* removed, and the unlinks of a clear reach the files of the lists it     *)
(* clears only.                                                            *)
(*                                                                         *)
(* For machines: a live answer stays in the discovery cache, and a ranking *)
(* follows the fit.                                                        *)
(*                                                                         *)
(* For a placement: an eligible model fits somewhere on the machine, and a *)
(* recommended one passes the check of a route.  The sum over a group of   *)
(* devices is a fold, so the proof first shows that the fold is defined.   *)
(*                                                                         *)
(* For the benchmark records, which nothing locks: a run that no other     *)
(* overlapped is judged by its own answers (RunsInv), an import leaves     *)
(* only what was exported (RecordsInv), and leaders are comparable.        *)
(***************************************************************************)
EXTENDS Providers, Machines, Placement, Benchmarks, FiniteSetTheorems, SequenceTheorems,
        WellFoundedInduction, TLAPS

DefaultsFiles == {"defaults", "legacyDefaults"}
UserFiles == {"user", "legacyUser"}
DefaultsKinds == {"init", "overwrite", "update"}
AllKinds == {"enable all", "disable all"}
ClearKinds == {"clear embedded", "clear user", "clear all"}

NoBuiltIn(table) == \A p \in Provider : table[p].def # "builtin"
Hidden(r) == r.removed /\ r.def # "absent"

UserFilesAreOwn == \A f \in UserFiles : Exists(f) => NoBuiltIn(file[f])

GoneIsHidden == \A p \in gone : Hidden(UserConfig[p])

WriteKeeps ==
    job.at = "write" =>
        /\ job.kind \notin ClearKinds
        /\ job.kind \notin DefaultsKinds =>
              /\ NoBuiltIn(job.table)
              /\ \A p \in gone : \/ job.kind \in AllKinds
                                 \/ job.kind = "add" /\ job.name = p
                                 \/ Hidden(job.table[p])
        /\ job.kind = "remove" => Hidden(job.table[job.name])

UnlinkReaches ==
    job.at = "unlink" =>
        /\ job.kind \in ClearKinds
        /\ job.kind = "clear embedded" => job.todo \in Seq(DefaultsFiles)
        /\ job.kind # "clear embedded" => gone = {}
        /\ cleared => job.kind = "clear user" /\ job.todo \in Seq(UserFiles)

ClearedIsMarked == cleared => Exists("defaults") /\ NoBuiltIn(file["defaults"])

ProvidersInv ==
    /\ TypeOK
    /\ UserFilesAreOwn
    /\ GoneIsHidden
    /\ WriteKeeps
    /\ UnlinkReaches
    /\ ClearedIsMarked

-----------------------------------------------------------------------------

\* The two lists that are read are tables, and the user's has no built-in
\* definition.
LEMMA ReadTables ==
    ASSUME TypeOK, UserFilesAreOwn
    PROVE  /\ Empty \in Table /\ Defaults \in Table
           /\ UserConfig \in Table /\ NoBuiltIn(UserConfig)
           /\ DefaultConfig \in Table
           /\ ModelProviders \in Table
<1>1. Empty \in Table /\ NoBuiltIn(Empty)
  BY DEF Empty, Table, Absent, Row, NoBuiltIn
<1>2. Defaults \in Table
  BY <1>1 DEF Defaults, Table, Row, Absent
<1>3. \A f \in File : Exists(f) => file[f] \in Table
  BY DEF TypeOK, Exists
<1>4. UserConfig \in Table /\ NoBuiltIn(UserConfig)
  BY <1>1, <1>3 DEF UserConfig, UserFilesAreOwn, UserFiles, File
<1>5. DefaultConfig \in Table
  BY <1>1, <1>2, <1>3 DEF DefaultConfig, File
<1>6. ModelProviders \in Table
  BY <1>4, <1>5 DEF ModelProviders, Table, Row
<1> QED BY <1>1, <1>2, <1>4, <1>5, <1>6

\* A row keeps its own definition, or is none of the built-in list's.
LEMMA FlagRow ==
    ASSUME NEW r \in Row, NEW on \in BOOLEAN, NEW removed \in BOOLEAN,
           r.def # "builtin"
    PROVE  /\ Flag(r, on, removed) \in Row
           /\ Flag(r, on, removed).def \notin {"builtin", "absent"}
           /\ Flag(r, on, removed).removed = removed
BY DEF Flag, Row

\* The state of a command that is over.
LEMMA NoJobType == NoJob \in Job /\ NoJob.at = "idle" /\ NoJob.kind = "init"
<1>1. (CHOOSE p \in Provider : TRUE) \in Provider
  BY ProvidersAssumption
<1>2. Empty \in Table
  BY DEF Empty, Table, Absent, Row
<1>3. <<>> \in Seq(File)
  OBVIOUS
<1> QED BY <1>1, <1>2, <1>3 DEF NoJob, Job, Kind

-----------------------------------------------------------------------------

\* At first nothing is removed or cleared.
LEMMA ProvidersInitInv == Init => ProvidersInv
<1> SUFFICES ASSUME Init PROVE ProvidersInv
  OBVIOUS
<1> USE DEF Init
<1>1. Defaults \in Table /\ \A p \in BuiltIn : [Defaults EXCEPT ![p].on = FALSE] \in Table
  BY DEF Defaults, Table, Row, Absent
<1>2. ASSUME NEW def \in {"builtin", "none"}
      PROVE  OldTables(def) \subseteq Table \cup {Missing}
  <2>1. ASSUME NEW p \in BuiltIn
        PROVE  [Empty EXCEPT ![p] = [def |-> def, on |-> FALSE, removed |-> FALSE]] \in Table
    BY <1>2 DEF Table, Row, Empty, Absent
  <2> QED BY <2>1 DEF OldTables
<1>3. file \in [File -> Table \cup {Missing}]
  BY <1>1, <1>2 DEF File
<1>4. job \in Job /\ job.at = "idle"
  BY NoJobType
<1>5. TypeOK
  BY <1>3, <1>4 DEF TypeOK
<1>6. file["user"] = Missing /\ file["legacyUser"] \in OldTables("none")
  BY DEF File
<1>7. \A t \in OldTables("none") : t # Missing => NoBuiltIn(t)
  BY ProvidersAssumption DEF OldTables, NoBuiltIn, Empty, Absent
<1>8. UserFilesAreOwn
  BY <1>6, <1>7 DEF UserFilesAreOwn, UserFiles, Exists
<1> QED BY <1>4, <1>5, <1>8
        DEF ProvidersInv, GoneIsHidden, WriteKeeps, UnlinkReaches, ClearedIsMarked

-----------------------------------------------------------------------------
(* One lemma per kind of step.                                             *)

\* A step that leaves the files and the ghosts alone disturbs only what is said
\* of the command.
LEMMA JobOnly ==
    ASSUME ProvidersInv, UNCHANGED <<file, gone, cleared>>, job' \in Job,
           WriteKeeps', UnlinkReaches'
    PROVE  ProvidersInv'
BY DEF ProvidersInv, TypeOK, UserFilesAreOwn, GoneIsHidden, ClearedIsMarked,
       Exists, UserConfig, NoBuiltIn, Hidden

\* A command that is done has nothing left to write or to unlink.
LEMMA DoneKeeps ==
    ASSUME Done PROVE job' \in Job /\ WriteKeeps' /\ UnlinkReaches'
BY NoJobType DEF Done, WriteKeeps, UnlinkReaches

\* A command that goes on to write a user's table that hides what was removed.
LEMMA WillWriteKeeps ==
    ASSUME ProvidersInv, UNCHANGED <<file, gone, cleared>>, NEW table \in Table,
           WillWrite(table), job.kind \notin ClearKinds,
           job.kind \notin DefaultsKinds =>
              /\ NoBuiltIn(table)
              /\ \A p \in gone : \/ job.kind \in AllKinds
                                 \/ job.kind = "add" /\ job.name = p
                                 \/ Hidden(table[p]),
           job.kind = "remove" => Hidden(table[job.name])
    PROVE  ProvidersInv'
<1>1. /\ job' \in Job /\ job'.at = "write" /\ job'.kind = job.kind
      /\ job'.table = table /\ job'.name = job.name
  BY DEF WillWrite, ProvidersInv, TypeOK, Job
<1>2. WriteKeeps'
  BY <1>1 DEF WriteKeeps, NoBuiltIn, Hidden
<1>3. UnlinkReaches'
  BY <1>1 DEF UnlinkReaches
<1> QED BY <1>1, <1>2, <1>3, JobOnly

\* Changing the row of one provider keeps the others hidden.
LEMMA OverrideKeeps ==
    ASSUME ProvidersInv, UNCHANGED <<file, gone, cleared>>,
           job.kind \in Overrides, NEW row \in Row, row.def \notin {"builtin", "absent"},
           WillWrite([UserConfig EXCEPT ![job.name] = row]),
           job.name \in gone => row.removed \/ job.kind = "add",
           job.kind = "remove" => row.removed
    PROVE  ProvidersInv'
<1> DEFINE table == [UserConfig EXCEPT ![job.name] = row]
<1>1. UserConfig \in Table /\ NoBuiltIn(UserConfig) /\ job.name \in Provider
  BY ReadTables DEF ProvidersInv, TypeOK, Job
<1>2. table \in Table /\ NoBuiltIn(table)
  BY <1>1 DEF Table, NoBuiltIn
<1>3. \A p \in gone : Hidden(table[p]) \/ (job.kind = "add" /\ job.name = p)
  BY <1>1 DEF ProvidersInv, GoneIsHidden, Hidden, TypeOK, Table
<1>4. job.kind \notin ClearKinds /\ job.kind \notin DefaultsKinds
  BY DEF Overrides, ClearKinds, DefaultsKinds
<1>5. job.kind = "remove" => Hidden(table[job.name])
  BY <1>1 DEF Hidden, Table
<1> HIDE DEF table
<1>6. WillWrite(table)
  BY DEF table
<1> QED BY <1>2, <1>3, <1>4, <1>5, <1>6, WillWriteKeeps

\* Enabling or disabling one provider brings none back.
LEMMA SetEnabledKeeps == ProvidersInv /\ SetEnabled => ProvidersInv'
<1> SUFFICES ASSUME ProvidersInv, SetEnabled PROVE ProvidersInv'
  OBVIOUS
<1>1. CASE ~Listed(job.name)
  BY <1>1, JobOnly, DoneKeeps DEF SetEnabled
<1>2. CASE Listed(job.name)
  <2> DEFINE row == Flag(UserConfig[job.name], job.kind = "enable", FALSE)
  <2>1. UserConfig \in Table /\ NoBuiltIn(UserConfig) /\ job.name \in Provider
    BY ReadTables DEF ProvidersInv, TypeOK, Job
  <2>2. row \in Row /\ row.def \notin {"builtin", "absent"}
    BY <2>1, FlagRow DEF Table, NoBuiltIn
  <2>3. job.name \notin gone
    BY <1>2, <2>1 DEF ProvidersInv, GoneIsHidden, Hidden, Listed, Known, ModelProviders
  <2>4. WillWrite([UserConfig EXCEPT ![job.name] = row])
    BY <1>2 DEF SetEnabled
  <2>5. job.kind \in Overrides /\ UNCHANGED <<file, gone, cleared>>
    BY DEF SetEnabled, Reads, Overrides
  <2> HIDE DEF row
  <2>6. job.kind # "remove"
    BY DEF SetEnabled, Reads
  <2> QED BY <2>2, <2>3, <2>4, <2>5, <2>6, OverrideKeeps
<1> QED BY <1>1, <1>2

\* remove hides the provider it names, and no other changes.
LEMMA RemoveKeeps == ProvidersInv /\ RemoveProvider => ProvidersInv'
<1> SUFFICES ASSUME ProvidersInv, RemoveProvider PROVE ProvidersInv'
  OBVIOUS
<1>1. CASE ~Known(job.name)
  BY <1>1, JobOnly, DoneKeeps DEF RemoveProvider
<1>2. CASE Known(job.name)
  <2> DEFINE row == Flag(UserConfig[job.name], FALSE, TRUE)
  <2>1. UserConfig \in Table /\ NoBuiltIn(UserConfig) /\ job.name \in Provider
    BY ReadTables DEF ProvidersInv, TypeOK, Job
  <2>2. row \in Row /\ row.def \notin {"builtin", "absent"} /\ row.removed
    BY <2>1, FlagRow DEF Table, NoBuiltIn
  <2>3. WillWrite([UserConfig EXCEPT ![job.name] = row])
    BY <1>2 DEF RemoveProvider
  <2>4. job.kind \in Overrides /\ UNCHANGED <<file, gone, cleared>>
    BY DEF RemoveProvider, Reads, Overrides
  <2> HIDE DEF row
  <2> QED BY <2>2, <2>3, <2>4, OverrideKeeps
<1> QED BY <1>1, <1>2

\* add brings back the one it names only.
LEMMA AddKeeps == ProvidersInv /\ Add => ProvidersInv'
<1> SUFFICES ASSUME ProvidersInv, Add PROVE ProvidersInv'
  OBVIOUS
<1>1. PICK on \in BOOLEAN :
        WillWrite([UserConfig EXCEPT ![job.name] =
                       [def |-> "own", on |-> on, removed |-> FALSE]])
  BY DEF Add
<1> DEFINE row == [def |-> "own", on |-> on, removed |-> FALSE]
<1>2. row \in Row /\ row.def \notin {"builtin", "absent"}
  BY DEF Row
<1>3. job.kind = "add" /\ job.kind \in Overrides /\ UNCHANGED <<file, gone, cleared>>
  BY DEF Add, Reads, Overrides
<1>4. WillWrite([UserConfig EXCEPT ![job.name] = row])
  BY <1>1
<1> HIDE DEF row
<1> QED BY <1>2, <1>3, <1>4, OverrideKeeps

\* enable-all and disable-all flag what is known, and bring none back.
LEMMA SetAllEnabledKeeps == ProvidersInv /\ SetAllEnabled => ProvidersInv'
<1> SUFFICES ASSUME ProvidersInv, SetAllEnabled PROVE ProvidersInv'
  OBVIOUS
<1> DEFINE table == [p \in Provider |->
               IF Known(p) THEN Flag(UserConfig[p], job.kind = "enable all", FALSE)
                           ELSE UserConfig[p]]
<1>1. UserConfig \in Table /\ NoBuiltIn(UserConfig)
  BY ReadTables DEF ProvidersInv
<1>2. \A p \in Provider : table[p] \in Row /\ table[p].def # "builtin"
  <2> SUFFICES ASSUME NEW p \in Provider
               PROVE  table[p] \in Row /\ table[p].def # "builtin"
    OBVIOUS
  <2>1. UserConfig[p] \in Row /\ UserConfig[p].def # "builtin"
    BY <1>1 DEF Table, NoBuiltIn
  <2>2. (job.kind = "enable all") \in BOOLEAN
    OBVIOUS
  <2>3. /\ Flag(UserConfig[p], job.kind = "enable all", FALSE) \in Row
        /\ Flag(UserConfig[p], job.kind = "enable all", FALSE).def # "builtin"
    BY <2>1, <2>2, FlagRow
  <2> QED BY <2>1, <2>3
<1>3. table \in Table /\ NoBuiltIn(table)
  BY <1>2 DEF Table, NoBuiltIn
<1>4. job.kind \in AllKinds /\ UNCHANGED <<file, gone, cleared>> /\ WillWrite(table)
  BY DEF SetAllEnabled, Reads, AllKinds
<1> HIDE DEF table
<1>5. job.kind \notin ClearKinds /\ job.kind # "remove"
  BY <1>4 DEF AllKinds, ClearKinds
<1> QED BY <1>3, <1>4, <1>5, WillWriteKeeps

\* init-defaults and update-defaults write the file of the defaults only.
LEMMA DefaultsKeep == ProvidersInv /\ (InitDefaults \/ UpdateDefaults) => ProvidersInv'
<1> SUFFICES ASSUME ProvidersInv, InitDefaults \/ UpdateDefaults PROVE ProvidersInv'
  OBVIOUS
<1>1. Defaults \in Table /\ Empty \in Table
  BY ReadTables DEF ProvidersInv
<1>2. ASSUME NEW table \in Table, WillWrite(table), job.kind \in DefaultsKinds,
             UNCHANGED <<file, gone, cleared>>
      PROVE  ProvidersInv'
  <2>1. job.kind \notin ClearKinds /\ job.kind # "remove"
    BY <1>2 DEF DefaultsKinds, ClearKinds
  <2> QED BY <1>2, <2>1, WillWriteKeeps
<1>3. CASE InitDefaults
  <2>1. job.kind \in DefaultsKinds /\ UNCHANGED <<file, gone, cleared>>
    BY <1>3 DEF InitDefaults, Reads, DefaultsKinds
  <2>2. Done \/ WillWrite(Defaults)
    BY <1>3 DEF InitDefaults
  <2> QED BY <1>1, <1>2, <2>1, <2>2, JobOnly, DoneKeeps
<1>4. CASE UpdateDefaults
  <2> DEFINE existing == IF Exists("defaults") THEN file["defaults"] ELSE Empty
             table == [p \in Provider |->
                         IF p \in BuiltIn /\ existing[p].def # "absent"
                         THEN [Defaults[p] EXCEPT !.on = existing[p].on] ELSE Defaults[p]]
  <2>1. job.kind \in DefaultsKinds /\ UNCHANGED <<file, gone, cleared>> /\ WillWrite(table)
    BY <1>4 DEF UpdateDefaults, Reads, DefaultsKinds
  <2>2. existing \in Table
    BY <1>1 DEF ProvidersInv, TypeOK, Exists, File
  <2>3. table \in Table
    BY <1>1, <2>2 DEF Table, Row
  <2> HIDE DEF table, existing
  <2> QED BY <1>2, <2>1, <2>3
<1> QED BY <1>3, <1>4

\* What is written is what the command was about to write, which hides what was
\* removed.
LEMMA WriteKeepsInv == ProvidersInv /\ Write => ProvidersInv'
<1> SUFFICES ASSUME ProvidersInv, Write PROVE ProvidersInv'
  OBVIOUS
<1> DEFINE kind == job.kind
<1>1. /\ job.at = "write" /\ job \in Job /\ job.table \in Table
      /\ job.kind \in Kind /\ job.name \in Provider /\ Done
      /\ Missing \notin Table /\ file \in [File -> Table \cup {Missing}]
  BY MissingAssumption DEF Write, ProvidersInv, TypeOK, Job
<1>2. job' \in Job /\ WriteKeeps' /\ UnlinkReaches'
  BY <1>1, DoneKeeps
<1>3. gone' \subseteq Provider /\ cleared' \in BOOLEAN
  BY <1>1 DEF Write, ProvidersInv, TypeOK
<1>4. CASE kind \in DefaultsKinds
  <2>1. /\ file' = [file EXCEPT !["defaults"] = job.table]
        /\ gone' = gone /\ cleared' = FALSE
    BY <1>1, <1>4 DEF Write, DefaultsKinds, ProvidersInv, TypeOK
  <2>2. TypeOK'
    BY <1>1, <1>2, <1>3, <2>1 DEF TypeOK
  <2>3. \A f \in UserFiles : file'[f] = file[f]
    BY <1>1, <2>1 DEF UserFiles, File
  <2>4. UserFilesAreOwn' /\ GoneIsHidden'
    BY <2>1, <2>3 DEF ProvidersInv, UserFilesAreOwn, GoneIsHidden, UserConfig,
                      Exists, Hidden, NoBuiltIn, UserFiles
  <2> QED BY <1>2, <2>1, <2>2, <2>4 DEF ProvidersInv, ClearedIsMarked
<1>5. CASE kind \notin DefaultsKinds
  <2>1. /\ file' = [file EXCEPT !["user"] = job.table]
        /\ cleared' = cleared
    BY <1>1, <1>5 DEF Write, DefaultsKinds, ProvidersInv, TypeOK
  <2>2. TypeOK'
    BY <1>1, <1>2, <1>3, <2>1 DEF TypeOK
  <2>3. /\ file'["user"] = job.table /\ file'["legacyUser"] = file["legacyUser"]
        /\ file'["defaults"] = file["defaults"]
    BY <1>1, <2>1 DEF File
  <2>4. Exists("user")' /\ UserConfig' = job.table
    BY <1>1, <2>3 DEF Exists, UserConfig
  <2>5. NoBuiltIn(job.table)
    BY <1>1, <1>5 DEF ProvidersInv, WriteKeeps
  <2>6. UserFilesAreOwn'
    BY <2>3, <2>5 DEF ProvidersInv, UserFilesAreOwn, UserFiles, Exists, NoBuiltIn
  <2>7. ClearedIsMarked'
    BY <2>1, <2>3 DEF ProvidersInv, ClearedIsMarked, Exists, NoBuiltIn
  <2>8. \A p \in gone' : Hidden(job.table[p])
    <3>1. \A p \in gone : \/ kind \in AllKinds
                          \/ kind = "add" /\ job.name = p
                          \/ Hidden(job.table[p])
      BY <1>1, <1>5 DEF ProvidersInv, WriteKeeps
    <3>2. kind = "remove" => Hidden(job.table[job.name])
      BY <1>1, <1>5 DEF ProvidersInv, WriteKeeps
    <3> QED BY <3>1, <3>2, <1>1 DEF Write, AllKinds
  <2>9. GoneIsHidden'
    BY <2>4, <2>8 DEF GoneIsHidden, Hidden
  <2> QED BY <1>2, <2>2, <2>6, <2>7, <2>9 DEF ProvidersInv
<1> QED BY <1>4, <1>5

\* A clear that reaches the user's files forgets what was removed, one that
\* reaches the defaults takes the marker away before its first unlink.
LEMMA EnterClearKeeps == ProvidersInv /\ EnterClear => ProvidersInv'
<1> SUFFICES ASSUME ProvidersInv, EnterClear PROVE ProvidersInv'
  OBVIOUS
<1> DEFINE todo == Files(job.kind)
<1>1. <<"defaults", "legacyDefaults">> \in Seq(DefaultsFiles)
  BY DEF DefaultsFiles
<1>2. <<"user", "legacyUser">> \in Seq(UserFiles)
  BY DEF UserFiles
<1>3. todo \in Seq(File)
  <2>1. <<"defaults", "legacyDefaults">> \in Seq(File)
    BY DEF File
  <2>2. <<"user", "legacyUser">> \in Seq(File)
    BY DEF File
  <2>3. <<"defaults", "legacyDefaults", "user", "legacyUser">> \in Seq(File)
    BY DEF File
  <2> QED BY <2>1, <2>2, <2>3, Zenon DEF Files
<1>4. job.kind = "clear embedded" => todo \in Seq(DefaultsFiles)
  BY <1>1 DEF Files
<1>5. job.kind = "clear user" => todo \in Seq(UserFiles)
  BY <1>2 DEF Files
<1>6. /\ job' = [job EXCEPT !.at = "unlink", !.todo = todo]
      /\ job.kind \in ClearKinds /\ job \in Job /\ file' = file
      /\ gone' = (IF job.kind = "clear embedded" THEN gone ELSE {})
      /\ cleared' = (cleared /\ job.kind = "clear user")
  BY DEF EnterClear, Reads, ClearKinds, ProvidersInv, TypeOK
<1> HIDE DEF todo
<1>7. job' \in Job /\ job'.at = "unlink" /\ job'.kind = job.kind /\ job'.todo = todo
  BY <1>3, <1>6 DEF Job
<1>8. WriteKeeps' /\ UnlinkReaches'
  BY <1>4, <1>5, <1>6, <1>7 DEF WriteKeeps, UnlinkReaches, ClearKinds
<1>9. TypeOK'
  BY <1>6, <1>7 DEF ProvidersInv, TypeOK
<1>10. UserFilesAreOwn' /\ GoneIsHidden' /\ ClearedIsMarked'
  BY <1>6 DEF ProvidersInv, UserFilesAreOwn, GoneIsHidden, ClearedIsMarked,
              UserConfig, Exists, NoBuiltIn, Hidden
<1> QED BY <1>8, <1>9, <1>10 DEF ProvidersInv

\* A clear unlinks files of the lists it clears only.
LEMMA UnlinkKeeps == ProvidersInv /\ Unlink => ProvidersInv'
<1> SUFFICES ASSUME ProvidersInv, Unlink PROVE ProvidersInv'
  OBVIOUS
<1> DEFINE head == Head(job.todo)
<1>1. /\ job \in Job /\ job.at = "unlink" /\ job.todo # <<>> /\ job.todo \in Seq(File)
      /\ file' = [file EXCEPT ![head] = Missing]
      /\ job' = [job EXCEPT !.todo = Tail(job.todo)]
      /\ gone' = gone /\ cleared' = cleared
      /\ file \in [File -> Table \cup {Missing}] /\ Missing \notin Table
  BY MissingAssumption DEF Unlink, ProvidersInv, TypeOK, Job
<1>2. head \in File /\ Tail(job.todo) \in Seq(File)
  BY <1>1
<1>3. job' \in Job /\ job'.at = "unlink" /\ job'.kind = job.kind /\ job'.todo = Tail(job.todo)
  BY <1>1, <1>2 DEF Job
<1>4. ASSUME NEW S, job.todo \in Seq(S)
      PROVE  head \in S /\ Tail(job.todo) \in Seq(S)
  BY <1>1, <1>4
<1>5. WriteKeeps' /\ UnlinkReaches'
  BY <1>1, <1>3, <1>4 DEF ProvidersInv, WriteKeeps, UnlinkReaches
<1>6. TypeOK'
  BY <1>1, <1>2, <1>3 DEF ProvidersInv, TypeOK
<1>7. \A f \in File : file'[f] = file[f] \/ file'[f] = Missing
  BY <1>1, <1>2
<1>8. UserFilesAreOwn'
  BY <1>7 DEF ProvidersInv, UserFilesAreOwn, UserFiles, File, Exists, NoBuiltIn
<1>9. cleared => head \in UserFiles
  BY <1>1, <1>4 DEF ProvidersInv, UnlinkReaches
<1>10. ClearedIsMarked'
  BY <1>1, <1>9 DEF ProvidersInv, ClearedIsMarked, UserFiles, File, Exists, NoBuiltIn
<1>11. gone # {} => head \in DefaultsFiles
  BY <1>1, <1>4 DEF ProvidersInv, UnlinkReaches
<1>12. gone # {} => UserConfig' = UserConfig
  BY <1>1, <1>11 DEF UserConfig, Exists, DefaultsFiles, File
<1>13. GoneIsHidden'
  BY <1>1, <1>12 DEF ProvidersInv, GoneIsHidden, Hidden
<1> QED BY <1>5, <1>6, <1>8, <1>10, <1>13 DEF ProvidersInv

\* A clear ends with an empty file of defaults, which hides none of the user's.
LEMMA ClearDoneKeeps == ProvidersInv /\ ClearDone => ProvidersInv'
<1> SUFFICES ASSUME ProvidersInv, ClearDone PROVE ProvidersInv'
  OBVIOUS
<1>1. /\ file \in [File -> Table \cup {Missing}] /\ Missing \notin Table
      /\ file' = (IF job.kind # "clear user" THEN [file EXCEPT !["defaults"] = Empty] ELSE file)
      /\ cleared' = (cleared \/ job.kind # "clear user")
      /\ gone' = gone /\ Done
  BY MissingAssumption DEF ClearDone, ProvidersInv, TypeOK
<1>2. Empty \in Table /\ NoBuiltIn(Empty)
  BY DEF Empty, Table, Absent, Row, NoBuiltIn
<1>3. job' \in Job /\ WriteKeeps' /\ UnlinkReaches'
  BY <1>1, DoneKeeps
<1>4. TypeOK'
  BY <1>1, <1>2, <1>3 DEF ProvidersInv, TypeOK
<1>5. \A f \in UserFiles : file'[f] = file[f]
  BY <1>1 DEF UserFiles, File
<1>6. UserFilesAreOwn' /\ GoneIsHidden'
  BY <1>1, <1>5 DEF ProvidersInv, UserFilesAreOwn, GoneIsHidden, UserConfig,
                    Exists, NoBuiltIn, Hidden, UserFiles
<1>7. ClearedIsMarked'
  <2>1. CASE job.kind # "clear user"
    <3>1. file'["defaults"] = Empty
      BY <1>1, <2>1 DEF File
    <3> QED BY <1>1, <1>2, <3>1 DEF ClearedIsMarked, Exists, NoBuiltIn
  <2>2. CASE job.kind = "clear user"
    BY <1>1, <2>2 DEF ProvidersInv, ClearedIsMarked, Exists, NoBuiltIn
  <2> QED BY <2>1, <2>2
<1> QED BY <1>3, <1>4, <1>6, <1>7 DEF ProvidersInv

\* A command that begins has read nothing.
LEMMA BeginKeeps ==
    ASSUME ProvidersInv, NEW kind \in Kind, NEW name \in Provider, Begin(kind, name)
    PROVE  ProvidersInv'
<1>1. job' \in Job /\ job'.at = "read" /\ UNCHANGED <<file, gone, cleared>>
  BY NoJobType DEF Begin, Job
<1> QED BY <1>1, JobOnly DEF WriteKeeps, UnlinkReaches

-----------------------------------------------------------------------------

\* The invariant holds in every reachable state: every command, at each of its
\* steps and at its death, keeps it.
THEOREM ProvidersInvariant == Spec => []ProvidersInv
<1>1. Init => ProvidersInv
  BY ProvidersInitInv
<1>2. ProvidersInv /\ [Next]_vars => ProvidersInv'
  <2> SUFFICES ASSUME ProvidersInv, [Next]_vars PROVE ProvidersInv'
    OBVIOUS
  <2>1. ASSUME NEW kind \in Kind, NEW name \in Provider, Begin(kind, name)
        PROVE  ProvidersInv'
    BY <2>1, BeginKeeps
  <2>2. CASE SetEnabled
    BY <2>2, SetEnabledKeeps
  <2>3. CASE SetAllEnabled
    BY <2>3, SetAllEnabledKeeps
  <2>4. CASE Add
    BY <2>4, AddKeeps
  <2>5. CASE RemoveProvider
    BY <2>5, RemoveKeeps
  <2>6. CASE InitDefaults \/ UpdateDefaults
    BY <2>6, DefaultsKeep
  <2>7. CASE Write
    BY <2>7, WriteKeepsInv
  <2>8. CASE EnterClear
    BY <2>8, EnterClearKeeps
  <2>9. CASE Unlink
    BY <2>9, UnlinkKeeps
  <2>10. CASE ClearDone
    BY <2>10, ClearDoneKeeps
  <2>11. CASE Dies
    BY <2>11, JobOnly, DoneKeeps DEF Dies
  <2>12. CASE UNCHANGED vars
    BY <2>12 DEF vars, ProvidersInv, TypeOK, UserFilesAreOwn, GoneIsHidden, WriteKeeps,
                 UnlinkReaches, ClearedIsMarked, Exists, UserConfig, NoBuiltIn, Hidden
  <2> QED BY <2>1, <2>2, <2>3, <2>4, <2>5, <2>6, <2>7, <2>8, <2>9, <2>10, <2>11, <2>12
          DEF Next, Runs
<1> QED BY <1>1, <1>2, PTL DEF Spec

\* providers remove: whatever commands follow, and wherever they die, a removed
\* provider is not listed before one of them brings it back.
THEOREM RemovedStay == Spec => []RemovedStaysRemoved
<1>1. ProvidersInv => RemovedStaysRemoved
  BY ReadTables
     DEF ProvidersInv, GoneIsHidden, Hidden, RemovedStaysRemoved, Listed, Known,
         ModelProviders, TypeOK, Table, Row
<1> QED BY <1>1, ProvidersInvariant, PTL

\* providers clear: the empty file that is left keeps every built-in definition
\* away, whatever the user's files hold and whichever of them exist.
THEOREM MarkerKeepsAway == Spec => []MarkerSuppresses
<1>1. ProvidersInv => MarkerSuppresses
  <2> SUFFICES ASSUME ProvidersInv, cleared, NEW p \in Provider
               PROVE  ModelProviders[p].def # "builtin"
    BY DEF MarkerSuppresses
  <2>1. UserConfig \in Table /\ UserConfig[p].def # "builtin"
    BY ReadTables DEF ProvidersInv, NoBuiltIn
  <2>2. DefaultConfig[p].def # "builtin"
    BY DEF ProvidersInv, ClearedIsMarked, DefaultConfig, NoBuiltIn
  <2>3. UserConfig[p] \in Row
    BY <2>1 DEF Table
  <2> QED BY <2>1, <2>2, <2>3 DEF ModelProviders, Row
<1> QED BY <1>1, ProvidersInvariant, PTL

-----------------------------------------------------------------------------
(* The machines and their cache.                                           *)

MachSpec == MachInit /\ [][MachNext]_machVars

Criterion == {Criteria(f) : f \in Asked}
CacheKey == {Key(q) : q \in Criterion}

Asking == [kind : {"discover"}, at : {"ask"}, criteria : Criterion, read : Entries]
Discovering ==
    [kind : {"discover"}, at : {"load", "write"}, criteria : Criterion, found : Entry, read : Entries]
Clearing ==
    [kind : {"clear"}, at : {"load", "write"}, key : CacheKey \cup {Unset}, read : Entries]

\* A cache that cannot be read owes nothing.
MachInv ==
    /\ cache \in Entries \cup {Unreadable}
    /\ machJob \in [MachCommand -> {NoMachJob} \cup Asking \cup Discovering \cup Clearing]
    /\ owed # {} => cache # Unreadable
    /\ LiveStaysLive

\* The mappings of the cache: by their keys and their entries.
LEMMA EntriesAre ==
    \A e : e \in Entries <=> \E D \in SUBSET CacheKey : e \in [D -> Entry]
  BY DEF Entries, CacheKey, Criterion

\* A cache without entries is one.
LEMMA EntriesEmpty == NoEntries \in Entries /\ DOMAIN NoEntries = {}
  <1>1. NoEntries \in [{} -> Entry] /\ DOMAIN NoEntries = {}
    BY DEF NoEntries
  <1> QED
    BY <1>1, EntriesAre

\* An entry more and an entry less.
LEMMA EntriesPut ==
    ASSUME NEW e \in Entries, NEW k \in CacheKey, NEW x \in Entry
    PROVE  /\ Put(e, k, x) \in Entries
           /\ DOMAIN Put(e, k, x) = DOMAIN e \cup {k}
           /\ Put(e, k, x)[k] = x
           /\ \A i \in DOMAIN e \ {k} : Put(e, k, x)[i] = e[i]
  <1>1. PICK D \in SUBSET CacheKey : e \in [D -> Entry]
    BY EntriesAre
  <1>2. Put(e, k, x) \in [D \cup {k} -> Entry] /\ D \cup {k} \in SUBSET CacheKey
    BY <1>1 DEF Put
  <1> QED
    BY <1>1, <1>2, EntriesAre DEF Put

\* A cache with an entry less is one.
LEMMA EntriesDrop ==
    ASSUME NEW e \in Entries, NEW k
    PROVE  [i \in DOMAIN e \ {k} |-> e[i]] \in Entries
  <1>1. PICK D \in SUBSET CacheKey : e \in [D -> Entry]
    BY EntriesAre
  <1>2. [i \in DOMAIN e \ {k} |-> e[i]] \in [D \ {k} -> Entry] /\ D \ {k} \in SUBSET CacheKey
    BY <1>1
  <1> QED
    BY <1>2, EntriesAre

\* What a command reads is a mapping, and what is owed is in it.
LEMMA LoadedIsEntries ==
    ASSUME MachInv
    PROVE  /\ Loaded \in Entries
           /\ \A k \in owed : k \in DOMAIN Loaded /\ Loaded[k].method = "live"
  BY EntriesEmpty DEF MachInv, Loaded, LiveStaysLive

\* A command that goes on or ends.
LEMMA MachJobMoves ==
    ASSUME MachInv, NEW c \in MachCommand,
           NEW j \in {NoMachJob} \cup Asking \cup Discovering \cup Clearing, Goes(c, j)
    PROVE  machJob' \in [MachCommand -> {NoMachJob} \cup Asking \cup Discovering \cup Clearing]
  BY DEF MachInv, Goes

\* The steps that leave the cache as it is.
LEMMA CacheRests ==
    ASSUME MachInv, UNCHANGED <<cache, owed>>,
           machJob' \in [MachCommand -> {NoMachJob} \cup Asking \cup Discovering \cup Clearing]
    PROVE  MachInv'
  BY DEF MachInv, LiveStaysLive

\* Asking, loading and dying leave the cache file alone.
LEMMA DiscoverStays ==
    ASSUME MachInv, NEW c \in MachCommand,
           \/ DiscoverBegin(c) \/ AskAzure(c) \/ AzureGarbled(c) \/ LoadCache(c)
           \/ ClearBegin(c) \/ MachKill(c)
    PROVE  MachInv'
  <1>1. UNCHANGED <<cache, owed>>
    BY DEF DiscoverBegin, AskAzure, AzureGarbled, LoadCache, ClearBegin, MachKill
  <1>2. machJob[c] \in {NoMachJob} \cup Asking \cup Discovering \cup Clearing
    BY DEF MachInv
  <1>3. \E j \in {NoMachJob} \cup Asking \cup Discovering \cup Clearing : Goes(c, j)
    <2>1. CASE DiscoverBegin(c)
      <3>1. PICK f \in Asked :
              Goes(c, [kind |-> "discover", at |-> "ask", criteria |-> Criteria(f), read |-> NoEntries])
        BY <2>1 DEF DiscoverBegin
      <3>2. [kind |-> "discover", at |-> "ask", criteria |-> Criteria(f), read |-> NoEntries] \in Asking
        BY EntriesEmpty DEF Asking, Criterion
      <3> QED
        BY <3>1, <3>2
    <2>2. CASE AskAzure(c)
      <3>1. machJob[c] \in Asking
        BY <1>2, <2>2 DEF AskAzure, Discovering, Clearing
      <3> DEFINE q == machJob[c].criteria
      <3>2. q \in Criterion
        BY <3>1 DEF Asking
      <3>3. \A method \in {"live", "offline"}, skus \in SUBSET Sku : Found(method, skus, q) \in Entry
        BY DEF Found, Entry, Candidates
      <3>4. PICK answer \in Answers \cup {{}} :
              Goes(c, [kind |-> "discover", at |-> "load", criteria |-> q, read |-> NoEntries,
                       found |-> IF KnownSizes(answer) = {} THEN Found("offline", Sku, q)
                                 ELSE Found("live", KnownSizes(answer), q)])
        BY <2>2 DEF AskAzure
      <3> DEFINE found == IF KnownSizes(answer) = {} THEN Found("offline", Sku, q)
                          ELSE Found("live", KnownSizes(answer), q)
      <3>5. found \in Entry
        BY <3>3 DEF KnownSizes
      <3> HIDE DEF found, q
      <3>6. [kind |-> "discover", at |-> "load", criteria |-> q, read |-> NoEntries,
             found |-> found] \in Discovering
        BY <3>2, <3>5, EntriesEmpty DEF Discovering
      <3> QED
        BY <3>4, <3>6 DEF found
    <2>3. CASE AzureGarbled(c) \/ MachKill(c)
      BY <2>3 DEF AzureGarbled, MachKill, Ends
    <2>4. CASE LoadCache(c)
      <3> DEFINE j == [machJob[c] EXCEPT !.at = "write", !.read = Loaded]
      <3>1. Goes(c, j) /\ machJob[c] \in Discovering \cup Clearing
        BY <1>2, <2>4 DEF LoadCache, Asking
      <3>2. Loaded \in Entries
        BY LoadedIsEntries
      <3>3. machJob[c] \in Discovering => j \in Discovering
        BY <3>2 DEF Discovering
      <3>4. machJob[c] \in Clearing => j \in Clearing
        BY <3>2 DEF Clearing
      <3> QED
        BY <3>1, <3>3, <3>4
    <2>5. CASE ClearBegin(c)
      <3>1. PICK k \in CacheKey \cup {Unset} :
              Goes(c, [kind |-> "clear", at |-> "load", key |-> k, read |-> NoEntries])
        BY <2>5 DEF ClearBegin, CacheKey, Criterion
      <3>2. [kind |-> "clear", at |-> "load", key |-> k, read |-> NoEntries] \in Clearing
        BY EntriesEmpty DEF Clearing
      <3> QED
        BY <3>1, <3>2
    <2> QED
      BY <2>1, <2>2, <2>3, <2>4, <2>5
  <1> QED
    BY <1>1, <1>3, MachJobMoves, CacheRests

\* A command that writes back what it read: from then on it owes what it wrote
\* or, when nobody wrote in between, also what was owed before.
LEMMA ReplaceStays ==
    ASSUME MachInv, NEW c \in MachCommand, NEW new \in Entries, NEW answered,
           Replace(c, new, answered),
           machJob[c].read = Loaded =>
              \A k \in answered : k \in DOMAIN new /\ new[k].method = "live"
    PROVE  MachInv'
  <1>1. cache' = new /\ cache' # Unreadable
    BY UnreadableAssumption DEF Replace
  <1>2. machJob' \in [MachCommand -> {NoMachJob} \cup Asking \cup Discovering \cup Clearing]
    BY MachJobMoves DEF Replace, Ends
  <1>3. \A k \in owed' : k \in DOMAIN cache' /\ cache'[k].method = "live"
    BY DEF Replace
  <1> QED
    BY <1>1, <1>2, <1>3 DEF MachInv, LiveStaysLive

\* A discovery writes back what it read, with its own answer unless that is an
\* offline one over a live one.
LEMMA RecordStays ==
    ASSUME MachInv, NEW c \in MachCommand, RecordDiscovery(c)
    PROVE  MachInv'
  <1> DEFINE j == machJob[c]
             k == Key(j.criteria)
             answered == IF j.found.method = "live" THEN owed \cup {k} ELSE owed
  <1>1. j \in Discovering /\ j \in {NoMachJob} \cup Asking \cup Discovering \cup Clearing
    BY DEF MachInv, RecordDiscovery, Asking, Clearing
  <1>2. j.criteria \in Criterion /\ j.found \in Entry /\ j.read \in Entries /\ k \in CacheKey
    BY <1>1 DEF Discovering, CacheKey
  <1>3. CASE ~Supersedes(j.found, k, j.read)
    <2>1. Ends(c) /\ UNCHANGED <<cache, owed>>
      BY <1>3 DEF RecordDiscovery
    <2> QED
      BY <2>1, MachJobMoves, CacheRests DEF Ends
  <1>4. CASE Supersedes(j.found, k, j.read)
    <2>1. Replace(c, Put(j.read, k, j.found), answered)
      BY <1>4 DEF RecordDiscovery
    <2> HIDE DEF k
    <2>2. /\ Put(j.read, k, j.found) \in Entries
          /\ DOMAIN Put(j.read, k, j.found) = DOMAIN j.read \cup {k}
          /\ Put(j.read, k, j.found)[k] = j.found
          /\ \A i \in DOMAIN j.read \ {k} : Put(j.read, k, j.found)[i] = j.read[i]
      BY <1>2, EntriesPut
    <2>3. ASSUME j.read = Loaded, NEW i \in answered
          PROVE  /\ i \in DOMAIN Put(j.read, k, j.found)
                 /\ Put(j.read, k, j.found)[i].method = "live"
      <3>1. i \in owed => i \in DOMAIN j.read /\ j.read[i].method = "live"
        BY <2>3, LoadedIsEntries
      <3>2. CASE i = k
        BY <1>4, <2>2, <2>3, <3>1, <3>2 DEF Supersedes
      <3>3. CASE i # k
        BY <2>2, <2>3, <3>1, <3>3
      <3> QED
        BY <3>2, <3>3
    <2> QED
      BY <2>1, <2>2, <2>3, ReplaceStays
  <1> QED
    BY <1>3, <1>4

\* A clear writes back what it read without its own entry.
LEMMA ClearStays ==
    ASSUME MachInv, NEW c \in MachCommand, ClearCache(c)
    PROVE  MachInv'
  <1> DEFINE j == machJob[c]
             k == j.key
             rest == [x \in DOMAIN j.read \ {k} |-> j.read[x]]
  <1>1. j \in Clearing
    BY DEF MachInv, ClearCache, Asking, Discovering
  <1>2. j.read \in Entries
    BY <1>1 DEF Clearing
  <1>3. rest \in Entries
    BY <1>2, EntriesDrop
  <1>4. CASE k = Unset
    <2>1. Replace(c, NoEntries, {})
      BY <1>4 DEF ClearCache
    <2> QED
      BY <2>1, EntriesEmpty, ReplaceStays
  <1>5. CASE k # Unset
    <2>1. Replace(c, rest, owed \ {k})
      BY <1>5 DEF ClearCache
    <2>2. ASSUME j.read = Loaded, NEW i \in owed \ {k}
          PROVE  i \in DOMAIN rest /\ rest[i].method = "live"
      <3>1. i \in DOMAIN j.read /\ j.read[i].method = "live" /\ i # k
        BY <2>2, LoadedIsEntries
      <3> QED
        BY <3>1
    <2> HIDE DEF rest
    <2> QED
      BY <1>3, <2>1, <2>2, ReplaceStays
  <1> QED
    BY <1>4, <1>5

\* For any number of commands, any hints and any answers of az: a live answer
\* stays in the cache until it is cleared, the file is damaged, or a command
\* writes back what it read before.  (discover_azure keeps a live entry from an
\* offline one.)
THEOREM LiveAnswersStay == MachSpec => []LiveStaysLive
  <1>1. MachInit => MachInv
    BY EntriesEmpty DEF MachInit, MachInv, LiveStaysLive
  <1>2. MachInv /\ [MachNext]_machVars => MachInv'
    <2> SUFFICES ASSUME MachInv, [MachNext]_machVars
                 PROVE  MachInv'
      OBVIOUS
    <2>1. ASSUME NEW c \in MachCommand,
                 \/ DiscoverBegin(c) \/ AskAzure(c) \/ AzureGarbled(c) \/ LoadCache(c)
                 \/ ClearBegin(c) \/ MachKill(c)
          PROVE  MachInv'
      BY <2>1, DiscoverStays
    <2>2. ASSUME NEW c \in MachCommand, RecordDiscovery(c)
          PROVE  MachInv'
      BY <2>2, RecordStays
    <2>3. ASSUME NEW c \in MachCommand, ClearCache(c)
          PROVE  MachInv'
      BY <2>3, ClearStays
    <2>4. CASE ImportMachine \/ UNCHANGED machVars
      BY <2>4 DEF ImportMachine, machVars, MachInv, LiveStaysLive
    <2>5. CASE SpoilCache
      BY <2>5 DEF SpoilCache, MachInv, LiveStaysLive
    <2> QED
      BY <2>1, <2>2, <2>3, <2>4, <2>5 DEF MachNext
  <1>3. MachInv => LiveStaysLive
    BY DEF MachInv
  <1> QED
    BY <1>1, <1>2, <1>3, PTL DEF MachSpec

\* For any two machines and any criteria: the higher level has the higher score
\* (fit_score of machines.py), whatever sizes are missing or zero.
LEMMA LevelsHaveScores ==
    ASSUME NEW m, NEW n, NEW q
    PROVE  /\ MachineLevel(m, q) = "recommended" => Score(m, q) \in {90, 100}
           /\ MachineLevel(m, q) = "usable" => Score(m, q) \in {60, 70, 75, 85}
           /\ MachineLevel(m, q) = "not_recommended" => Score(m, q) = 0
           /\ MachineLevel(m, q) \in {"recommended", "usable", "not_recommended"}
  BY DEF MachineLevel, Score

\* Whatever is asked for and whatever machines were imported: a recommended one
\* scores above a usable one, and that above one that does not fit
\* (_machine_fit: what a usable one can gain never makes up for a recommended
\* memory it lacks).
THEOREM RankingFollows == MachSpec => []RankFollowsLevel
  <1>1. RankFollowsLevel
    <2> SUFFICES ASSUME NEW f \in Asked, NEW m \in DOMAIN machines, NEW n \in DOMAIN machines
                 PROVE  LET c == Criteria(Plain(f))
                            Rank(x) == CASE MachineLevel(machines[x], c) = "recommended" -> 2
                                         [] MachineLevel(machines[x], c) = "usable" -> 1
                                         [] OTHER -> 0
                        IN  Rank(m) > Rank(n) => Score(machines[m], c) > Score(machines[n], c)
      BY DEF RankFollowsLevel
    <2> QED
      BY LevelsHaveScores
  <1> QED
    BY <1>1, PTL

-----------------------------------------------------------------------------
(* Placement: extremes of finite sets, and the sum over a set of devices.  *)

\* A set of natural numbers that is not empty has a least member.
LEMMA LeastNumber ==
    ASSUME NEW S \in SUBSET Nat, S # {}
    PROVE  \E k \in S : \A l \in S : k <= l
  <1> DEFINE R == OpToRel(<, Nat)
  <1>1. \A k, l \in Nat : <<l, k>> \in R <=> l < k
    BY DEF OpToRel
  <1>2. IsWellFoundedOn(R, Nat)
    BY NatLessThanWellFounded
  <1> HIDE DEF R
  <1>3. PICK k \in S : \A l \in S : <<l, k>> \notin R
    BY <1>2, WFMin
  <1>4. ASSUME NEW l \in S
        PROVE  k <= l
    <2>1. k \in Nat /\ l \in Nat /\ ~(l < k)
      BY <1>1, <1>3
    <2> QED
      BY <2>1
  <1> QED
    BY <1>4

\* Quotients compared without division are ordered.
LEMMA QuotientsOrdered ==
    ASSUME NEW a \in Int, NEW b \in Int, NEW c \in Int,
           NEW k \in Nat \ {0}, NEW l \in Nat \ {0}, NEW m \in Nat \ {0},
           a * l >= b * k, b * m >= c * l
    PROVE  a * m >= c * k
  <1>1. \A x, y \in Int, z \in Nat \ {0} : x >= y <=> x * z >= y * z
    <2> TAKE x \in Int, y \in Int, z \in Nat \ {0}
    <2>1. CASE x >= y
      <3>1. (x - y) * z >= 0
        BY <2>1
      <3>2. (x - y) * z = x * z - y * z
        OBVIOUS
      <3> QED
        BY <2>1, <3>1, <3>2
    <2>2. CASE y > x
      <3>1. (y - x) * z > 0
        BY <2>2
      <3>2. (y - x) * z = y * z - x * z
        OBVIOUS
      <3> QED
        BY <2>2, <3>1, <3>2
    <2> QED
      BY <2>1, <2>2
  <1>2. /\ a * l \in Int /\ b * k \in Int /\ b * m \in Int
        /\ c * l \in Int /\ a * m \in Int /\ c * k \in Int
    OBVIOUS
  <1>3. (a * l) * m >= (b * k) * m
    BY <1>1, <1>2
  <1>4. (b * m) * k >= (c * l) * k
    BY <1>1, <1>2
  <1>5. /\ (a * l) * m = (a * m) * l /\ (b * k) * m = (b * m) * k
        /\ (c * l) * k = (c * k) * l
    OBVIOUS
  <1>6. (a * m) * l >= (c * k) * l
    <2> DEFINE u == (a * m) * l
               v == (b * m) * k
               w == (c * k) * l
    <2>1. u \in Int /\ v \in Int /\ w \in Int /\ u >= v /\ v >= w
      BY <1>2, <1>3, <1>4, <1>5
    <2> HIDE DEF u, v, w
    <2>2. u >= w
      BY <2>1
    <2> QED
      BY <2>2 DEF u, w
  <1> QED
    BY <1>1, <1>2, <1>6

\* Of finitely many quotients one is greatest.
LEMMA GreatestQuotient ==
    ASSUME NEW S, IsFiniteSet(S), S # {}, NEW f, NEW by,
           \A x \in S : f[x] \in Int /\ by[x] \in Nat \ {0}
    PROVE  \E x \in S : \A y \in S : f[x] * by[y] >= f[y] * by[x]
  <1> DEFINE AtLeast(x, y) == f[x] * by[y] >= f[y] * by[x]
             Top(T) == \E x \in T : \A y \in T : AtLeast(x, y)
             Without == {n \in Nat : \E T \in SUBSET S :
                             T # {} /\ Cardinality(T) = n /\ ~Top(T)}
  <1> SUFFICES ASSUME ~Top(S)
               PROVE  FALSE
    OBVIOUS
  <1>0. /\ \A x \in S : AtLeast(x, x)
        /\ \A x, y \in S : AtLeast(x, y) \/ AtLeast(y, x)
        /\ \A x, y, z \in S : AtLeast(x, y) /\ AtLeast(y, z) => AtLeast(x, z)
    <2>1. \A x, y \in S : f[x] * by[y] \in Int
      OBVIOUS
    <2>2. ASSUME NEW x \in S, NEW y \in S, NEW z \in S, AtLeast(x, y), AtLeast(y, z)
          PROVE  AtLeast(x, z)
      BY <2>2, QuotientsOrdered
    <2> QED
      BY <2>1, <2>2
  <1> HIDE DEF AtLeast
  <1>1. Without # {}
    <2>1. Cardinality(S) \in Nat
      BY FS_CardinalityType
    <2>2. S \in SUBSET S
      OBVIOUS
    <2> QED
      BY <2>1, <2>2
  <1>2. PICK k \in Without : \A l \in Without : k <= l
    BY <1>1, LeastNumber
  <1>3. PICK T \in SUBSET S : T # {} /\ Cardinality(T) = k /\ ~Top(T)
    BY <1>2
  <1>4. PICK t \in T : TRUE
    BY <1>3
  <1> DEFINE U == T \ {t}
  <1>5. /\ IsFiniteSet(T) /\ IsFiniteSet(U)
        /\ Cardinality(U) = k - 1 /\ Cardinality(U) \in Nat
    BY <1>3, <1>4, FS_Subset, FS_RemoveElement, FS_CardinalityType
  <1>6. U # {}
    <2> SUFFICES ASSUME U = {}
                 PROVE  FALSE
      OBVIOUS
    <2>1. \A y \in T : y = t
      OBVIOUS
    <2>2. \A y \in T : AtLeast(t, y)
      BY <1>0, <1>4, <2>1
    <2> QED
      BY <1>3, <1>4, <2>2
  <1>7. Top(U)
    <2> SUFFICES ASSUME ~Top(U)
                 PROVE  FALSE
      OBVIOUS
    <2> HIDE DEF Top
    <2>1. k - 1 \in Without
      BY <1>3, <1>5, <1>6
    <2> QED
      BY <1>2, <2>1
  <1>8. PICK x \in U : \A y \in U : AtLeast(x, y)
    BY <1>7
  <1>9. \A y \in T : y \in S /\ (y = t \/ y \in U)
    BY <1>3
  <1>10. CASE AtLeast(x, t)
    <2>1. \A y \in T : AtLeast(x, y)
      BY <1>8, <1>9, <1>10
    <2> QED
      BY <1>3, <1>8, <2>1
  <1>11. CASE ~AtLeast(x, t)
    <2>1. \A y \in T : AtLeast(t, y)
      BY <1>0, <1>4, <1>8, <1>9, <1>11
    <2> QED
      BY <1>3, <1>4, <2>1
  <1> QED
    BY <1>10, <1>11

\* A number of the members of a finite set is greatest at one of them.
LEMMA GreatestAtOne ==
    ASSUME NEW S, IsFiniteSet(S), S # {}, NEW f, \A x \in S : f[x] \in Int
    PROVE  \E x \in S : \A y \in S : f[x] >= f[y]
  <1> DEFINE one == [x \in S |-> 1]
  <1>1. \A x \in S : one[x] = 1
    OBVIOUS
  <1> HIDE DEF one
  <1>2. \A x \in S : f[x] \in Int /\ one[x] \in Nat \ {0}
    BY <1>1
  <1>3. PICK x \in S : \A y \in S : f[x] * one[y] >= f[y] * one[x]
    BY <1>2, GreatestQuotient
  <1>4. \A y \in S : f[x] * one[y] = f[x] /\ f[y] * one[x] = f[y]
    BY <1>1
  <1> QED
    BY <1>3, <1>4

\* The member a sum over the set takes first, and what the sum of the rest adds.
First(S) == CHOOSE i \in S : TRUE

Sum(f, sums, S) == IF S = {} THEN 0 ELSE f[First(S)] + sums[S \ {First(S)}]

\* The sets of at most k members.
Few(S, k) == {T \in SUBSET S : Cardinality(T) <= k}

\* The sum is defined on every part of a finite set.
LEMMA SumsExist ==
    ASSUME NEW indices, IsFiniteSet(indices), NEW f, \A i \in indices : f[i] \in Int
    PROVE  \E sums \in [SUBSET indices -> Int] :
               \A S \in SUBSET indices : sums[S] = Sum(f, sums, S)
  <1> DEFINE Sums(k, sums) == /\ sums \in [Few(indices, k) -> Int]
                              /\ \A S \in Few(indices, k) : sums[S] = Sum(f, sums, S)
             Without == {k \in Nat : ~\E sums : Sums(k, sums)}
  <1>1. \A S \in SUBSET indices : IsFiniteSet(S) /\ Cardinality(S) \in Nat
    BY FS_Subset, FS_CardinalityType
  <1>2. 0 \notin Without
    <2>1. \A S \in Few(indices, 0) : S = {}
      BY <1>1, FS_EmptySet DEF Few
    <2>2. Sums(0, [S \in Few(indices, 0) |-> 0])
      BY <2>1 DEF Sum
    <2> QED
      BY <2>2
  <1>3. ASSUME NEW k \in Nat, NEW sums, Sums(k, sums)
        PROVE  k + 1 \notin Without
    <2> DEFINE more == [S \in Few(indices, k + 1) |-> Sum(f, sums, S)]
    <2>1. ASSUME NEW S \in Few(indices, k + 1), S # {}
          PROVE  /\ S \ {First(S)} \in Few(indices, k)
                 /\ S \ {First(S)} \in Few(indices, k + 1)
                 /\ First(S) \in indices
      <3>1. First(S) \in S /\ S \in SUBSET indices /\ Cardinality(S) <= k + 1
        BY <2>1 DEF First, Few
      <3>2. Cardinality(S \ {First(S)}) = Cardinality(S) - 1 /\ Cardinality(S) \in Nat
        BY <3>1, <1>1, FS_RemoveElement
      <3>3. S \ {First(S)} \in SUBSET indices
        BY <3>1
      <3> QED
        BY <3>1, <3>2, <3>3 DEF Few
    <2>2. more \in [Few(indices, k + 1) -> Int]
      <3>1. ASSUME NEW S \in Few(indices, k + 1)
            PROVE  Sum(f, sums, S) \in Int
        BY <2>1, <1>3 DEF Sum
      <3> QED
        BY <3>1
    <2>3. \A S \in Few(indices, k) : S \in Few(indices, k + 1) /\ more[S] = sums[S]
      <3>1. \A S \in Few(indices, k) : S \in Few(indices, k + 1)
        BY <1>1 DEF Few
      <3> QED
        BY <3>1, <1>3
    <2>4. ASSUME NEW S \in Few(indices, k + 1)
          PROVE  more[S] = Sum(f, more, S)
      <3>1. CASE S = {}
        BY <3>1 DEF Sum
      <3>2. CASE S # {}
        <4> HIDE DEF more
        <4>1. more[S \ {First(S)}] = sums[S \ {First(S)}]
          BY <2>1, <2>3, <3>2
        <4>2. more[S] = Sum(f, sums, S)
          BY DEF more
        <4> QED
          BY <4>1, <4>2 DEF Sum
      <3> QED
        BY <3>1, <3>2
    <2>5. Sums(k + 1, more)
      BY <2>2, <2>4
    <2> QED
      BY <2>5
  <1> HIDE DEF Sums
  <1>4. Without = {}
    <2> SUFFICES ASSUME Without # {}
                 PROVE  FALSE
      OBVIOUS
    <2>1. PICK k \in Without : \A l \in Without : k <= l
      BY LeastNumber
    <2>2. k \in Nat /\ k # 0
      BY <2>1, <1>2
    <2>3. k - 1 \in Nat /\ k - 1 \notin Without
      BY <2>1, <2>2
    <2>4. PICK sums : Sums(k - 1, sums)
      BY <2>3
    <2>5. (k - 1) + 1 \notin Without
      BY <2>3, <2>4, <1>3
    <2> QED
      BY <2>1, <2>2, <2>5
  <1>5. Cardinality(indices) \in Nat
    BY FS_CardinalityType
  <1>6. PICK sums : Sums(Cardinality(indices), sums)
    BY <1>4, <1>5
  <1>7. Few(indices, Cardinality(indices)) = SUBSET indices
    BY FS_Subset DEF Few
  <1>8. sums \in [SUBSET indices -> Int] /\ \A S \in SUBSET indices : sums[S] = Sum(f, sums, S)
    BY <1>6, <1>7 DEF Sums
  <1> QED
    BY <1>8

\* Such a sum is a number, and of one member its own.
LEMMA SumIsNumber ==
    ASSUME NEW S, IsFiniteSet(S), NEW f, \A i \in S : f[i] \in Int,
           NEW sums, \A T \in SUBSET S : sums[T] = Sum(f, sums, T)
    PROVE  sums[S] \in Int /\ \A i : S = {i} => sums[S] = f[i]
  <1>1. \A T \in SUBSET S : sums[T] = Sum(f, sums, T)
    OBVIOUS
  <1>2. ASSUME NEW i, S = {i}
        PROVE  sums[S] = f[i]
    <2>1. First(S) = i /\ S # {}
      BY <1>2 DEF First
    <2>2. S \ {First(S)} = {}
      BY <1>2, <2>1
    <2>3. sums[{}] = 0
      BY <1>1 DEF Sum
    <2>4. sums[S] = f[i] + 0
      BY <1>1, <2>1, <2>2, <2>3 DEF Sum
    <2> QED
      BY <1>2, <2>4
  <1>3. sums[S] \in Int
    <2> DEFINE Bad == {n \in Nat : \E T \in SUBSET S : Cardinality(T) = n /\ sums[T] \notin Int}
    <2>1. \A T \in SUBSET S : IsFiniteSet(T) /\ Cardinality(T) \in Nat
      BY FS_Subset, FS_CardinalityType
    <2>2. Bad = {}
      <3> SUFFICES ASSUME Bad # {}
                   PROVE  FALSE
        OBVIOUS
      <3>1. PICK n \in Bad : \A l \in Bad : n <= l
        BY LeastNumber
      <3>2. PICK T \in SUBSET S : Cardinality(T) = n /\ sums[T] \notin Int
        BY <3>1
      <3>3. T # {}
        <4>1. sums[{}] = 0
          BY <1>1 DEF Sum
        <4>2. 0 \in Int
          OBVIOUS
        <4> HIDE DEF Bad
        <4> QED
          BY <3>2, <4>1, <4>2
      <3>4. First(T) \in T
        BY <3>3 DEF First
      <3> DEFINE rest == T \ {First(T)}
      <3>5. rest \in SUBSET S /\ Cardinality(rest) = n - 1 /\ n - 1 \in Nat
        <4>1. Cardinality(rest) = Cardinality(T) - 1
          BY <2>1, <3>4, FS_RemoveElement
        <4>2. rest \in SUBSET S
          BY <3>2
        <4>3. Cardinality(rest) \in Nat
          BY <2>1, <4>2
        <4> QED
          BY <3>2, <4>1, <4>2, <4>3
      <3>6. n - 1 \notin Bad
        BY <3>1, <3>5
      <3>7. sums[rest] \in Int
        BY <3>5, <3>6
      <3>8. sums[T] = f[First(T)] + sums[rest]
        BY <1>1, <3>3 DEF Sum
      <3>9. f[First(T)] \in Int
        BY <3>4
      <3> HIDE DEF rest
      <3> QED
        BY <3>2, <3>7, <3>8, <3>9
    <2>3. Cardinality(S) \in Nat /\ S \in SUBSET S
      BY <2>1
    <2>4. Cardinality(S) \notin Bad
      BY <2>2
    <2> QED
      BY <2>3, <2>4
  <1> QED
    BY <1>2, <1>3

\* The memory of a set of devices is a number, and of one device its own.
LEMMA TotalOfDevices ==
    ASSUME NEW devices, NEW S, IsFiniteSet(S), \A i \in S : Capacity(devices[i]) \in Int
    PROVE  /\ Total(devices, S) \in Int
           /\ \A i : S = {i} => Total(devices, S) = Capacity(devices[i])
  <1> DEFINE f == [i \in S |-> Capacity(devices[i])]
             Fold(sums, T) ==
                 IF T = {} THEN 0
                 ELSE Capacity(devices[First(T)]) + sums[T \ {First(T)}]
             IsFold(sums) == sums = [T \in SUBSET S |-> Fold(sums, T)]
             sum == CHOOSE sums : IsFold(sums)
  <1>1. \A i \in S : f[i] = Capacity(devices[i])
    OBVIOUS
  <1>2. Total(devices, S) = sum[S]
    BY DEF Total, MapThenSumSet, MapThenFoldSet, First
  <1> HIDE DEF f
  <1>3. \A i \in S : f[i] \in Int
    BY <1>1
  <1>4. \A sums : \A T \in SUBSET S : Fold(sums, T) = Sum(f, sums, T)
    BY <1>1 DEF Sum, First
  <1>5. PICK sums \in [SUBSET S -> Int] : \A T \in SUBSET S : sums[T] = Sum(f, sums, T)
    BY <1>3, SumsExist
  <1>6. \A T \in SUBSET S : sums[T] = Fold(sums, T)
    BY <1>4, <1>5
  <1>7. IsFold(sums)
    BY <1>5, <1>6
  <1> HIDE DEF IsFold
  <1>8. IsFold(sum)
    BY <1>7
  <1> HIDE DEF sum
  <1>9. \A T \in SUBSET S : sum[T] = Sum(f, sum, T)
    <2>1. \A T \in SUBSET S : sum[T] = Fold(sum, T)
      BY <1>8 DEF IsFold
    <2> QED
      BY <1>4, <2>1
  <1> QED
    BY <1>1, <1>2, <1>3, <1>9, SumIsNumber

-----------------------------------------------------------------------------
(* Placement: what was found feasible can be held.                         *)

\* The machine is one with devices of known sizes.
PlaceTypeOK == machine \in Machine

\* Each device has a capacity.
LEMMA CapacityIsNat ==
    ASSUME NEW d \in Device
    PROVE  Capacity(d) \in Nat
  BY DEF Capacity, Device

\* The indices of usable devices are finitely many, each with a capacity.
LEMMA UsableDevices ==
    ASSUME NEW devices \in Seq(Device), NEW r
    PROVE  /\ IsFiniteSet(Usable(devices, r))
           /\ Usable(devices, r) \subseteq Nat
           /\ \A i \in Usable(devices, r) : /\ i \in DOMAIN devices
                                            /\ devices[i].class.backend \in Backends(r)
                                            /\ Capacity(devices[i]) \in Int
  <1>1. DOMAIN devices = 1..Len(devices) /\ Len(devices) \in Nat
    OBVIOUS
  <1>2. IsFiniteSet(DOMAIN devices)
    BY <1>1, FS_Interval
  <1>3. Usable(devices, r) \subseteq DOMAIN devices
    BY DEF Usable
  <1>4. \A i \in DOMAIN devices : devices[i] \in Device /\ i \in Nat
    BY <1>1
  <1>5. IsFiniteSet(Usable(devices, r))
    BY <1>2, <1>3, FS_Subset
  <1>6. \A i \in DOMAIN devices : Capacity(devices[i]) \in Int
    BY <1>4, CapacityIsNat
  <1> QED
    BY <1>3, <1>4, <1>5, <1>6 DEF Usable

\* The best capacity is that of a usable device, if there is one.
LEMMA BestIsOfADevice ==
    ASSUME NEW devices \in Seq(Device), NEW r, Usable(devices, r) # {}
    PROVE  \E i \in Usable(devices, r) : BestCapacity(devices, r) = Capacity(devices[i])
  <1> DEFINE U == Usable(devices, r)
             size == [i \in U |-> Capacity(devices[i])]
             sizes == {Capacity(devices[i]) : i \in U}
  <1>1. PICK i \in U : \A j \in U : size[i] >= size[j]
    <2>1. \A j \in U : size[j] \in Int
      BY UsableDevices
    <2> HIDE DEF size
    <2> QED
      BY <2>1, UsableDevices, GreatestAtOne
  <1>2. Capacity(devices[i]) \in sizes /\ \A c \in sizes : Capacity(devices[i]) >= c
    BY <1>1
  <1>3. Max(sizes) \in sizes
    BY <1>2 DEF Max
  <1>4. BestCapacity(devices, r) = Max(sizes)
    BY <1>2 DEF BestCapacity
  <1> QED
    BY <1>3, <1>4

\* The group the assessment takes is one of the groups: among finitely many there
\* is one with the most memory, and among those one that comes first.
LEMMA GroupIsOne ==
    ASSUME NEW devices \in Seq(Device), NEW r, Group(devices, r) # {}
    PROVE  Group(devices, r) \in Groups(devices, r)
  <1> DEFINE U == Usable(devices, r)
             groups == Groups(devices, r)
             total == [S \in groups |-> Total(devices, S)]
             most == {S \in groups : \A T \in groups : Total(devices, S) >= Total(devices, T)}
             places == {Min(S) : S \in most}
  <1>1. groups # {}
    BY DEF Group
  <1>2. \A S \in groups : S \in SUBSET U /\ S # {}
    BY DEF Groups
  <1>3. IsFiniteSet(U) /\ \A S \in SUBSET U : IsFiniteSet(S)
    BY UsableDevices, FS_Subset
  <1>4. IsFiniteSet(groups)
    <2>1. IsFiniteSet(SUBSET U) /\ groups \in SUBSET (SUBSET U)
      BY <1>2, <1>3, FS_SUBSET
    <2> QED
      BY <2>1, FS_Subset
  <1>5. \A S \in groups : Total(devices, S) \in Int
    <2> SUFFICES ASSUME NEW S \in groups
                 PROVE  Total(devices, S) \in Int
      OBVIOUS
    <2>1. IsFiniteSet(S) /\ \A i \in S : Capacity(devices[i]) \in Int
      BY <1>2, <1>3, UsableDevices
    <2> QED
      BY <2>1, TotalOfDevices
  <1>6. PICK S \in groups : \A T \in groups : total[S] >= total[T]
    <2>1. \A T \in groups : total[T] \in Int
      BY <1>5
    <2> HIDE DEF total, groups
    <2> QED
      BY <1>1, <1>4, <2>1, GreatestAtOne
  <1>7. S \in most
    BY <1>6
  <1>8. \A T \in most : Min(T) \in Nat
    <2> SUFFICES ASSUME NEW T \in most
                 PROVE  Min(T) \in Nat
      OBVIOUS
    <2>1. T \in SUBSET Nat /\ T # {}
      BY <1>2, UsableDevices
    <2>2. \E k \in T : \A l \in T : k <= l
      BY <2>1, LeastNumber
    <2>3. Min(T) \in T
      BY <2>2 DEF Min
    <2> QED
      BY <2>1, <2>3
  <1>9. PICK k \in places : \A l \in places : k <= l
    <2>1. places \in SUBSET Nat /\ places # {}
      BY <1>7, <1>8
    <2> HIDE DEF places
    <2> QED
      BY <2>1, LeastNumber
  <1>10. \E T \in most : \A V \in most : Min(T) <= Min(V)
    <2>1. PICK T \in most : k = Min(T)
      BY <1>9
    <2>2. \A V \in most : Min(V) \in places
      OBVIOUS
    <2> QED
      BY <1>9, <2>1, <2>2
  <1>11. Group(devices, r) = CHOOSE T \in most : \A V \in most : Min(T) <= Min(V)
    BY <1>1 DEF Group
  <1> HIDE DEF most
  <1>12. Group(devices, r) \in most
    BY <1>10, <1>11
  <1> QED
    BY <1>12 DEF most

\* The share of the system memory, cut off before or after the division by two.
LEMMA ShareOfRam ==
    ASSUME NEW ram \in Nat
    PROVE  OfRam(ram) \in Nat /\ OfRam(ram) = (ram * 4) \div 5
  BY DEF OfRam

\* Each feasible mode names memory that can hold the model.
LEMMA FeasibleIsHeld ==
    ASSUME PlaceTypeOK
    PROVE  EligibleFits
  <1> DEFINE need == Required(model, context)
             dev == machine.devices
             r == runtime
             group == Group(dev, r)
             best == BestCapacity(dev, r)
             ram == machine.ram
  <1> SUFFICES ASSUME Eligible(model, machine, r, context)
               PROVE  CanHold
    BY DEF EligibleFits
  <1>1. ram \in Nat /\ dev \in Seq(Device)
    BY DEF PlaceTypeOK, Machine
  <1>2. need # None
    BY DEF Eligible, FeasibleModes
  <1>3. \/ Usable(dev, r) # {} /\ best >= need
        \/ /\ Split(r) # None /\ group # {}
           /\ HeadsDivide(model, r, group) /\ Total(dev, group) >= need
        \/ Offloads(r) /\ best + OfRam(ram) >= need
        \/ OfRam(ram) >= need
    BY DEF Eligible, FeasibleModes
  <1>4. OfRam(ram) \in Nat /\ OfRam(ram) = (ram * 4) \div 5
    BY <1>1, ShareOfRam
  <1> DEFINE Holds(S) ==
               /\ S # {}
               /\ \A i \in S : dev[i].class.backend \in Backends(r)
               /\ Cardinality(S) > 1 =>
                    /\ Split(r) # None
                    /\ \A i, j \in S : dev[i].class = dev[j].class
                    /\ HeadsDivide(model, r, S)
               /\ Total(dev, S) >= need
  <1>5. (\E S \in SUBSET DOMAIN dev : Holds(S)) => CanHold
    BY <1>2 DEF CanHold
  <1>6. OfRam(ram) >= need => CanHold
    BY <1>2, <1>4 DEF CanHold
  <1>7. ASSUME Usable(dev, r) # {}, best >= need
        PROVE  CanHold
    <2>1. PICK i \in Usable(dev, r) : best = Capacity(dev[i])
      BY <1>1, <1>7, BestIsOfADevice
    <2>2. i \in DOMAIN dev /\ dev[i].class.backend \in Backends(r) /\ Capacity(dev[i]) \in Int
      BY <1>1, UsableDevices
    <2>3. IsFiniteSet({i}) /\ Cardinality({i}) = 1
      BY FS_Singleton
    <2>4. Total(dev, {i}) = Capacity(dev[i])
      BY <2>2, <2>3, TotalOfDevices
    <2>5. Holds({i})
      BY <1>7, <2>1, <2>2, <2>3, <2>4
    <2> HIDE DEF Holds
    <2> QED
      BY <1>5, <2>2, <2>5
  <1>8. ASSUME Split(r) # None, group # {}, HeadsDivide(model, r, group), Total(dev, group) >= need
        PROVE  CanHold
    <2>1. group \in Groups(dev, r)
      BY <1>1, <1>8, GroupIsOne
    <2>2. PICK i \in Usable(dev, r) :
              group = {j \in Usable(dev, r) : dev[j].class = dev[i].class}
      BY <2>1 DEF Groups
    <2>3. \A j \in group : /\ j \in DOMAIN dev
                           /\ dev[j].class.backend \in Backends(r)
                           /\ dev[j].class = dev[i].class
      BY <1>1, <2>2, UsableDevices
    <2> HIDE DEF group
    <2>4. Holds(group)
      BY <1>8, <2>3
    <2> HIDE DEF Holds
    <2> QED
      BY <1>5, <2>3, <2>4
  <1>9. ASSUME Offloads(r), best + OfRam(ram) >= need
        PROVE  CanHold
    <2>1. CASE Usable(dev, r) = {}
      <3>1. best = 0
        BY <2>1 DEF BestCapacity
      <3> QED
        BY <1>4, <1>6, <1>9, <3>1
    <2>2. CASE Usable(dev, r) # {}
      <3>1. PICK i \in Usable(dev, r) : best = Capacity(dev[i])
        BY <1>1, <2>2, BestIsOfADevice
      <3> QED
        BY <1>2, <1>4, <1>9, <3>1 DEF CanHold
    <2> QED
      BY <2>1, <2>2
  <1> QED
    BY <1>3, <1>6, <1>7, <1>8, <1>9

\* What changes on the machine leaves it a machine of devices.
THEOREM MachineType == PlaceSpec => []PlaceTypeOK
  <1>1. PlaceInit => PlaceTypeOK
    BY PlacementAssumption DEF PlaceInit, PlaceTypeOK
  <1>2. ASSUME PlaceTypeOK, [PlaceNext]_placeVars
        PROVE  PlaceTypeOK'
    <2>1. /\ machine = [ram |-> machine.ram, devices |-> machine.devices]
          /\ machine.ram \in Nat /\ machine.devices \in Seq(Device)
      BY <1>2 DEF PlaceTypeOK, Machine
    <2>2. CASE MemoryChanges
      <3>1. PICK i \in DOMAIN machine.devices, free \in FreeSizes :
                machine' = [machine EXCEPT !.devices[i].free = free]
        BY <2>2 DEF MemoryChanges
      <3> DEFINE dev == machine.devices
                 now == [dev EXCEPT ![i] = [dev[i] EXCEPT !.free = free]]
      <3>2. machine' = [ram |-> machine.ram, devices |-> now]
        BY <2>1, <3>1
      <3>3. dev[i] \in Device /\ free \in Nat
        BY <2>1, PlacementAssumption
      <3>4. [dev[i] EXCEPT !.free = free] \in Device
        BY <3>3 DEF Device
      <3>5. now \in Seq(Device)
        BY <2>1, <3>4, ExceptSeq
      <3> HIDE DEF now
      <3> QED
        BY <2>1, <3>2, <3>5 DEF PlaceTypeOK, Machine
    <2>3. CASE RamChanges
      BY <1>2, <2>3, PlacementAssumption DEF RamChanges, PlaceTypeOK, Machine
    <2>4. CASE AddDevice
      <3>1. PICK i \in DOMAIN machine.devices :
                machine' = [machine EXCEPT !.devices = Append(machine.devices, machine.devices[i])]
        BY <2>4 DEF AddDevice
      <3>2. Append(machine.devices, machine.devices[i]) \in Seq(Device)
        BY <2>1
      <3> QED
        BY <2>1, <3>1, <3>2 DEF PlaceTypeOK, Machine
    <2>5. CASE AskAgain
      BY <1>2, <2>5 DEF AskAgain, PlaceTypeOK
    <2>6. CASE UNCHANGED placeVars
      BY <1>2, <2>6 DEF placeVars, PlaceTypeOK
    <2> QED
      BY <1>2, <2>2, <2>3, <2>4, <2>5, <2>6 DEF PlaceNext
  <1> QED
    BY <1>1, <1>2, PTL DEF PlaceSpec

\* An eligible model is one some devices, or the system memory, can hold: on any
\* machine, whatever memory is free, for any model and runtime.
THEOREM EligibleModelsFit == PlaceSpec => []EligibleFits
  <1>1. PlaceTypeOK => EligibleFits
    BY FeasibleIsHeld
  <1> QED
    BY <1>1, MachineType, PTL

\* What recommend lists as recommended or usable is not turned away by a route.
THEOREM RecommendedAreRoutable == PlaceSpec => []RecommendedIsRoutable
  <1>1. RecommendedIsRoutable
    BY DEF RecommendedIsRoutable, Level, RecommendModel, FitModel
  <1> QED
    BY <1>1, PTL

-----------------------------------------------------------------------------
(* The runs of a suite.                                                    *)

Answer == {"right", "wrong", "error"}

Run == [passed : BOOLEAN, quality : {0, 100}, ttft : {Nil}, source : {FALSE}]

RunJob == [at : {"ask", "hand over", "judge", "save"}, who : Measured, left : Int,
           runs : Seq(Run), said : Seq(Answer), alone : BOOLEAN]

ImportJob(j) == j = [at |-> "write", records |-> j.records, i |-> j.i]

\* The answers judged so far are the model's own; the last one is in the work
\* file when it is judged.
OwnSoFar(j) ==
    /\ j.at \in {"ask", "save"} => Len(j.said) = Len(j.runs)
    /\ j.at \in {"hand over", "judge"} => Len(j.said) = Len(j.runs) + 1
    /\ \A i \in 1 .. Len(j.runs) : j.runs[i].passed = (j.said[i] = "right")
    /\ j.at = "judge" => output = Last(j.said)

\* A run that is alone has no other command next to it.
RunsInv ==
    /\ benchJob = [c \in Runner |-> benchJob[c]]
    /\ \A c \in Runner : benchJob[c] # NoBench =>
          /\ benchJob[c] \in RunJob \/ ImportJob(benchJob[c])
          /\ benchJob[c] \in RunJob /\ benchJob[c].alone =>
                /\ OwnSoFar(benchJob[c])
                /\ \A d \in Runner \ {c} : Free(d)

\* A command takes a step of its own: no other one is alone.
LEMMA StepKeeps ==
    ASSUME RunsInv, NEW c \in Runner, NEW j, To(c, j), ~Free(c),
           j # NoBench => j \in RunJob \/ ImportJob(j),
           j # NoBench /\ j \in RunJob /\ j.alone =>
              /\ benchJob[c] \in RunJob /\ benchJob[c].alone
              /\ OwnSoFar(j)'
    PROVE  RunsInv'
  <1>1. /\ benchJob' = [d \in Runner |-> benchJob'[d]]
        /\ benchJob'[c] = j
        /\ \A d \in Runner \ {c} : benchJob'[d] = benchJob[d]
    BY DEF RunsInv, To
  <1>2. \A d \in Runner \ {c} : benchJob[d] \in RunJob /\ benchJob[d].alone => Free(d)
    BY DEF RunsInv, Free
  <1>3. ASSUME NEW d \in Runner, benchJob'[d] # NoBench
        PROVE  /\ benchJob'[d] \in RunJob \/ ImportJob(benchJob'[d])
               /\ benchJob'[d] \in RunJob /\ benchJob'[d].alone =>
                     /\ OwnSoFar(benchJob[d])'
                     /\ \A e \in Runner \ {d} : Free(e)'
    <2>1. CASE d = c
      <3>1. benchJob'[d] \in RunJob \/ ImportJob(benchJob'[d])
        BY <1>1, <1>3, <2>1
      <3>2. ASSUME benchJob'[d] \in RunJob, benchJob'[d].alone
            PROVE  /\ OwnSoFar(benchJob[d])'
                   /\ \A e \in Runner \ {d} : Free(e)'
        <4>1. benchJob[c] \in RunJob /\ benchJob[c].alone /\ OwnSoFar(j)'
          BY <1>1, <1>3, <2>1, <3>2
        <4>2. \A e \in Runner \ {c} : Free(e)
          BY <4>1 DEF RunsInv, Free
        <4> QED
          BY <1>1, <2>1, <4>1, <4>2 DEF Free, OwnSoFar
      <3> QED
        BY <3>1, <3>2
    <2>2. CASE d # c
      BY <1>1, <1>2, <1>3, <2>2 DEF RunsInv, Free
    <2> QED
      BY <2>1, <2>2
  <1> QED
    BY <1>1, <1>3 DEF RunsInv

\* The shape of a run, which its steps keep.
LEMMA RunJobShape ==
    ASSUME NEW j \in RunJob
    PROVE  /\ j.at \in {"ask", "hand over", "judge", "save"}
           /\ j.left \in Int /\ j.runs \in Seq(Run) /\ j.said \in Seq(Answer)
           /\ Len(j.runs) \in Nat /\ Len(j.said) \in Nat
  <1>1. /\ j.at \in {"ask", "hand over", "judge", "save"}
        /\ j.left \in Int /\ j.runs \in Seq(Run) /\ j.said \in Seq(Answer)
    BY DEF RunJob
  <1> QED
    BY <1>1, LenProperties

\* The results of a judgement are runs.
LEMMA ResultIsRun ==
    ASSUME NEW passed \in BOOLEAN
    PROVE  Result(passed) \in Run /\ Result(passed).passed = passed
  BY DEF Result, Run

\* The judgement of an answer is one more run, of the answers said so far.
LEMMA JudgedRun ==
    ASSUME NEW j \in RunJob, NEW passed \in BOOLEAN
    PROVE  /\ Judged(j, passed) \in RunJob
           /\ Judged(j, passed).said = j.said
           /\ Judged(j, passed).alone = j.alone
           /\ Judged(j, passed).runs = Append(j.runs, Result(passed))
           /\ Judged(j, passed).at \in {"ask", "save"}
  <1> DEFINE runs == Append(j.runs, Result(passed))
             at == IF j.left = 1 THEN "save" ELSE "ask"
  <1>1. Judged(j, passed) = [j EXCEPT !.runs = runs, !.left = j.left - 1, !.at = at]
    BY DEF Judged
  <1>2. /\ j.runs \in Seq(Run) /\ j.left \in Int /\ Result(passed) \in Run
    BY RunJobShape, ResultIsRun
  <1>3. runs \in Seq(Run)
    BY <1>2, AppendProperties
  <1>4. at \in {"ask", "save"}
    OBVIOUS
  <1>5. j.left - 1 \in Int
    BY <1>2
  <1> HIDE DEF runs, at
  <1>6. Judged(j, passed) \in RunJob
    BY <1>1, <1>3, <1>4, <1>5 DEF RunJob
  <1>7. /\ Judged(j, passed).said = j.said
        /\ Judged(j, passed).alone = j.alone
        /\ Judged(j, passed).runs = runs
        /\ Judged(j, passed).at = at
    BY <1>1, <1>3, <1>4, <1>5 DEF RunJob
  <1> QED
    BY <1>4, <1>6, <1>7 DEF runs

\* When the last answer said is the one judged, all of them are the model's own.
LEMMA JudgedIsOwn ==
    ASSUME NEW j \in RunJob, NEW passed \in BOOLEAN,
           Len(j.said) = Len(j.runs) + 1,
           \A i \in 1 .. Len(j.runs) : j.runs[i].passed = (j.said[i] = "right"),
           passed = (Last(j.said) = "right")
    PROVE  OwnSoFar(Judged(j, passed))'
  <1> DEFINE runs == Append(j.runs, Result(passed))
  <1>1. /\ Judged(j, passed).said = j.said
        /\ Judged(j, passed).runs = runs
        /\ Judged(j, passed).at \in {"ask", "save"}
    BY JudgedRun
  <1>2. /\ j.said \in Seq(Answer) /\ j.runs \in Seq(Run)
        /\ Len(j.runs) \in Nat /\ Result(passed) \in Run
    BY RunJobShape, ResultIsRun
  <1>3. /\ Len(runs) = Len(j.runs) + 1
        /\ \A i \in 1 .. Len(j.runs) : runs[i] = j.runs[i]
        /\ runs[Len(j.runs) + 1] = Result(passed)
    BY <1>2, AppendProperties
  <1>4. Result(passed).passed = (j.said[Len(j.runs) + 1] = "right")
    BY ResultIsRun DEF Last
  <1> HIDE DEF runs
  <1>5. \A i \in 1 .. Len(runs) : runs[i].passed = (j.said[i] = "right")
    BY <1>2, <1>3, <1>4
  <1> DEFINE k == Judged(j, passed)
  <1>6. /\ k.said = j.said /\ k.runs = runs /\ k.at \in {"ask", "save"}
    BY <1>1
  <1> HIDE DEF k
  <1>7. OwnSoFar(k)'
    BY <1>3, <1>5, <1>6 DEF OwnSoFar
  <1> QED
    BY <1>7 DEF k

\* One more answer, whatever becomes of it.
Said(b, answer) == [b EXCEPT !.said = Append(b.said, answer)]

LEMMA SaidRun ==
    ASSUME NEW b \in RunJob, NEW answer \in Answer
    PROVE  /\ Said(b, answer) \in RunJob
           /\ Said(b, answer).runs = b.runs /\ Said(b, answer).alone = b.alone
           /\ Len(Said(b, answer).said) = Len(b.said) + 1
           /\ Last(Said(b, answer).said) = answer
           /\ \A i \in 1 .. Len(b.said) : Said(b, answer).said[i] = b.said[i]
  <1> DEFINE said == Append(b.said, answer)
  <1>1. b.said \in Seq(Answer)
    BY RunJobShape
  <1>2. said \in Seq(Answer)
    BY <1>1, AppendProperties
  <1>3. /\ Len(said) = Len(b.said) + 1
        /\ said[Len(b.said) + 1] = answer
        /\ \A i \in 1 .. Len(b.said) : said[i] = b.said[i]
    BY <1>1, AppendProperties
  <1> DEFINE j == Said(b, answer)
  <1>4. j = [b EXCEPT !.said = said]
    BY DEF Said
  <1> HIDE DEF said, j
  <1>5. j \in RunJob /\ j.runs = b.runs /\ j.alone = b.alone /\ j.said = said
    BY <1>2, <1>4 DEF RunJob
  <1>6. /\ Len(j.said) = Len(b.said) + 1 /\ Last(j.said) = answer
        /\ \A i \in 1 .. Len(b.said) : j.said[i] = b.said[i]
    BY <1>3, <1>5 DEF Last
  <1> QED
    BY <1>5, <1>6 DEF j

\* To the next stage of the same answer.
LEMMA MovedRun ==
    ASSUME NEW b \in RunJob, NEW at \in {"hand over", "judge"},
           NEW j, j = [b EXCEPT !.at = at]
    PROVE  /\ j \in RunJob /\ j.runs = b.runs /\ j.alone = b.alone
           /\ j.said = b.said /\ j.at = at
  BY DEF RunJob

\* An import is no run.
LEMMA ImportsWrite ==
    ASSUME NEW j, ImportJob(j)
    PROVE  j.at = "write"
  <1> DEFINE records == j.records
             i == j.i
  <1>1. j = [at |-> "write", records |-> records, i |-> i]
    BY DEF ImportJob
  <1> HIDE DEF records, i
  <1> QED
    BY <1>1

\* A run is handed its own answer, and judged by it; it stays a run until it ends.
LEMMA RunsGoOn ==
    ASSUME RunsInv, NEW c \in Runner,
           RunTask(c) \/ HandOver(c) \/ Evaluate(c) \/ SaveRun(c) \/ BenchEnds(c)
    PROVE  RunsInv' /\ \E next \in RunJob \cup {NoBench} : To(c, next)
  <1>0. PICK b : b = benchJob[c]
    OBVIOUS
  <1>1. ~Free(c)
    BY DEF RunTask, HandOver, Evaluate, SaveRun, BenchEnds, Doing, Free
  <1>2. ASSUME To(c, NoBench)
        PROVE  RunsInv' /\ \E next \in RunJob \cup {NoBench} : To(c, next)
    BY <1>1, <1>2, StepKeeps
  <1>3. ASSUME b.at \in {"ask", "hand over", "judge"}
        PROVE  /\ b \in RunJob
               /\ b.alone => OwnSoFar(b)
    <2>1. b \in RunJob \/ ImportJob(b)
      BY <1>0, <1>1 DEF RunsInv, Free
    <2>2. ~ImportJob(b)
      BY <1>3, ImportsWrite
    <2> QED
      BY <1>0, <1>1, <2>1, <2>2 DEF RunsInv, Free
  <1>4. ASSUME NEW j \in RunJob, To(c, j), b \in RunJob, j.alone = b.alone,
               b.alone => OwnSoFar(j)'
        PROVE  RunsInv' /\ \E next \in RunJob \cup {NoBench} : To(c, next)
    BY <1>0, <1>1, <1>4, StepKeeps
  <1>5. ASSUME RunTask(c)
        PROVE  RunsInv' /\ \E next \in RunJob \cup {NoBench} : To(c, next)
    <2>1. PICK answer \in Answer :
             LET j == [b EXCEPT !.said = Append(@, answer)]
             IN  IF answer = "error"
                 THEN To(c, Judged(j, FALSE))
                 ELSE To(c, [j EXCEPT !.at = "hand over"])
      BY <1>0, <1>5 DEF RunTask, Answer
    <2> DEFINE j == [b EXCEPT !.said = Append(@, answer)]
               k == [j EXCEPT !.at = "hand over"]
    <2>2. b.at = "ask" /\ b \in RunJob /\ (b.alone => OwnSoFar(b))
      BY <1>0, <1>3, <1>5 DEF RunTask, Doing
    <2>3. /\ j \in RunJob /\ j.runs = b.runs /\ j.alone = b.alone
          /\ Len(j.said) = Len(b.said) + 1 /\ Last(j.said) = answer
          /\ \A i \in 1 .. Len(b.said) : j.said[i] = b.said[i]
      <3>1. j = Said(b, answer)
        BY DEF Said
      <3> HIDE DEF j
      <3>2. b \in RunJob /\ answer \in Answer
        BY <2>2
      <3> QED
        BY <3>1, <3>2, SaidRun
    <2>4. b.alone => /\ Len(j.said) = Len(j.runs) + 1
                     /\ \A i \in 1 .. Len(j.runs) :
                           j.runs[i].passed = (j.said[i] = "right")
      <3> SUFFICES ASSUME b.alone
                   PROVE  /\ Len(j.said) = Len(j.runs) + 1
                          /\ \A i \in 1 .. Len(j.runs) :
                                j.runs[i].passed = (j.said[i] = "right")
        OBVIOUS
      <3>1. /\ Len(b.said) = Len(b.runs)
            /\ \A i \in 1 .. Len(b.runs) : b.runs[i].passed = (b.said[i] = "right")
        BY <2>2 DEF OwnSoFar
      <3> HIDE DEF j
      <3>2. Len(j.said) = Len(j.runs) + 1
        BY <2>3, <3>1
      <3>3. \A i \in 1 .. Len(j.runs) : j.runs[i].passed = (j.said[i] = "right")
        BY <2>3, <3>1
      <3> QED
        BY <3>2, <3>3
    <2>5. ASSUME answer = "error"
          PROVE  RunsInv' /\ \E next \in RunJob \cup {NoBench} : To(c, next)
      <3>1. To(c, Judged(j, FALSE))
        BY <2>1, <2>5
      <3>2. Last(j.said) # "right"
        BY <2>3, <2>5
      <3> HIDE DEF j
      <3>3. Judged(j, FALSE) \in RunJob /\ Judged(j, FALSE).alone = b.alone
        BY <2>3, JudgedRun
      <3>4. FALSE = (Last(j.said) = "right")
        BY <3>2
      <3>5. b.alone => OwnSoFar(Judged(j, FALSE))'
        BY <2>3, <2>4, <3>4, JudgedIsOwn
      <3> QED
        BY <1>4, <2>2, <3>1, <3>3, <3>5
    <2>6. ASSUME answer # "error"
          PROVE  RunsInv' /\ \E next \in RunJob \cup {NoBench} : To(c, next)
      <3>1. To(c, k)
        BY <2>1, <2>6
      <3> HIDE DEF j
      <3>0. k = [j EXCEPT !.at = "hand over"]
        OBVIOUS
      <3> HIDE DEF k
      <3>2. /\ k \in RunJob /\ k.runs = j.runs /\ k.alone = j.alone
            /\ k.said = j.said /\ k.at = "hand over"
        BY <2>3, <3>0, MovedRun
      <3>3. b.alone => OwnSoFar(k)'
        BY <2>4, <3>2 DEF OwnSoFar
      <3> QED
        BY <1>4, <2>2, <2>3, <3>1, <3>2, <3>3
    <2> QED
      BY <2>5, <2>6
  <1>6. ASSUME HandOver(c)
        PROVE  RunsInv' /\ \E next \in RunJob \cup {NoBench} : To(c, next)
    <2> DEFINE k == [b EXCEPT !.at = "judge"]
    <2>1. /\ b.at = "hand over" /\ b \in RunJob /\ (b.alone => OwnSoFar(b))
          /\ To(c, k) /\ output' = Last(b.said)
      BY <1>0, <1>3, <1>6 DEF HandOver, Doing
    <2>0. k = [b EXCEPT !.at = "judge"]
      OBVIOUS
    <2> HIDE DEF k
    <2>2. /\ k \in RunJob /\ k.runs = b.runs /\ k.alone = b.alone
          /\ k.said = b.said /\ k.at = "judge"
      BY <2>0, <2>1, MovedRun
    <2>3. b.alone => OwnSoFar(k)'
      BY <2>1, <2>2 DEF OwnSoFar
    <2> QED
      BY <1>4, <2>1, <2>2, <2>3
  <1>7. ASSUME Evaluate(c)
        PROVE  RunsInv' /\ \E next \in RunJob \cup {NoBench} : To(c, next)
    <2>0. PICK passed \in BOOLEAN : passed = (output = "right")
      OBVIOUS
    <2>1. /\ b.at = "judge" /\ b \in RunJob /\ (b.alone => OwnSoFar(b))
          /\ To(c, Judged(b, passed))
      BY <1>0, <1>3, <1>7, <2>0 DEF Evaluate, Doing
    <2>2. passed \in BOOLEAN
      OBVIOUS
    <2>3. b.alone => /\ Len(b.said) = Len(b.runs) + 1
                     /\ \A i \in 1 .. Len(b.runs) :
                           b.runs[i].passed = (b.said[i] = "right")
                     /\ passed = (Last(b.said) = "right")
      BY <2>0, <2>1 DEF OwnSoFar
    <2>4. Judged(b, passed) \in RunJob /\ Judged(b, passed).alone = b.alone
      BY <2>1, <2>2, JudgedRun
    <2>5. b.alone => OwnSoFar(Judged(b, passed))'
      BY <2>1, <2>2, <2>3, JudgedIsOwn
    <2> QED
      BY <1>4, <2>1, <2>4, <2>5
  <1> QED
    BY <1>2, <1>5, <1>6, <1>7 DEF SaveRun, BenchEnds

\* A run that begins is alone when all others are idle; no other is alone then.
LEMMA RunBegins ==
    ASSUME RunsInv, NEW c \in Runner, RunBegin(c)
    PROVE  RunsInv'
  <1>1. PICK m \in Measured : \E repeats \in 1 .. 2 :
          benchJob' = [d \in Runner |->
              IF d = c THEN [at |-> "ask", who |-> m, left |-> repeats, runs |-> <<>>,
                             said |-> <<>>, alone |-> \A e \in Runner : Free(e)]
              ELSE IF benchJob[d] # NoBench /\ "alone" \in DOMAIN benchJob[d]
              THEN [benchJob[d] EXCEPT !.alone = FALSE] ELSE benchJob[d]]
    BY DEF RunBegin
  <1>2. PICK repeats \in 1 .. 2 :
          benchJob' = [d \in Runner |->
              IF d = c THEN [at |-> "ask", who |-> m, left |-> repeats, runs |-> <<>>,
                             said |-> <<>>, alone |-> \A e \in Runner : Free(e)]
              ELSE IF benchJob[d] # NoBench /\ "alone" \in DOMAIN benchJob[d]
              THEN [benchJob[d] EXCEPT !.alone = FALSE] ELSE benchJob[d]]
    BY <1>1
  <1>3. PICK alone \in BOOLEAN : alone = (\A e \in Runner : Free(e))
    OBVIOUS
  <1> DEFINE k == [at |-> "ask", who |-> m, left |-> repeats, runs |-> <<>>,
                   said |-> <<>>, alone |-> alone]
  <1>4. /\ benchJob' = [d \in Runner |-> benchJob'[d]]
        /\ benchJob'[c] = k
        /\ \A d \in Runner \ {c} :
              benchJob'[d] = IF benchJob[d] # NoBench /\ "alone" \in DOMAIN benchJob[d]
                             THEN [benchJob[d] EXCEPT !.alone = FALSE] ELSE benchJob[d]
    BY <1>2, <1>3
  <1>5. k \in RunJob /\ k.alone = alone
    BY DEF RunJob
  <1>6. OwnSoFar(k)'
    BY DEF OwnSoFar
  <1> HIDE DEF k
  <1>7. ASSUME NEW d \in Runner, benchJob'[d] # NoBench
        PROVE  /\ benchJob'[d] \in RunJob \/ ImportJob(benchJob'[d])
               /\ benchJob'[d] \in RunJob /\ benchJob'[d].alone =>
                     /\ OwnSoFar(benchJob[d])'
                     /\ \A e \in Runner \ {d} : Free(e)'
    <2>1. CASE d = c
      <3>1. k.alone => \A e \in Runner \ {c} : benchJob[e] = NoBench
        BY <1>3, <1>5 DEF Free
      <3>2. k.alone => \A e \in Runner \ {c} : Free(e)'
        BY <1>4, <3>1 DEF Free
      <3> QED
        BY <1>4, <1>5, <1>6, <2>1, <3>2 DEF OwnSoFar
    <2>2. CASE d # c
      <3>1. PICK b : b = benchJob[d]
        OBVIOUS
      <3>2. b # NoBench /\ (b \in RunJob \/ ImportJob(b))
        <4>1. b # NoBench
          BY <1>4, <1>7, <2>2, <3>1
        <4> QED
          BY <3>1, <4>1 DEF RunsInv
      <3>3. CASE b \in RunJob
        <4>1. "alone" \in DOMAIN b
          BY <3>3 DEF RunJob
        <4>2. benchJob'[d] = [b EXCEPT !.alone = FALSE]
          BY <1>4, <2>2, <3>1, <3>2, <4>1
        <4>3. [b EXCEPT !.alone = FALSE] \in RunJob /\ ~[b EXCEPT !.alone = FALSE].alone
          BY <3>3 DEF RunJob
        <4> QED
          BY <4>2, <4>3
      <3>4. CASE ImportJob(b)
        <4>1. "alone" \notin DOMAIN b
          <5> DEFINE records == b.records
                     i == b.i
          <5>1. b = [at |-> "write", records |-> records, i |-> i]
            BY <3>4 DEF ImportJob
          <5> HIDE DEF records, i
          <5> QED
            BY <5>1
        <4>2. benchJob'[d] = b
          BY <1>4, <2>2, <3>1, <4>1
        <4>3. b \notin RunJob
          BY <4>1 DEF RunJob
        <4> QED
          BY <3>4, <4>2, <4>3
      <3> QED
        BY <3>2, <3>3, <3>4
    <2> QED
      BY <2>1, <2>2
  <1> QED
    BY <1>4, <1>7 DEF RunsInv

\* An import begins when nothing else runs.
LEMMA ImportBegins ==
    ASSUME RunsInv, NEW c \in Runner, ImportBegin(c)
    PROVE  RunsInv'
  <1> DEFINE k == [at |-> "write", records |-> bundle.records, i |-> 1]
  <1>1. /\ \A d \in Runner : benchJob[d] = NoBench
        /\ benchJob' = [benchJob EXCEPT ![c] = k]
    BY DEF ImportBegin, Free, To
  <1>2. ImportJob(k) /\ k \notin RunJob
    BY DEF ImportJob, RunJob
  <1> HIDE DEF k
  <1>3. /\ benchJob' = [d \in Runner |-> benchJob'[d]]
        /\ benchJob'[c] = k
        /\ \A d \in Runner \ {c} : benchJob'[d] = NoBench
    BY <1>1 DEF RunsInv
  <1> QED
    BY <1>2, <1>3 DEF RunsInv

\* An import goes on, or ends.
LEMMA ImportGoesOn ==
    ASSUME RunsInv, NEW c \in Runner, ImportWrite(c)
    PROVE  RunsInv'
  <1>0. PICK b : b = benchJob[c]
    OBVIOUS
  <1> DEFINE k == [b EXCEPT !.i = @ + 1]
  <1>1. /\ b # NoBench /\ b.at = "write" /\ ~Free(c)
        /\ To(c, NoBench) \/ To(c, k)
    BY <1>0 DEF ImportWrite, Doing, Free
  <1>2. ImportJob(b)
    <2>1. b \in RunJob \/ ImportJob(b)
      BY <1>0, <1>1 DEF RunsInv
    <2>2. b \notin RunJob
      BY <1>1 DEF RunJob
    <2> QED
      BY <2>1, <2>2
  <1>3. ImportJob(k) /\ k \notin RunJob
    <2> DEFINE records == b.records
               i == b.i
    <2>1. b = [at |-> "write", records |-> records, i |-> i]
      BY <1>2 DEF ImportJob
    <2> HIDE DEF records, i
    <2>2. k = [at |-> "write", records |-> records, i |-> i + 1]
      BY <2>1
    <2> HIDE DEF k
    <2> QED
      BY <2>2 DEF ImportJob, RunJob
  <1> HIDE DEF k
  <1>4. CASE To(c, NoBench)
    BY <1>1, <1>4, StepKeeps
  <1>5. CASE To(c, k)
    BY <1>1, <1>3, <1>5, StepKeeps
  <1> QED
    BY <1>1, <1>4, <1>5

\* Commands that change neither the jobs nor the work file.
LEMMA OthersKeepRuns ==
    ASSUME RunsInv, UNCHANGED <<output, benchJob>>
    PROVE  RunsInv'
  BY DEF RunsInv, OwnSoFar, Free

\* In every history a run that no other overlapped has, for each answer it has
\* judged, the judgement of the answer its own model gave, and the answer it
\* is about to judge is the one in the work file (BenchmarkRunner.run,
\* _evaluate).
THEOREM RunInvariant == BenchSpec => []RunsInv
  <1>1. BenchInit => RunsInv
    BY DEF BenchInit, RunsInv
  <1>2. RunsInv /\ [RunsNext \/ RecordsNext]_benchVars => RunsInv'
    <2> SUFFICES ASSUME RunsInv, [RunsNext \/ RecordsNext]_benchVars
                 PROVE  RunsInv'
      OBVIOUS
    <2>1. ASSUME NEW c \in Runner, RunBegin(c)
          PROVE  RunsInv'
      BY <2>1, RunBegins
    <2>2. ASSUME NEW c \in Runner,
                 RunTask(c) \/ HandOver(c) \/ Evaluate(c) \/ SaveRun(c) \/ BenchEnds(c)
          PROVE  RunsInv'
      BY <2>2, RunsGoOn
    <2>3. ASSUME NEW c \in Runner, ImportBegin(c) \/ ImportWrite(c)
          PROVE  RunsInv'
      BY <2>3, ImportBegins, ImportGoesOn
    <2>4. ASSUME ImportRecord \/ ExportBundle \/ EditBundle \/ EditFile \/ SecondPasses
          PROVE  RunsInv'
      BY <2>4, OthersKeepRuns
         DEF ImportRecord, ExportBundle, EditBundle, EditFile, SecondPasses
    <2>5. CASE UNCHANGED benchVars
      BY <2>5, OthersKeepRuns DEF benchVars
    <2> QED
      BY <2>1, <2>2, <2>3, <2>4, <2>5 DEF RunsNext, RecordsNext
  <1> QED
    BY <1>1, <1>2, PTL DEF BenchSpec

\* A run that no other overlapped saves judgements of its own model's answers,
\* never of what an earlier run left in the work file.
THEOREM OwnAnswersAreJudged == BenchSpec => []OwnAnswersJudged
  <1>1. RunsInv => OwnAnswersJudged
    <2> SUFFICES ASSUME RunsInv, NEW c \in Runner, Doing(c, "save"), benchJob[c].alone
                 PROVE  \A i \in DOMAIN benchJob[c].runs :
                           benchJob[c].runs[i].passed = (benchJob[c].said[i] = "right")
      BY DEF OwnAnswersJudged
    <2>1. PICK b : b = benchJob[c]
      OBVIOUS
    <2>2. b # NoBench /\ b.at = "save" /\ b.alone
      BY <2>1 DEF Doing
    <2>3. b \in RunJob
      BY <2>1, <2>2, ImportsWrite DEF RunsInv
    <2>4. OwnSoFar(b)
      BY <2>1, <2>2, <2>3 DEF RunsInv
    <2>5. DOMAIN b.runs = 1 .. Len(b.runs)
      BY <2>3, RunJobShape, LenProperties
    <2> QED
      BY <2>1, <2>4, <2>5 DEF OwnSoFar
  <1> QED
    BY <1>1, RunInvariant, PTL

-----------------------------------------------------------------------------
(* Bundles of records.                                                     *)

\* A sequence of records that were exported.
AllExported(s) == \A i \in DOMAIN s : s[i] \in exported

Numbered(s) == Len(s) \in Nat /\ DOMAIN s = 1 .. Len(s)

\* What an import is about to write: the records the checksums stand for.
ToWrite(j) ==
    /\ Numbered(j.records)
    /\ j.i \in Nat \ {0}
    /\ \A i \in DOMAIN j.records :
          Canonical(j.records[i]) \in exported /\ Controlled(j.records[i])

\* The checksums of a bundle stay those of the export, whatever is done to its
\* records; what an import holds, and what it left in files, is what they name.
RecordsInv ==
    /\ files = [n \in DOMAIN files |-> files[n]]
    /\ IsFiniteSet(DOMAIN files)
    /\ ImportedWasExported
    /\ bundle # NoBench =>
          /\ bundle = [records |-> bundle.records, checksums |-> bundle.checksums]
          /\ Numbered(bundle.checksums)
          /\ AllExported(bundle.checksums)
    /\ \A c \in Runner : Doing(c, "write") => ToWrite(benchJob[c])

\* The elements of a finite set can be put in a sequence.
LEMMA SequenceOfSet ==
    ASSUME NEW S, IsFiniteSet(S)
    PROVE  /\ Numbered(SetToSeq(S))
           /\ \A i \in DOMAIN SetToSeq(S) : SetToSeq(S)[i] \in S
  <1> DEFINE n == Cardinality(S)
             s == SetToSeq(S)
  <1>1. n \in Nat /\ ExistsBijection(1 .. n, S)
    BY FS_CardinalityType
  <1>2. \E f \in [1 .. n -> S] : IsInjective(f)
    BY <1>1 DEF ExistsBijection, Bijection, Injection, IsInjective
  <1>3. s \in [1 .. n -> S]
    BY <1>2 DEF SetToSeq
  <1> HIDE DEF s
  <1>4. Len(s) = n /\ DOMAIN s = 1 .. n
    BY <1>1, <1>3
  <1> QED
    BY <1>1, <1>3, <1>4 DEF Numbered, s

\* What an export puts into a bundle.
LEMMA ExportIsExported ==
    ASSUME RecordsInv, ExportBundle
    PROVE  /\ bundle' = [records |-> bundle'.records, checksums |-> bundle'.checksums]
           /\ Numbered(bundle'.checksums)
           /\ \A i \in DOMAIN bundle'.checksums : bundle'.checksums[i] \in exported'
           /\ exported \subseteq exported'
  <1> DEFINE S == {n \in Evidence : Controlled(files[n])}
             names == SetToSeq(S)
             rs == [i \in DOMAIN names |-> Canonical(files[names[i]])]
  <1>1. bundle' = [records |-> rs, checksums |-> rs] /\ exported' = exported \cup Range(rs)
    BY DEF ExportBundle
  <1>2. IsFiniteSet(S)
    <2>1. S \subseteq DOMAIN files
      BY DEF Evidence
    <2> QED
      BY <2>1, FS_Subset DEF RecordsInv
  <1>3. Len(names) \in Nat /\ DOMAIN names = 1 .. Len(names)
    BY <1>2, SequenceOfSet DEF Numbered
  <1> HIDE DEF names
  <1>4. Numbered(rs)
    BY <1>3 DEF Numbered
  <1>5. \A i \in DOMAIN rs : rs[i] \in Range(rs)
    BY DEF Range
  <1> HIDE DEF rs
  <1>6. bundle'.checksums = rs
    BY <1>1
  <1> QED
    BY <1>1, <1>4, <1>5, <1>6

\* A record that was checked is in the bundle as its checksum says.
LEMMA AcceptedIsExported ==
    ASSUME RecordsInv, bundle # NoBench, Accepts(bundle)
    PROVE  /\ Numbered(bundle.records)
           /\ \A i \in DOMAIN bundle.records :
                 Canonical(bundle.records[i]) \in exported /\ Controlled(bundle.records[i])
  <1> DEFINE rs == bundle.records
             cs == bundle.checksums
             canonical == [i \in DOMAIN rs |-> Canonical(rs[i])]
  <1>1. /\ Len(rs) = Len(cs)
        /\ \A i \in DOMAIN rs : Controlled(rs[i])
        /\ canonical = cs
    BY DEF Accepts
  <1>2. /\ Len(cs) \in Nat /\ DOMAIN cs = 1 .. Len(cs)
        /\ \A i \in DOMAIN cs : cs[i] \in exported
    BY DEF RecordsInv, Numbered, AllExported
  <1>3. DOMAIN canonical = DOMAIN rs /\ \A i \in DOMAIN rs : canonical[i] = Canonical(rs[i])
    OBVIOUS
  <1> HIDE DEF rs, cs, canonical
  <1>4. DOMAIN rs = DOMAIN cs
    BY <1>1, <1>3
  <1>5. \A i \in DOMAIN rs : Canonical(rs[i]) \in exported
    BY <1>1, <1>2, <1>3, <1>4
  <1> QED
    BY <1>1, <1>2, <1>4, <1>5 DEF rs, Numbered

\* A record of a measurement put under a name, beside the others.
LEMMA WithOneMore ==
    ASSUME RecordsInv, NEW n, NEW r, files' = With(n, r), exported' = exported,
           n[1] = "calibration" => r \in exported /\ Controlled(r)
    PROVE  /\ files' = [k \in DOMAIN files' |-> files'[k]]
           /\ IsFiniteSet(DOMAIN files')
           /\ ImportedWasExported'
  <1>1. /\ DOMAIN files' = DOMAIN files \cup {n}
        /\ files'[n] = r
        /\ \A k \in DOMAIN files \ {n} : files'[k] = files[k]
        /\ files' = [k \in DOMAIN files' |-> files'[k]]
    BY DEF With
  <1>2. IsFiniteSet(DOMAIN files \cup {n})
    BY FS_AddElement DEF RecordsInv
  <1>3. \A k \in DOMAIN files \ {n} :
            k[1] = "calibration" => files[k] \in exported /\ Controlled(files[k])
    BY DEF RecordsInv, ImportedWasExported
  <1>4. \A k \in DOMAIN files' :
            k[1] = "calibration" => files'[k] \in exported' /\ Controlled(files'[k])
    BY <1>1, <1>3
  <1> QED
    BY <1>1, <1>2, <1>4 DEF ImportedWasExported, Controlled

\* The imports that go on hold what they held.
LEMMA ImportsStay ==
    ASSUME RecordsInv, exported \subseteq exported',
           \A c \in Runner : Doing(c, "write")' =>
              \/ Doing(c, "write") /\ benchJob'[c] = benchJob[c]
              \/ ToWrite(benchJob[c])'
    PROVE  \A c \in Runner : Doing(c, "write")' => ToWrite(benchJob[c])'
  <1>1. SUFFICES ASSUME NEW c \in Runner, Doing(c, "write"), benchJob'[c] = benchJob[c]
                 PROVE  ToWrite(benchJob[c])'
    OBVIOUS
  <1>2. ToWrite(benchJob[c])
    BY <1>1 DEF RecordsInv
  <1> QED
    BY <1>1, <1>2 DEF ToWrite, Controlled

\* A bundle on its way stays what it was.
LEMMA BundleStays ==
    ASSUME RecordsInv, UNCHANGED bundle, exported \subseteq exported'
    PROVE  bundle' # NoBench =>
              /\ bundle' = [records |-> bundle'.records, checksums |-> bundle'.checksums]
              /\ Numbered(bundle'.checksums)
              /\ AllExported(bundle.checksums)'
  BY DEF RecordsInv, AllExported

\* The canonical record of a controlled one is controlled.
LEMMA CanonicalControlled ==
    ASSUME NEW r
    PROVE  Controlled(Canonical(r)) = Controlled(r)
  BY DEF Canonical, Controlled

\* The files stay what they were, whatever more is exported.
LEMMA FilesStay ==
    ASSUME RecordsInv, UNCHANGED files, exported \subseteq exported'
    PROVE  /\ files' = [k \in DOMAIN files' |-> files'[k]]
           /\ IsFiniteSet(DOMAIN files')
           /\ ImportedWasExported'
  <1>1. \A n \in DOMAIN files :
            n[1] = "calibration" => files[n] \in exported /\ Controlled(files[n])
    BY DEF RecordsInv, ImportedWasExported
  <1>2. \A n \in DOMAIN files :
            n[1] = "calibration" => files[n] \in exported' /\ Controlled(files[n])
    BY <1>1
  <1> QED
    BY <1>2 DEF RecordsInv, ImportedWasExported, Controlled

\* A command that goes on with something else than an import.
LEMMA OtherCommands ==
    ASSUME RecordsInv, RunsInv, NEW c \in Runner,
           NEW j \in RunJob \cup {NoBench}, To(c, j)
    PROVE  \A d \in Runner : Doing(d, "write")' =>
              Doing(d, "write") /\ benchJob'[d] = benchJob[d]
  <1>1. /\ benchJob'[c] = j
        /\ \A d \in Runner \ {c} : benchJob'[d] = benchJob[d]
    BY DEF RunsInv, To
  <1>2. j # NoBench => j.at # "write"
    BY DEF RunJob
  <1> QED
    BY <1>1, <1>2 DEF Doing

\* A record is saved under the name of a run.
LEMMA RunsKeepRecords ==
    ASSUME RecordsInv, RunsInv, NEW c \in Runner,
           RunTask(c) \/ HandOver(c) \/ Evaluate(c) \/ SaveRun(c) \/ BenchEnds(c)
    PROVE  RecordsInv'
  <1>1. UNCHANGED <<bundle, exported>>
    BY DEF RunTask, HandOver, Evaluate, SaveRun, BenchEnds
  <1>2. PICK j \in RunJob \cup {NoBench} : To(c, j)
    BY RunsGoOn
  <1>3. \A d \in Runner : Doing(d, "write")' => ToWrite(benchJob[d])'
    BY <1>1, <1>2, OtherCommands, ImportsStay
  <1>4. /\ files' = [k \in DOMAIN files' |-> files'[k]]
        /\ IsFiniteSet(DOMAIN files')
        /\ ImportedWasExported'
    <2>1. CASE UNCHANGED files
      BY <1>1, <2>1, FilesStay
    <2>2. CASE SaveRun(c)
      <3>1. PICK n : n = <<"run", second, benchJob[c].who>>
        OBVIOUS
      <3>2. files' = With(n, RecordOf(c)) /\ n[1] # "calibration"
        BY <2>2, <3>1 DEF SaveRun
      <3> QED
        BY <1>1, <3>2, WithOneMore
    <2> QED
      BY <2>1, <2>2 DEF RunTask, HandOver, Evaluate, SaveRun, BenchEnds
  <1>5. bundle' # NoBench =>
              /\ bundle' = [records |-> bundle'.records, checksums |-> bundle'.checksums]
              /\ Numbered(bundle'.checksums)
              /\ AllExported(bundle.checksums)'
    BY <1>1, BundleStays
  <1> QED
    BY <1>3, <1>4, <1>5 DEF RecordsInv

\* A run that begins makes others not alone, and changes no import.
LEMMA BeginKeepsImports ==
    ASSUME RunsInv, NEW c \in Runner, RunBegin(c)
    PROVE  \A d \in Runner : Doing(d, "write")' =>
              Doing(d, "write") /\ benchJob'[d] = benchJob[d]
  <1>1. SUFFICES ASSUME NEW d \in Runner, Doing(d, "write")'
                 PROVE  Doing(d, "write") /\ benchJob'[d] = benchJob[d]
    OBVIOUS
  <1>2. CASE d = c
    <2>1. benchJob'[c].at = "ask"
      BY DEF RunBegin
    <2> QED
      BY <1>1, <1>2, <2>1 DEF Doing
  <1>3. CASE d # c
    <2>1. PICK b : b = benchJob[d]
      OBVIOUS
    <2>2. benchJob'[d] = IF b # NoBench /\ "alone" \in DOMAIN b
                         THEN [b EXCEPT !.alone = FALSE] ELSE b
      BY <1>3, <2>1 DEF RunBegin
    <2>3. ASSUME b # NoBench, "alone" \in DOMAIN b
          PROVE  FALSE
      <3>1. b \in RunJob \/ ImportJob(b)
        BY <2>1, <2>3 DEF RunsInv
      <3>2. ~ImportJob(b)
        <4> DEFINE records == b.records
                   i == b.i
        <4>1. SUFFICES ASSUME b = [at |-> "write", records |-> records, i |-> i]
                       PROVE  FALSE
          BY DEF ImportJob
        <4> HIDE DEF records, i
        <4> QED
          BY <2>3, <4>1
      <3>3. b.at # "write" /\ [b EXCEPT !.alone = FALSE].at = b.at
        BY <3>1, <3>2 DEF RunJob
      <3> QED
        BY <1>1, <2>2, <2>3, <3>3 DEF Doing
    <2>4. benchJob'[d] = b
      BY <2>2, <2>3
    <2> QED
      BY <1>1, <2>1, <2>4 DEF Doing
  <1> QED
    BY <1>2, <1>3

\* It changes no record.
LEMMA BeginKeepsRecords ==
    ASSUME RecordsInv, RunsInv, NEW c \in Runner, RunBegin(c)
    PROVE  RecordsInv'
  <1>1. UNCHANGED <<files, bundle, exported>>
    BY DEF RunBegin
  <1>2. \A d \in Runner : Doing(d, "write")' =>
            Doing(d, "write") /\ benchJob'[d] = benchJob[d]
    BY BeginKeepsImports
  <1>3. \A d \in Runner : Doing(d, "write")' => ToWrite(benchJob[d])'
    BY <1>1, <1>2, ImportsStay
  <1>4. /\ files' = [k \in DOMAIN files' |-> files'[k]]
        /\ IsFiniteSet(DOMAIN files')
        /\ ImportedWasExported'
    BY <1>1, FilesStay
  <1>5. bundle' # NoBench =>
              /\ bundle' = [records |-> bundle'.records, checksums |-> bundle'.checksums]
              /\ Numbered(bundle'.checksums)
              /\ AllExported(bundle.checksums)'
    BY <1>1, BundleStays
  <1> QED
    BY <1>3, <1>4, <1>5 DEF RecordsInv

\* An import begins with records that were checked.
LEMMA ImportBeginsChecked ==
    ASSUME RecordsInv, RunsInv, NEW c \in Runner, ImportBegin(c)
    PROVE  RecordsInv'
  <1>0. PICK k : k = [at |-> "write", records |-> bundle.records, i |-> 1]
    OBVIOUS
  <1>1. /\ UNCHANGED <<files, bundle, exported>>
        /\ bundle # NoBench /\ Accepts(bundle)
        /\ \A d \in Runner : benchJob[d] = NoBench
        /\ benchJob' = [benchJob EXCEPT ![c] = k]
    BY <1>0 DEF ImportBegin, Free, To
  <1>2. /\ Numbered(bundle.records)
        /\ \A i \in DOMAIN bundle.records :
              Canonical(bundle.records[i]) \in exported /\ Controlled(bundle.records[i])
    BY <1>1, AcceptedIsExported
  <1>3. ToWrite(k)'
    BY <1>0, <1>1, <1>2 DEF ToWrite, Controlled
  <1>4. benchJob'[c] = k /\ \A d \in Runner \ {c} : benchJob'[d] = NoBench
    BY <1>1 DEF RunsInv
  <1>5. \A d \in Runner : Doing(d, "write")' => ToWrite(benchJob[d])'
    BY <1>3, <1>4 DEF Doing, ToWrite
  <1>6. /\ files' = [n \in DOMAIN files' |-> files'[n]]
        /\ IsFiniteSet(DOMAIN files')
        /\ ImportedWasExported'
    BY <1>1, FilesStay
  <1>7. bundle' # NoBench =>
              /\ bundle' = [records |-> bundle'.records, checksums |-> bundle'.checksums]
              /\ Numbered(bundle'.checksums)
              /\ AllExported(bundle.checksums)'
    BY <1>1, BundleStays
  <1> QED
    BY <1>5, <1>6, <1>7 DEF RecordsInv

\* The next record of an import.
LEMMA NextRecord ==
    ASSUME RunsInv, NEW c \in Runner, Doing(c, "write"), NEW k,
           k = [benchJob[c] EXCEPT !.i = @ + 1]
    PROVE  k.records = benchJob[c].records /\ k.i = benchJob[c].i + 1
  <1>1. PICK b : b = benchJob[c]
    OBVIOUS
  <1>2. b # NoBench /\ b.at = "write" /\ (b \in RunJob \/ ImportJob(b))
    BY <1>1 DEF RunsInv, Doing
  <1>3. ImportJob(b)
    BY <1>2 DEF RunJob
  <1> DEFINE records == b.records
             i == b.i
  <1>4. b = [at |-> "write", records |-> records, i |-> i]
    BY <1>3 DEF ImportJob
  <1> HIDE DEF records, i
  <1>5. k = [at |-> "write", records |-> records, i |-> i + 1]
    BY <1>1, <1>4
  <1> QED
    BY <1>1, <1>4, <1>5

\* An import writes one record after the other.
LEMMA ImportWritesChecked ==
    ASSUME RecordsInv, RunsInv, NEW c \in Runner, ImportWrite(c)
    PROVE  RecordsInv'
  <1>0. PICK b : b = benchJob[c]
    OBVIOUS
  <1> DEFINE n == <<"calibration", b.i, b.records[b.i].model>>
             k == [b EXCEPT !.i = @ + 1]
  <1>1. UNCHANGED <<bundle, exported>> /\ Doing(c, "write")
    BY DEF ImportWrite
  <1>2. b # NoBench /\ ToWrite(b)
    BY <1>0, <1>1 DEF RecordsInv, Doing
  <1>3. bundle' # NoBench =>
              /\ bundle' = [records |-> bundle'.records, checksums |-> bundle'.checksums]
              /\ Numbered(bundle'.checksums)
              /\ AllExported(bundle.checksums)'
    BY <1>1, BundleStays
  <1>4. CASE b.i > Len(b.records)
    <2>1. To(c, NoBench) /\ UNCHANGED files
      BY <1>0, <1>4 DEF ImportWrite
    <2>2. \A d \in Runner : Doing(d, "write")' => ToWrite(benchJob[d])'
      BY <1>1, <2>1, OtherCommands, ImportsStay
    <2>3. /\ files' = [m \in DOMAIN files' |-> files'[m]]
          /\ IsFiniteSet(DOMAIN files')
          /\ ImportedWasExported'
      BY <1>1, <2>1, FilesStay
    <2> QED
      BY <1>3, <2>2, <2>3 DEF RecordsInv
  <1>5. CASE ~(b.i > Len(b.records))
    <2>1. files' = With(n, Canonical(b.records[b.i])) /\ To(c, k)
      BY <1>0, <1>5 DEF ImportWrite
    <2>2. b.i \in DOMAIN b.records
      BY <1>2, <1>5 DEF ToWrite, Numbered
    <2>3. Canonical(b.records[b.i]) \in exported /\ Controlled(Canonical(b.records[b.i]))
      BY <1>2, <2>2, CanonicalControlled DEF ToWrite
    <2> HIDE DEF n
    <2>4. PICK m, r : m = n /\ r = Canonical(b.records[b.i])
      OBVIOUS
    <2>5. /\ files' = [x \in DOMAIN files' |-> files'[x]]
          /\ IsFiniteSet(DOMAIN files')
          /\ ImportedWasExported'
      BY <1>1, <2>1, <2>3, <2>4, WithOneMore
    <2>6. k.records = b.records /\ k.i = b.i + 1
      BY <1>0, <1>1, NextRecord
    <2> HIDE DEF k
    <2>7. ToWrite(k)'
      BY <1>1, <1>2, <2>6 DEF ToWrite, Controlled
    <2>8. benchJob'[c] = k /\ \A d \in Runner \ {c} : benchJob'[d] = benchJob[d]
      BY <2>1 DEF To, RunsInv
    <2>9. \A d \in Runner : Doing(d, "write")' => ToWrite(benchJob[d])'
      <3>1. ASSUME NEW d \in Runner, Doing(d, "write")', d # c
            PROVE  Doing(d, "write") /\ benchJob'[d] = benchJob[d]
        BY <2>8, <3>1 DEF Doing
      <3>2. ToWrite(benchJob[c])'
        BY <2>7, <2>8 DEF ToWrite
      <3> QED
        BY <1>1, <3>1, <3>2, ImportsStay
    <2> QED
      BY <1>3, <2>5, <2>9 DEF RecordsInv
  <1> QED
    BY <1>4, <1>5

\* Commands and users that touch no import that goes on.
LEMMA JobsStay ==
    ASSUME RecordsInv, UNCHANGED benchJob, exported \subseteq exported'
    PROVE  \A c \in Runner : Doing(c, "write")' => ToWrite(benchJob[c])'
  BY ImportsStay DEF Doing

\* A measurement record from a user is put under the name of an import.
LEMMA ImportKeepsRecords ==
    ASSUME RecordsInv, ImportRecord
    PROVE  RecordsInv'
  <1>1. UNCHANGED <<bundle, exported, benchJob>>
    BY DEF ImportRecord
  <1>2. PICK r \in Brought :
          files' = With(<<"imported", Cardinality(DOMAIN files), r.model>>, Canonical(r))
    BY DEF ImportRecord
  <1>3. PICK n, s : /\ n = <<"imported", Cardinality(DOMAIN files), r.model>>
                    /\ s = Canonical(r)
    OBVIOUS
  <1>4. n[1] # "calibration" /\ files' = With(n, s)
    BY <1>2, <1>3
  <1>5. /\ files' = [k \in DOMAIN files' |-> files'[k]]
        /\ IsFiniteSet(DOMAIN files')
        /\ ImportedWasExported'
    BY <1>1, <1>4, WithOneMore
  <1>6. \A c \in Runner : Doing(c, "write")' => ToWrite(benchJob[c])'
    BY <1>1, JobsStay
  <1>7. bundle' # NoBench =>
              /\ bundle' = [records |-> bundle'.records, checksums |-> bundle'.checksums]
              /\ Numbered(bundle'.checksums)
              /\ AllExported(bundle.checksums)'
    BY <1>1, BundleStays
  <1> QED
    BY <1>5, <1>6, <1>7 DEF RecordsInv

\* An export makes the checksums of what it exports.
LEMMA ExportKeepsRecords ==
    ASSUME RecordsInv, ExportBundle
    PROVE  RecordsInv'
  <1>1. UNCHANGED <<files, benchJob>>
    BY DEF ExportBundle
  <1>2. /\ bundle' = [records |-> bundle'.records, checksums |-> bundle'.checksums]
        /\ Numbered(bundle'.checksums)
        /\ AllExported(bundle.checksums)'
        /\ exported \subseteq exported'
    BY ExportIsExported DEF AllExported
  <1>3. /\ files' = [k \in DOMAIN files' |-> files'[k]]
        /\ IsFiniteSet(DOMAIN files')
        /\ ImportedWasExported'
    BY <1>1, <1>2, FilesStay
  <1>4. \A c \in Runner : Doing(c, "write")' => ToWrite(benchJob[c])'
    BY <1>1, <1>2, JobsStay
  <1> QED
    BY <1>2, <1>3, <1>4 DEF RecordsInv

\* An edit of the records of a bundle leaves its checksums.
LEMMA EditKeepsRecords ==
    ASSUME RecordsInv, EditBundle
    PROVE  RecordsInv'
  <1>1. /\ UNCHANGED <<files, exported, benchJob>>
        /\ bundle # NoBench
    BY DEF EditBundle
  <1>2. PICK rs : bundle' = [bundle EXCEPT !.records = rs]
    <2>1. PICK i \in DOMAIN bundle.records :
             \/ \E r \in Brought : bundle' = [bundle EXCEPT !.records[i] = r]
             \/ bundle' = [bundle EXCEPT !.records = RemoveAt(@, i)]
      BY DEF EditBundle
    <2>2. CASE \E r \in Brought : bundle' = [bundle EXCEPT !.records[i] = r]
      <3>1. PICK r \in Brought : bundle' = [bundle EXCEPT !.records[i] = r]
        BY <2>2
      <3>2. bundle' = [bundle EXCEPT !.records = [bundle.records EXCEPT ![i] = r]]
        BY <3>1
      <3> QED
        BY <3>2
    <2>3. CASE bundle' = [bundle EXCEPT !.records = RemoveAt(@, i)]
      <3>1. bundle' = [bundle EXCEPT !.records = RemoveAt(bundle.records, i)]
        BY <2>3
      <3> QED
        BY <3>1
    <2> QED
      BY <2>1, <2>2, <2>3
  <1>3. PICK old, cs : bundle = [records |-> old, checksums |-> cs]
    BY <1>1 DEF RecordsInv
  <1>4. bundle' = [records |-> rs, checksums |-> cs]
    BY <1>2, <1>3
  <1>5. Numbered(cs) /\ AllExported(cs)
    BY <1>1, <1>3 DEF RecordsInv
  <1>6. bundle'.records = rs /\ bundle'.checksums = cs
    BY <1>4
  <1>7. /\ bundle' = [records |-> bundle'.records, checksums |-> bundle'.checksums]
        /\ Numbered(bundle'.checksums)
        /\ AllExported(bundle.checksums)'
    BY <1>1, <1>4, <1>5, <1>6 DEF AllExported
  <1>8. /\ files' = [k \in DOMAIN files' |-> files'[k]]
        /\ IsFiniteSet(DOMAIN files')
        /\ ImportedWasExported'
    BY <1>1, FilesStay
  <1>9. \A c \in Runner : Doing(c, "write")' => ToWrite(benchJob[c])'
    BY <1>1, JobsStay
  <1> QED
    BY <1>7, <1>8, <1>9 DEF RecordsInv

\* An edit of a measurement record is none of a calibration's.
LEMMA EditFileKeepsRecords ==
    ASSUME RecordsInv, EditFile
    PROVE  RecordsInv'
  <1>1. UNCHANGED <<bundle, exported, benchJob>>
    BY DEF EditFile
  <1>2. PICK n \in DOMAIN files : \E r \in Brought :
            n[1] = "imported" /\ files' = [files EXCEPT ![n] = r]
    BY DEF EditFile
  <1>3. PICK r \in Brought : n[1] = "imported" /\ files' = [files EXCEPT ![n] = r]
    BY <1>2
  <1>4. DOMAIN files' = DOMAIN files /\ \A k \in DOMAIN files \ {n} : files'[k] = files[k]
    BY <1>3
  <1>5. files' = [k \in DOMAIN files' |-> files'[k]]
    BY <1>3
  <1>6. ImportedWasExported'
    <2>1. \A k \in DOMAIN files : k[1] = "calibration" =>
              files'[k] \in exported /\ Controlled(files'[k])
      BY <1>3, <1>4 DEF RecordsInv, ImportedWasExported
    <2> QED
      BY <1>1, <1>4, <2>1 DEF ImportedWasExported, Controlled
  <1>7. IsFiniteSet(DOMAIN files')
    BY <1>4 DEF RecordsInv
  <1>8. \A c \in Runner : Doing(c, "write")' => ToWrite(benchJob[c])'
    BY <1>1, JobsStay
  <1>9. bundle' # NoBench =>
              /\ bundle' = [records |-> bundle'.records, checksums |-> bundle'.checksums]
              /\ Numbered(bundle'.checksums)
              /\ AllExported(bundle.checksums)'
    BY <1>1, BundleStays
  <1> QED
    BY <1>5, <1>6, <1>7, <1>8, <1>9 DEF RecordsInv

\* Nothing changes but the time or the work file.
LEMMA NothingRecorded ==
    ASSUME RecordsInv, UNCHANGED <<files, bundle, exported, benchJob>>
    PROVE  RecordsInv'
  <1>1. /\ files' = [k \in DOMAIN files' |-> files'[k]]
        /\ IsFiniteSet(DOMAIN files')
        /\ ImportedWasExported'
    BY FilesStay
  <1>2. \A c \in Runner : Doing(c, "write")' => ToWrite(benchJob[c])'
    BY JobsStay
  <1>3. bundle' # NoBench =>
              /\ bundle' = [records |-> bundle'.records, checksums |-> bundle'.checksums]
              /\ Numbered(bundle'.checksums)
              /\ AllExported(bundle.checksums)'
    BY BundleStays
  <1> QED
    BY <1>1, <1>2, <1>3 DEF RecordsInv

\* In every history the checksums of a bundle name records an export put there,
\* whatever was done to the records beside them, and an import writes only
\* records whose canonical form is under a checksum (benchmark_evidence.py).
THEOREM RecordsInvariant == BenchSpec => []RecordsInv
  <1>1. BenchInit => RecordsInv
    <2> SUFFICES ASSUME BenchInit
                 PROVE  RecordsInv
      OBVIOUS
    <2>1. /\ files = <<>> /\ bundle = NoBench
          /\ \A c \in Runner : benchJob[c] = NoBench
      BY DEF BenchInit
    <2>2. DOMAIN files = {} /\ files = [n \in DOMAIN files |-> files[n]]
      BY <2>1
    <2>3. IsFiniteSet(DOMAIN files)
      BY <2>2, FS_EmptySet
    <2> QED
      BY <2>1, <2>2, <2>3 DEF RecordsInv, ImportedWasExported, Doing
  <1>2. /\ RecordsInv /\ RunsInv
        /\ [RunsNext \/ RecordsNext]_benchVars
        => RecordsInv'
    <2> SUFFICES ASSUME RecordsInv, RunsInv, [RunsNext \/ RecordsNext]_benchVars
                 PROVE  RecordsInv'
      OBVIOUS
    <2>1. ASSUME NEW c \in Runner, RunBegin(c)
          PROVE  RecordsInv'
      BY <2>1, BeginKeepsRecords
    <2>2. ASSUME NEW c \in Runner,
                 RunTask(c) \/ HandOver(c) \/ Evaluate(c) \/ SaveRun(c) \/ BenchEnds(c)
          PROVE  RecordsInv'
      BY <2>2, RunsKeepRecords
    <2>3. ASSUME NEW c \in Runner, ImportBegin(c) \/ ImportWrite(c)
          PROVE  RecordsInv'
      BY <2>3, ImportBeginsChecked, ImportWritesChecked
    <2>4. CASE ImportRecord \/ ExportBundle \/ EditBundle \/ EditFile
      BY <2>4, ImportKeepsRecords, ExportKeepsRecords, EditKeepsRecords,
         EditFileKeepsRecords
    <2>5. CASE SecondPasses
      BY <2>5, NothingRecorded DEF SecondPasses
    <2>6. CASE UNCHANGED benchVars
      BY <2>6, NothingRecorded DEF benchVars
    <2> QED
      BY <2>1, <2>2, <2>3, <2>4, <2>5, <2>6 DEF RunsNext, RecordsNext
  <1> QED
    BY <1>1, <1>2, RunInvariant, PTL DEF BenchSpec

\* Whatever is done to a bundle on its way, an import leaves only controlled
\* records that some export put there (calibration-import).
THEOREM ImportsWereExported == BenchSpec => []ImportedWasExported
  BY RecordsInvariant, PTL DEF RecordsInv

-----------------------------------------------------------------------------
(* Scores, wherever a record is.                                           *)

\* The runs of a record have scores.
Scored(r) ==
    /\ r.runs \in Seq(ToSet(r.runs))
    /\ \A run \in ToSet(r.runs) : run.quality \in Int

AllScored(s) == s \in Seq(ToSet(s)) /\ \A r \in ToSet(s) : Scored(r)

\* Every record has scores: on file, on its way, and about to be written.
ScoresInv ==
    /\ \A n \in DOMAIN files : Scored(files[n])
    /\ bundle # NoBench => AllScored(bundle.records)
    /\ \A c \in Runner : Doing(c, "write") => AllScored(benchJob[c].records)

\* A sequence is one of its own elements.
LEMMA SequenceOfItself ==
    ASSUME NEW X, NEW s \in Seq(X)
    PROVE  s \in Seq(ToSet(s)) /\ \A x \in ToSet(s) : x \in X
  <1>1. ToSet(s) = {s[i] : i \in 1 .. Len(s)}
    BY DEF ToSet
  <1> QED
    BY <1>1

\* A sequence of scored records.
LEMMA ScoredSequence ==
    ASSUME NEW X, \A x \in X : Scored(x), NEW s \in Seq(X)
    PROVE  AllScored(s)
  BY SequenceOfItself DEF AllScored

\* The result of a run has a score.
LEMMA RunsAreScored ==
    ASSUME NEW r, r.runs \in Seq(Run)
    PROVE  Scored(r)
  <1>1. \A run \in Run : run.quality \in Int
    BY DEF Run
  <1> QED
    BY <1>1, SequenceOfItself DEF Scored

\* What a user brings has scores.
LEMMA BroughtIsScored ==
    ASSUME NEW r \in Brought
    PROVE  Scored(r)
  BY BenchmarksAssumption DEF Scored

\* The canonical record has the runs of the record.
LEMMA CanonicalScored ==
    ASSUME NEW r, Scored(r)
    PROVE  Scored(Canonical(r))
  <1>1. Canonical(r).runs = r.runs
    BY DEF Canonical
  <1> QED
    BY <1>1 DEF Scored

\* One more scored record on file.
LEMMA OneMoreScored ==
    ASSUME \A n \in DOMAIN files : Scored(files[n]),
           NEW n, NEW r, Scored(r), files' = With(n, r)
    PROVE  \A k \in DOMAIN files' : Scored(files'[k])
  <1>1. /\ DOMAIN files' = DOMAIN files \cup {n}
        /\ files'[n] = r
        /\ \A k \in DOMAIN files \ {n} : files'[k] = files[k]
    BY DEF With
  <1> QED
    BY <1>1

\* The records on file stay scored.
LEMMA FilesStayScored ==
    ASSUME RunsInv, RecordsInv, ScoresInv, [RunsNext \/ RecordsNext]_benchVars
    PROVE  \A n \in DOMAIN files' : Scored(files'[n])
  <1>1. \A n \in DOMAIN files : Scored(files[n])
    BY DEF ScoresInv
  <1>2. CASE UNCHANGED files
    BY <1>1, <1>2
  <1>3. ASSUME NEW c \in Runner, SaveRun(c)
        PROVE  \A n \in DOMAIN files' : Scored(files'[n])
    <2>1. PICK n, r : n = <<"run", second, benchJob[c].who>> /\ r = RecordOf(c)
      OBVIOUS
    <2>2. files' = With(n, r) /\ Doing(c, "save")
      BY <1>3, <2>1 DEF SaveRun
    <2>3. benchJob[c] \in RunJob
      BY <2>2, ImportsWrite DEF RunsInv, Doing
    <2>4. r.runs = benchJob[c].runs
      BY <2>1 DEF RecordOf, Canonical
    <2>5. r.runs \in Seq(Run)
      BY <2>3, <2>4 DEF RunJob
    <2> QED
      BY <1>1, <2>2, <2>5, RunsAreScored, OneMoreScored
  <1>4. CASE ImportRecord
    <2>1. PICK s \in Brought :
              files' = With(<<"imported", Cardinality(DOMAIN files), s.model>>, Canonical(s))
      BY <1>4 DEF ImportRecord
    <2>2. PICK n, r : /\ n = <<"imported", Cardinality(DOMAIN files), s.model>>
                      /\ r = Canonical(s)
      OBVIOUS
    <2>3. files' = With(n, r) /\ Scored(r)
      BY <2>1, <2>2, BroughtIsScored, CanonicalScored
    <2> QED
      BY <1>1, <2>3, OneMoreScored
  <1>5. ASSUME NEW c \in Runner, ImportWrite(c)
        PROVE  \A n \in DOMAIN files' : Scored(files'[n])
    <2>1. PICK b : b = benchJob[c]
      OBVIOUS
    <2>2. Doing(c, "write") /\ AllScored(b.records) /\ ToWrite(b)
      BY <1>5, <2>1 DEF ImportWrite, ScoresInv, RecordsInv
    <2>3. CASE b.i > Len(b.records)
      BY <1>2, <1>5, <2>1, <2>3 DEF ImportWrite
    <2>4. CASE ~(b.i > Len(b.records))
      <3>1. PICK n, r : /\ n = <<"calibration", b.i, b.records[b.i].model>>
                        /\ r = Canonical(b.records[b.i])
        OBVIOUS
      <3>2. files' = With(n, r)
        BY <1>5, <2>1, <2>4, <3>1 DEF ImportWrite
      <3>3. b.i \in DOMAIN b.records
        BY <2>2, <2>4 DEF ToWrite, Numbered
      <3>4. b.records[b.i] \in ToSet(b.records)
        BY <3>3 DEF ToSet
      <3>5. Scored(r)
        BY <2>2, <3>1, <3>4, CanonicalScored DEF AllScored
      <3> QED
        BY <1>1, <3>2, <3>5, OneMoreScored
    <2> QED
      BY <2>3, <2>4
  <1>6. CASE EditFile
    <2>1. PICK n \in DOMAIN files, r \in Brought : files' = [files EXCEPT ![n] = r]
      BY <1>6 DEF EditFile
    <2>2. DOMAIN files' = DOMAIN files /\ files'[n] = r
          /\ \A k \in DOMAIN files \ {n} : files'[k] = files[k]
      BY <2>1
    <2> QED
      BY <1>1, <2>2, BroughtIsScored
  <1>7. ASSUME NEW c \in Runner,
               \/ RunBegin(c) \/ RunTask(c) \/ HandOver(c) \/ Evaluate(c)
               \/ BenchEnds(c) \/ ImportBegin(c)
        PROVE  UNCHANGED files
    BY <1>7 DEF RunBegin, RunTask, HandOver, Evaluate, BenchEnds, ImportBegin
  <1>8. ASSUME SecondPasses \/ ExportBundle \/ EditBundle \/ UNCHANGED benchVars
        PROVE  UNCHANGED files
    BY <1>8 DEF SecondPasses, ExportBundle, EditBundle, benchVars
  <1> QED
    BY <1>2, <1>3, <1>4, <1>5, <1>6, <1>7, <1>8 DEF RunsNext, RecordsNext

\* The records of a bundle stay scored: they come from files, and who edits them
\* brings others or takes one away.
LEMMA BundleStaysScored ==
    ASSUME RecordsInv, ScoresInv, [RunsNext \/ RecordsNext]_benchVars
    PROVE  bundle' # NoBench => AllScored(bundle'.records)
  <1>1. CASE UNCHANGED bundle
    BY <1>1 DEF ScoresInv
  <1>2. CASE ExportBundle
    <2> DEFINE S == {n \in Evidence : Controlled(files[n])}
               names == SetToSeq(S)
               rs == [i \in DOMAIN names |-> Canonical(files[names[i]])]
               held == {Canonical(files[n]) : n \in S}
    <2>1. bundle'.records = rs
      BY <1>2 DEF ExportBundle
    <2>2. S \subseteq DOMAIN files
      BY DEF Evidence
    <2>3. IsFiniteSet(S)
      BY <2>2, FS_Subset DEF RecordsInv
    <2>4. Numbered(names) /\ \A i \in DOMAIN names : names[i] \in S
      BY <2>3, SequenceOfSet
    <2> HIDE DEF names, S
    <2>5. rs \in [1 .. Len(names) -> held] /\ Len(names) \in Nat
      BY <2>4 DEF Numbered
    <2>6. \A r \in held : Scored(r)
      BY <2>2, CanonicalScored DEF ScoresInv
    <2> HIDE DEF rs, held
    <2>7. rs \in Seq(held)
      BY <2>5
    <2> QED
      BY <2>1, <2>6, <2>7, ScoredSequence
  <1>3. CASE EditBundle
    <2>1. PICK i \in DOMAIN bundle.records :
              \/ \E r \in Brought : bundle' = [bundle EXCEPT !.records[i] = r]
              \/ bundle' = [bundle EXCEPT !.records = RemoveAt(@, i)]
      BY <1>3 DEF EditBundle
    <2> DEFINE old == bundle.records
               held == ToSet(old) \cup Brought
    <2>2. AllScored(old) /\ bundle = [records |-> old, checksums |-> bundle.checksums]
      BY <1>3 DEF EditBundle, ScoresInv, RecordsInv
    <2>3. old \in Seq(held) /\ \A r \in held : Scored(r)
      BY <2>2, BroughtIsScored DEF AllScored
    <2>4. PICK prior, cs : prior = old /\ cs = bundle.checksums
      OBVIOUS
    <2>5. bundle = [records |-> prior, checksums |-> cs] /\ prior \in Seq(held)
          /\ i \in DOMAIN prior
      BY <2>2, <2>3, <2>4
    <2> HIDE DEF held, old
    <2>6. CASE \E r \in Brought : bundle' = [bundle EXCEPT !.records[i] = r]
      <3>1. PICK r \in Brought : bundle' = [bundle EXCEPT !.records[i] = r]
        BY <2>6
      <3>2. bundle'.records = [prior EXCEPT ![i] = r]
        BY <2>5, <3>1
      <3>3. r \in held
        BY DEF held
      <3>4. bundle'.records \in Seq(held)
        BY <2>5, <3>2, <3>3, ExceptSeq
      <3> QED
        BY <2>3, <3>4, ScoredSequence
    <2>7. CASE bundle' = [bundle EXCEPT !.records = RemoveAt(@, i)]
      <3>1. bundle'.records = RemoveAt(prior, i)
        BY <2>5, <2>7
      <3>2. i \in 1 .. Len(prior) /\ Len(prior) \in Nat
        BY <2>5
      <3>3. SubSeq(prior, 1, i - 1) \in Seq(held) /\ SubSeq(prior, i + 1, Len(prior)) \in Seq(held)
        BY <2>5, <3>2, SubSeqProperties
      <3>4. RemoveAt(prior, i) \in Seq(held)
        BY <3>3, ConcatProperties DEF RemoveAt
      <3> QED
        BY <2>3, <3>1, <3>4, ScoredSequence
    <2> QED
      BY <2>1, <2>6, <2>7
  <1>4. ASSUME NEW c \in Runner,
               \/ RunBegin(c) \/ RunTask(c) \/ HandOver(c) \/ Evaluate(c) \/ SaveRun(c)
               \/ BenchEnds(c) \/ ImportBegin(c) \/ ImportWrite(c)
        PROVE  UNCHANGED bundle
    BY <1>4 DEF RunBegin, RunTask, HandOver, Evaluate, SaveRun, BenchEnds, ImportBegin, ImportWrite
  <1>5. ASSUME SecondPasses \/ ImportRecord \/ EditFile \/ UNCHANGED benchVars
        PROVE  UNCHANGED bundle
    BY <1>5 DEF SecondPasses, ImportRecord, EditFile, benchVars
  <1> QED
    BY <1>1, <1>2, <1>3, <1>4, <1>5 DEF RunsNext, RecordsNext

\* What an import is about to write is what it began with, and that was a bundle.
LEMMA ImportsStayScored ==
    ASSUME RunsInv, RecordsInv, ScoresInv, [RunsNext \/ RecordsNext]_benchVars
    PROVE  \A c \in Runner : Doing(c, "write")' => AllScored(benchJob'[c].records)
  <1>1. SUFFICES ASSUME NEW c \in Runner, Doing(c, "write")'
                 PROVE  AllScored(benchJob'[c].records)
    OBVIOUS
  <1>2. Doing(c, "write") => AllScored(benchJob[c].records)
    BY DEF ScoresInv
  <1>3. CASE UNCHANGED benchJob
    BY <1>1, <1>2, <1>3 DEF Doing
  <1>4. ASSUME NEW d \in Runner, RunBegin(d)
        PROVE  AllScored(benchJob'[c].records)
    BY <1>1, <1>2, <1>4, BeginKeepsImports
  <1>5. ASSUME NEW d \in Runner,
               RunTask(d) \/ HandOver(d) \/ Evaluate(d) \/ SaveRun(d) \/ BenchEnds(d)
        PROVE  AllScored(benchJob'[c].records)
    <2>1. PICK j \in RunJob \cup {NoBench} : To(d, j)
      BY <1>5, RunsGoOn
    <2> QED
      BY <1>1, <1>2, <2>1, OtherCommands
  <1>6. ASSUME NEW d \in Runner, ImportBegin(d)
        PROVE  AllScored(benchJob'[c].records)
    <2>1. PICK k : k = [at |-> "write", records |-> bundle.records, i |-> 1]
      OBVIOUS
    <2>2. bundle # NoBench /\ benchJob' = [benchJob EXCEPT ![d] = k]
          /\ \A e \in Runner : benchJob[e] = NoBench
      BY <1>6, <2>1 DEF ImportBegin, To, Free
    <2>3. benchJob'[d] = k /\ \A e \in Runner \ {d} : benchJob'[e] = NoBench
      BY <2>2 DEF RunsInv
    <2>4. benchJob'[c] = k
      BY <1>1, <2>3 DEF Doing
    <2> QED
      BY <2>1, <2>2, <2>4 DEF ScoresInv
  <1>7. ASSUME NEW d \in Runner, ImportWrite(d)
        PROVE  AllScored(benchJob'[c].records)
    <2>1. PICK k : k = [benchJob[d] EXCEPT !.i = @ + 1]
      OBVIOUS
    <2>2. Doing(d, "write") /\ (To(d, NoBench) \/ To(d, k))
      BY <1>7, <2>1 DEF ImportWrite
    <2>3. \A e \in Runner \ {d} : benchJob'[e] = benchJob[e]
      BY <2>2 DEF To, RunsInv
    <2>4. CASE c # d
      BY <1>1, <1>2, <2>3, <2>4 DEF Doing
    <2>5. CASE c = d
      <3>1. benchJob'[d] \in {NoBench, k}
        BY <2>2 DEF To, RunsInv
      <3>2. benchJob'[c] = k
        BY <1>1, <2>5, <3>1 DEF Doing
      <3>3. k.records = benchJob[d].records
        BY <2>1, <2>2, NextRecord
      <3> QED
        BY <1>2, <2>2, <2>5, <3>2, <3>3
    <2> QED
      BY <2>4, <2>5
  <1>8. ASSUME SecondPasses \/ ImportRecord \/ ExportBundle \/ EditBundle \/ EditFile
               \/ UNCHANGED benchVars
        PROVE  UNCHANGED benchJob
    BY <1>8 DEF SecondPasses, ImportRecord, ExportBundle, EditBundle, EditFile, benchVars
  <1> QED
    BY <1>3, <1>4, <1>5, <1>6, <1>7, <1>8 DEF RunsNext, RecordsNext

\* Records have scores wherever they are.
THEOREM ScoresInvariant == BenchSpec => []ScoresInv
  <1>1. BenchInit => ScoresInv
    BY DEF BenchInit, ScoresInv, Doing
  <1>2. ASSUME RunsInv, RecordsInv, ScoresInv, [RunsNext \/ RecordsNext]_benchVars
        PROVE  ScoresInv'
    <2>1. (\A n \in DOMAIN files : Scored(files[n]))'
      BY <1>2, FilesStayScored DEF Scored
    <2>2. (bundle # NoBench => AllScored(bundle.records))'
      BY <1>2, BundleStaysScored
    <2>3. (\A c \in Runner : Doing(c, "write") => AllScored(benchJob[c].records))'
      BY <1>2, ImportsStayScored
    <2> QED
      BY <2>1, <2>2, <2>3 DEF ScoresInv
  <1> QED
    BY <1>1, <1>2, RunInvariant, RecordsInvariant, PTL DEF BenchSpec

-----------------------------------------------------------------------------
(* Comparisons.                                                            *)

\* Whatever the directory holds, the rows of a group with leaders were measured
\* under the same controlled conditions and differ in the dimension compared
\* only, and every latency among them has a source (compare_benchmarks).
THEOREM LeadersMeasuredAlike ==
    ASSUME NEW d \in Dimension, NEW group \in ComparisonGroups(d), Ready(group, d)
    PROVE  \A r, s \in group :
              /\ r.suite = s.suite /\ r.suite.comparable /\ r.decoding = s.decoding
              /\ Controlled(r) /\ r.calibration = s.calibration
              /\ \A e \in Dimension \ {d} : Value(r, e) = Value(s, e)
              /\ \A i \in DOMAIN r.runs : r.runs[i].ttft # Nil => r.runs[i].source
  <1>1. PICK first \in Rows : group = {s \in Rows : Basis(s, d) = Basis(first, d)}
    BY DEF ComparisonGroups
  <1>2. ASSUME NEW r \in group, NEW s \in group
        PROVE  /\ r.suite = s.suite /\ r.calibration = s.calibration /\ r.decoding = s.decoding
               /\ \A e \in Dimension \ {d} : Value(r, e) = Value(s, e)
    <2>1. Basis(r, d) = Basis(s, d)
      BY <1>1, <1>2
    <2>2. /\ Basis(r, d).suite = Basis(s, d).suite
          /\ Basis(r, d).decoding = Basis(s, d).decoding
          /\ Basis(r, d).calibration = Basis(s, d).calibration
          /\ Basis(r, d).others = Basis(s, d).others
      BY <2>1
    <2>3. [e \in Dimension \ {d} |-> Value(r, e)] = [e \in Dimension \ {d} |-> Value(s, e)]
      BY <2>2 DEF Basis
    <2>4. \A e \in Dimension \ {d} :
              /\ [x \in Dimension \ {d} |-> Value(r, x)][e] = Value(r, e)
              /\ [x \in Dimension \ {d} |-> Value(s, x)][e] = Value(s, e)
      OBVIOUS
    <2>5. \A e \in Dimension \ {d} : Value(r, e) = Value(s, e)
      BY <2>3, <2>4, Zenon
    <2>6. r.suite = s.suite /\ r.calibration = s.calibration /\ r.decoding = s.decoding
      BY <2>2 DEF Basis
    <2> QED
      BY <2>5, <2>6
  <1>3. PICK one \in group : one.suite.comparable /\ Controlled(one)
    BY DEF Ready
  <1>4. ASSUME NEW r \in group
        PROVE  r.suite.comparable /\ Controlled(r)
    <2>1. r.suite = one.suite /\ r.calibration = one.calibration
      BY <1>2, <1>3
    <2> QED
      BY <1>3, <2>1 DEF Controlled
  <1>5. ASSUME NEW r \in group
        PROVE  \A i \in DOMAIN r.runs : r.runs[i].ttft # Nil => r.runs[i].source
    <2>1. PICK n \in Evidence : r = Canonical(files[n])
      BY <1>1, <1>5 DEF Rows
    <2>2. Validates(files[n])
      BY DEF Evidence
    <2>3. r.runs = files[n].runs /\ r.calibration = files[n].calibration
      BY <2>1 DEF Canonical
    <2>4. Controlled(files[n])
      BY <1>4, <1>5, <2>3 DEF Controlled
    <2>5. \A i \in DOMAIN files[n].runs :
              files[n].runs[i].ttft # Nil => files[n].runs[i].source
      BY <2>2, <2>4 DEF Validates
    <2> QED
      BY <2>3, <2>5
  <1> QED
    BY <1>2, <1>4, <1>5

\* The scores of a record add up to a number.
LEMMA QualityIsNumber ==
    ASSUME NEW r, Scored(r)
    PROVE  QualitySum(r.runs) \in Int
  <1> DEFINE runs == r.runs
             S == DOMAIN runs
             f == [i \in S |-> runs[i].quality]
             Fold(sums, T) ==
                 IF T = {} THEN 0
                 ELSE runs[First(T)].quality + sums[T \ {First(T)}]
             IsFold(sums) == sums = [T \in SUBSET S |-> Fold(sums, T)]
             sum == CHOOSE sums : IsFold(sums)
  <1>1. QualitySum(runs) = sum[S]
    BY DEF QualitySum, MapThenSumSet, MapThenFoldSet, First
  <1>2. \A i \in S : f[i] = runs[i].quality
    OBVIOUS
  <1> HIDE DEF f
  <1>3. IsFiniteSet(S)
    <2>1. S = 1 .. Len(runs) /\ Len(runs) \in Nat
      BY DEF Scored
    <2> QED
      BY <2>1, FS_Interval
  <1>4. \A i \in S : f[i] \in Int
    <2>1. \A i \in S : runs[i] \in ToSet(runs)
      BY DEF ToSet
    <2> QED
      BY <1>2, <2>1 DEF Scored
  <1> HIDE DEF runs
  <1>5. \A sums : \A T \in SUBSET S : Fold(sums, T) = Sum(f, sums, T)
    BY <1>2 DEF Sum, First
  <1>6. PICK sums \in [SUBSET S -> Int] : \A T \in SUBSET S : sums[T] = Sum(f, sums, T)
    BY <1>3, <1>4, SumsExist
  <1>7. \A T \in SUBSET S : sums[T] = Fold(sums, T)
    BY <1>5, <1>6
  <1>8. IsFold(sums)
    BY <1>6, <1>7
  <1> HIDE DEF IsFold
  <1>9. IsFold(sum)
    BY <1>8
  <1> HIDE DEF sum
  <1>10. \A T \in SUBSET S : sum[T] = Sum(f, sum, T)
    <2>1. \A T \in SUBSET S : sum[T] = Fold(sum, T)
      BY <1>9 DEF IsFold
    <2> QED
      BY <1>5, <2>1
  <1> QED
    BY <1>1, <1>3, <1>4, <1>10, SumIsNumber DEF runs

\* A group that is ready has a leader: a best mean among finitely many.
LEMMA LeadersExist ==
    ASSUME RecordsInv, ScoresInv,
           NEW d \in Dimension, NEW group \in ComparisonGroups(d), Ready(group, d)
    PROVE  QualityLeaders(group) # {}
  <1> DEFINE quality == [r \in group |-> r.summary.quality]
             runs == [r \in group |-> r.summary.n]
             S == {n \in Evidence : ~files[n].dry}
  <1>1. group \in SUBSET Rows /\ group # {}
    BY DEF ComparisonGroups, Ready
  <1>2. IsFiniteSet(group)
    <2>1. S \subseteq DOMAIN files
      BY DEF Evidence
    <2>2. IsFiniteSet(S)
      BY <2>1, FS_Subset DEF RecordsInv
    <2>3. Rows = {Canonical(files[n]) : n \in S}
      BY DEF Rows
    <2> HIDE DEF S
    <2>4. IsFiniteSet(Rows)
      <3> DEFINE canonical == [n \in S |-> Canonical(files[n])]
      <3>1. canonical \in Surjection(S, Rows)
        BY <2>3 DEF Surjection
      <3> QED
        BY <2>2, <3>1, FS_Surjection
    <2> QED
      BY <1>1, <2>4, FS_Subset
  <1>3. ASSUME NEW r \in group
        PROVE  r.summary.quality \in Int /\ r.summary.n \in Nat \ {0}
    <2>1. PICK n \in Evidence : r = Canonical(files[n])
      BY <1>1 DEF Rows
    <2>2. Validates(files[n]) /\ Scored(files[n])
      BY DEF Evidence, ScoresInv
    <2>3. r.summary.quality = QualitySum(files[n].runs) /\ r.summary.n = Len(files[n].runs)
      BY <2>1 DEF Canonical
    <2>4. Len(files[n].runs) \in Nat /\ Len(files[n].runs) > 0
      BY <2>2 DEF Validates, Scored
    <2> QED
      BY <2>2, <2>3, <2>4, QualityIsNumber
  <1>4. /\ \A r \in group : quality[r] = r.summary.quality /\ runs[r] = r.summary.n
        /\ \A r \in group : quality[r] \in Int /\ runs[r] \in Nat \ {0}
    BY <1>3
  <1> HIDE DEF quality, runs
  <1>5. PICK r \in group : \A s \in group : quality[r] * runs[s] >= quality[s] * runs[r]
    BY <1>1, <1>2, <1>4, GreatestQuotient
  <1>6. \A s \in group : r.summary.quality * s.summary.n >= s.summary.quality * r.summary.n
    BY <1>4, <1>5
  <1> QED
    BY <1>5, <1>6 DEF QualityLeaders

\* A comparison names leaders only among records that were measured alike, always
\* at least one for quality, and for latency only of telemetry with a source:
\* whatever was run, imported, exported or edited before.
THEOREM LeadersCompared == BenchSpec => []LeadersAreComparable
  <1>1. RecordsInv /\ ScoresInv => LeadersAreComparable
    <2> SUFFICES ASSUME RecordsInv, ScoresInv, NEW d \in Dimension,
                        NEW group \in ComparisonGroups(d), Ready(group, d)
                 PROVE  /\ \A r, s \in group :
                              /\ r.suite = s.suite /\ r.suite.comparable /\ r.decoding = s.decoding
                              /\ Controlled(r) /\ r.calibration = s.calibration
                              /\ \A e \in Dimension \ {d} : Value(r, e) = Value(s, e)
                        /\ QualityLeaders(group) # {}
                        /\ \A r \in LatencyLeaders(group) :
                              \A i \in DOMAIN r.runs : r.runs[i].ttft # Nil => r.runs[i].source
      BY DEF LeadersAreComparable
    <2>1. LatencyLeaders(group) \subseteq group
      BY DEF LatencyLeaders
    <2> QED
      BY <2>1, LeadersMeasuredAlike, LeadersExist
  <1> QED
    BY <1>1, RecordsInvariant, ScoresInvariant, PTL
=============================================================================
