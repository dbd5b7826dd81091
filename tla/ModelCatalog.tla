---------------------------- MODULE ModelCatalog ----------------------------
(***************************************************************************)
(* The two documents of the model catalog and the commands that change     *)
(* them: models.yaml holds the profile's own entries and its default, and  *)
(* models.discovered.yaml what refreshing a provider found.  The catalog   *)
(* is the second overlaid with the first.  A materialized cache holds its  *)
(* rows under a digest of the two documents.                               *)
(*                                                                         *)
(* A process loads models.yaml when a command starts, the discovered       *)
(* entries when it first needs them, changes them in memory and writes     *)
(* each document as a whole.  Nothing is locked from load to write.        *)
(***************************************************************************)
EXTENDS Integers, Sequences, FiniteSets

CONSTANTS
    Proc,         \* processes, each runs one command at a time
    Name,         \* entry names
    Id,           \* provider-native model ids
    Provider,     \* sources of models
    Source,       \* [Id -> Provider]
    Alias,        \* [Id -> Seq(Name)]: the aliases tried for a discovered id
    Local,        \* local_file, the source nothing can be discovered from
    Overlap,      \* may a command start while another one runs
    Lives,        \* may a process run a second command (the MCP server)
    Fails,        \* can writing a document fail
    MaxCommands,  \* bound on the commands that are started
    None

ASSUME CatalogAssumption ==
    /\ Source \in [Id -> Provider]
    /\ Alias \in [Id -> Seq(Name)]
    /\ Local \in Provider
    /\ {Overlap, Lives, Fails} \subseteq BOOLEAN
    /\ MaxCommands \in Nat

VARIABLES
    curated,    \* models.yaml: [models, default]
    generated,  \* models.discovered.yaml
    cache,      \* the materialized catalog: [digest, rows], or None
    job,        \* [Proc -> Job]: the command a process runs
    memory,     \* [Proc -> Doc \cup {None}]: the parsed discovered catalog a
                \* process keeps from one command to the next
    begun,      \* number of commands started
    unwritten   \* a process went on with entries it could not write

vars == <<curated, generated, cache, job, memory, begun, unwritten>>

\* mark: imported_by is aiplane_refresh.  note: the notes are those discovery
\* gives.  meta: the provider's metadata.  human: roles, runtime and the like.
Entry == [id : Id, mark : BOOLEAN, note : BOOLEAN, meta : {"old", "new"},
          human : {"source", "edited"}, enabled : BOOLEAN]

Doc == [Name -> Entry \cup {None}]

ASSUME NoneAssumption == None \notin Entry \cup Doc

Curated == [models : Doc, default : Name \cup {None}]

Digest == [models : Doc, generated : Doc]

Kind == {"edit", "clear", "reset", "reset_all", "refresh", "refresh_all", "query",
         "rebuild"}

Location == {"idle", "act", "write curated", "write generated", "digest",
             "load", "rows"}

\* reset, todo: the sources a command has yet to clear and to refresh.
Job == [at : Location, kind : Kind, config : Curated, found : Doc \cup {None},
        writes : SUBSET {"curated", "generated"}, reset : SUBSET Provider,
        todo : SUBSET Provider, digest : Digest \cup {None}, asked : SUBSET Id]

Nothing == [n \in Name |-> None]

TypeOK ==
    /\ curated \in Curated
    /\ generated \in Doc
    /\ cache = None \/ cache \in [digest : Digest, rows : Doc]
    /\ job \in [Proc -> Job]
    /\ memory \in [Proc -> Doc \cup {None}]
    /\ begun \in 0..MaxCommands
    /\ unwritten \in BOOLEAN

Names(doc) == {n \in Name : doc[n] # None}

\* ModelCatalog.models: the profile's own entry of a name wins.
Overlay(found, models) ==
    [n \in Name |-> IF models[n] # None THEN models[n] ELSE found[n]]

Ids(doc) == {doc[n].id : n \in Names(doc)}

\* _is_refresh_imported_model looks at the mark and at the notes.
Imported(e) == e.mark \/ e.note

Discovered(i, meta, enable) ==
    [id |-> i, mark |-> TRUE, note |-> TRUE, meta |-> meta,
     human |-> "source", enabled |-> enable]

Idle == [at |-> "idle", kind |-> "query",
         config |-> [models |-> Nothing, default |-> None], found |-> None,
         writes |-> {}, reset |-> {}, todo |-> {}, digest |-> None, asked |-> {}]

Init ==
    /\ \E found \in {{}, {i \in Id : Source[i] # Local}} :
          generated = [n \in Name |->
            IF \E i \in found : n = Alias[i][1]
            THEN Discovered(CHOOSE i \in found : n = Alias[i][1], "old", TRUE)
            ELSE None]
    /\ \/ curated = [models |-> Nothing, default |-> None]
       \/ \E n \in Name, i \in Id, note \in BOOLEAN :
             /\ Source[i] # Local
             /\ curated = [models |-> [Nothing EXCEPT ![n] =
                             [Discovered(i, "old", TRUE) EXCEPT
                                !.mark = FALSE, !.note = note, !.human = "edited"]],
                           default |-> n]
    /\ cache = None
    /\ job = [p \in Proc |-> Idle]
    /\ memory = [p \in Proc |-> None]
    /\ begun = 0
    /\ unwritten = FALSE

\* The discovered entries p sees: those it holds, those its process parsed
\* before (dropped when the file's time and size change), or the file's.
Seen(p) == IF job[p].found # None THEN job[p].found
           ELSE IF memory[p] # None THEN memory[p] ELSE generated

End(p) == job' = [job EXCEPT ![p] = Idle]

-----------------------------------------------------------------------------
(* Commands start.                                                         *)

\* A new process, or the one that ran the command before.
Begin(p, kind, reset, todo) ==
    /\ job[p].at = "idle"
    /\ begun < MaxCommands
    /\ Overlap \/ \A q \in Proc : job[q].at = "idle"
    /\ job' = [job EXCEPT ![p] =
                 [Idle EXCEPT !.at = IF kind \in {"query", "rebuild"}
                                     THEN "digest" ELSE "act",
                              !.kind = kind, !.config = curated,
                              !.reset = reset, !.todo = todo]]
    /\ begun' = begun + 1
    /\ \/ memory' = [memory EXCEPT ![p] = None] /\ UNCHANGED unwritten
       \/ /\ Lives
          /\ unwritten' = (unwritten \/ memory[p] \notin {None, generated})
          /\ UNCHANGED memory
    /\ UNCHANGED <<curated, generated, cache>>

Start(p) ==
    LET Sources == Provider \ {Local} IN
    \/ \E kind \in {"edit", "query", "rebuild"} : Begin(p, kind, {}, {})
    \/ \E s \in Sources :
          \/ Begin(p, "clear", {s}, {})
          \/ Begin(p, "refresh", {}, {s})
          \/ Begin(p, "reset", {s}, {s})
    \/ Begin(p, "clear", Provider, {})
    \/ Begin(p, "refresh_all", {}, Sources)
    \/ Begin(p, "reset_all", Sources, Sources)

ClearMaterialized ==
    /\ cache' = None
    /\ UNCHANGED <<curated, generated, job, memory, begun, unwritten>>

\* The documents of p's command become config and found, and are written if
\* they differ; asked are the ids the command is to drop or may lose.  The
\* parsed catalog a process keeps is the object it changes.
Change(p, config, found, asked, reset, todo) ==
    LET writes == (IF config # job[p].config THEN {"curated"} ELSE {})
                    \cup (IF found # Seen(p) THEN {"generated"} ELSE {})
    IN  /\ job' = [job EXCEPT ![p] =
                     [@ EXCEPT !.config = config, !.found = found, !.writes = writes,
                               !.asked = asked, !.reset = reset, !.todo = todo,
                               !.at = "write curated"]]
        /\ memory' = [memory EXCEPT ![p] = found]
        /\ UNCHANGED <<curated, generated, cache, begun, unwritten>>

-----------------------------------------------------------------------------
(* Edits of the profile's own entries.                                     *)

Editing(p) == job[p].at = "act" /\ job[p].kind = "edit"

\* A command that is refused: no such entry, or one that is in the way.
Refuse(p) ==
    /\ Editing(p)
    /\ End(p)
    /\ UNCHANGED <<curated, generated, cache, memory, begun, unwritten>>

Own(p) == job[p].config.models

Put(p, n, e, asked) ==
    Change(p, [job[p].config EXCEPT !.models[n] = e], Seen(p), asked, {}, {})

Replaced(p, n) == IF Own(p)[n] = None THEN {} ELSE {Own(p)[n].id}

SetDefault(p, n) ==
    /\ Editing(p)
    /\ n \in Names(Overlay(Seen(p), Own(p)))
    /\ Change(p, [job[p].config EXCEPT !.default = n], Seen(p), {}, {}, {})

\* The entry of a discovered key under a name of the user's, with or without
\* notes of the user's.
AddModel(p, n, key, notes, enable, overwrite) ==
    /\ Editing(p)
    /\ Seen(p)[key] # None
    /\ overwrite \/ (Own(p)[n] = None /\ (Seen(p)[n] = None \/ n = key))
    /\ Put(p, n, [Seen(p)[key] EXCEPT !.mark = FALSE, !.note = @ /\ ~notes,
                    !.human = "edited", !.enabled = enable], Replaced(p, n))

AddLocalFile(p, n, i, overwrite) ==
    /\ Editing(p)
    /\ Source[i] = Local
    /\ overwrite \/ n \notin Names(Overlay(Seen(p), Own(p)))
    /\ Put(p, n, [id |-> i, mark |-> FALSE, note |-> FALSE, meta |-> "old",
                  human |-> "edited", enabled |-> TRUE], Replaced(p, n))

CloneModel(p, source, n, overwrite) ==
    /\ Editing(p)
    /\ source \in Names(Overlay(Seen(p), Own(p)))
    /\ overwrite \/ n \notin Names(Overlay(Seen(p), Own(p)))
    /\ Put(p, n, [Overlay(Seen(p), Own(p))[source] EXCEPT !.mark = FALSE],
           Replaced(p, n))

\* The mark goes, the notes stay.
PromoteGenerated(p, n, target, keep, overwrite) ==
    /\ Editing(p)
    /\ Seen(p)[n] # None
    /\ overwrite \/ Own(p)[target] = None
    /\ Change(p, [job[p].config EXCEPT !.models[target] =
                    [Seen(p)[n] EXCEPT !.mark = FALSE]],
              IF keep THEN Seen(p) ELSE [Seen(p) EXCEPT ![n] = None],
              Replaced(p, target), {}, {})

RemoveModel(p, n) ==
    /\ Editing(p)
    /\ Own(p)[n] # None
    /\ Change(p, [models  |-> [Own(p) EXCEPT ![n] = None],
                  default |-> IF job[p].config.default = n THEN None
                              ELSE job[p].config.default],
              Seen(p), Replaced(p, n), {}, {})

SetEnabled(p, n, enable) ==
    /\ Editing(p)
    /\ Own(p)[n] # None
    /\ Put(p, n, [Own(p)[n] EXCEPT !.enabled = enable], {})

-----------------------------------------------------------------------------
(* clear-cache, and refresh with --reset-cache.                            *)

\* clear-cache clears its sources at once, --reset-cache one after the other.
\* Defaults that name a cleared entry stay.
ClearImported(p, sources, include) ==
    /\ job[p].at = "act"
    /\ \/ job[p].kind = "clear" /\ sources = job[p].reset
       \/ /\ job[p].kind \in {"reset", "reset_all"} /\ include
          /\ \E s \in job[p].reset : sources = {s}
    /\ LET Cleared(e) == e # None /\ Source[e.id] \in sources
           models == [n \in Name |->
                        IF Cleared(Own(p)[n]) /\ (include \/ Imported(Own(p)[n]))
                        THEN None ELSE Own(p)[n]]
           found == [n \in Name |-> IF Cleared(Seen(p)[n]) THEN None ELSE Seen(p)[n]]
       IN  Change(p, [job[p].config EXCEPT !.models = models], found,
                  {i \in Id : Source[i] \in sources},
                  job[p].reset \ sources, job[p].todo)

-----------------------------------------------------------------------------
(* refresh.                                                                *)

\* Mutant of Merge: what a person wrote is overwritten as well.
MergeAll(e, meta) == [Discovered(e.id, meta, e.enabled) EXCEPT !.mark = e.mark]

\* _merge_source_discovered_model: an imported entry is rewritten, of another
\* one only what the provider says.
Merge(e, meta) == IF Imported(e) THEN Discovered(e.id, meta, e.enabled)
                                 ELSE [e EXCEPT !.meta = meta]

\* Of several entries of one id the last in the overlaid dictionary is the one
\* that is matched: one of the profile's own, if it has a name of its own.
Match(p, i) ==
    LET all   == Overlay(Seen(p), Own(p))
        named == {n \in Names(all) : all[n].id = i}
        own   == named \ Names(Seen(p))
    IN  IF own # {} THEN own ELSE named

\* The first alias of i that no entry has.
FreshAlias(p, i) ==
    LET all == Overlay(Seen(p), Own(p))
        free == {k \in DOMAIN Alias[i] : all[Alias[i][k]] = None}
    IN  Alias[i][CHOOSE k \in free : \A l \in free : k <= l]

\* The source answered with ids and metadata; matched is the entry each known
\* id was found at.  An imported entry of models.yaml moves to the discovered
\* ones: between the writes its id is in neither document, and a discovered
\* entry it hid is overwritten.  Pruning a name that hides a discovered entry
\* removes the hidden one.
Reconcile(p, s, ids, meta, enable, prune, matched) ==
    LET all == Overlay(Seen(p), Own(p))
        new == {i \in ids : Match(p, i) = {}}
        Updated(n) == /\ \E i \in ids \ new : matched[i] = n
                      /\ Merge(all[n], meta) # all[n]
        Kept(n) == Own(p)[n] # None /\ ~Imported(Own(p)[n])
        Pruned(n) == /\ prune /\ all[n] # None
                     /\ Source[all[n].id] = s /\ all[n].id \notin ids
                     /\ Imported(all[n])
        AtRisk(doc) == [n \in Name |->
            IF Pruned(n) \/ (Updated(n) /\ ~Kept(n)) THEN doc[n] ELSE None]
        models == [n \in Name |->
            IF Updated(n) THEN IF Kept(n) THEN Merge(all[n], meta) ELSE None
            ELSE IF Pruned(n) /\ Seen(p)[n] = None THEN None
            ELSE Own(p)[n]]
        found == [n \in Name |->
            IF Updated(n) /\ ~Kept(n) THEN Merge(all[n], meta)
            ELSE IF Pruned(n) THEN None
            ELSE IF \E i \in new : FreshAlias(p, i) = n
            THEN Discovered(CHOOSE i \in new : FreshAlias(p, i) = n, meta, enable)
            ELSE Seen(p)[n]]
    IN  /\ \A i \in new :   \* bound: there is an alias for each
              \E k \in DOMAIN Alias[i] : all[Alias[i][k]] = None
        /\ Change(p, [job[p].config EXCEPT !.models = models], found,
                  Ids(AtRisk(Own(p))) \cup Ids(AtRisk(Seen(p))), {},
                  job[p].todo \ {s})

Refreshing(p) ==
    job[p].at = "act" /\ job[p].kind \in {"refresh", "refresh_all"}

RefreshProvider(p) ==
    /\ Refreshing(p)
    /\ \E s \in job[p].todo :
       \E ids \in SUBSET {i \in Id : Source[i] = s},
          meta \in {"old", "new"}, enable \in BOOLEAN, prune \in BOOLEAN :
       \E matched \in [Id -> Name] :
          /\ \A i \in Id : IF i \in ids /\ Match(p, i) # {}
                           THEN matched[i] \in Match(p, i)
                           ELSE matched[i] = Alias[i][1]
          /\ Reconcile(p, s, ids, meta, enable, prune, matched)

\* The provider fails or there is no adapter: nothing changes.  A refresh of
\* that one provider ends, one of all goes on.
RefreshFails(p) ==
    /\ Refreshing(p)
    /\ \E s \in job[p].todo :
          IF job[p].kind = "refresh"
          THEN End(p)
          ELSE job' = [job EXCEPT ![p] =
                         [@ EXCEPT !.todo = job[p].todo \ {s},
                                   !.at = IF job[p].todo = {s} THEN "digest" ELSE "act"]]
    /\ UNCHANGED <<curated, generated, cache, memory, begun, unwritten>>

-----------------------------------------------------------------------------
(* Writes: models.yaml first.                                              *)

Goto(p, location) == job' = [job EXCEPT ![p] = [@ EXCEPT !.at = location]]

\* After its last write a command ends, or clears or refreshes the next source,
\* or rebuilds the cache.
After(j) ==
    CASE j.kind \in {"edit", "clear"} -> Idle
      [] j.kind \in {"reset", "reset_all"} ->
           [j EXCEPT !.at = "act", !.writes = {},
                     !.kind = IF j.reset # {} THEN j.kind
                              ELSE IF j.kind = "reset" THEN "refresh" ELSE "refresh_all"]
      [] OTHER ->
           [j EXCEPT !.at = IF j.todo = {} THEN "digest" ELSE "act", !.writes = {}]

Proceed(p) == job' = [job EXCEPT ![p] = After(@)]

\* Mutant of Write: the discovered entries first.
WriteGeneratedFirst(p) ==
    \/ /\ job[p].at = "write curated"
       /\ generated' = IF "generated" \in job[p].writes THEN job[p].found
                       ELSE generated
       /\ Goto(p, "write generated")
       /\ UNCHANGED <<curated, cache, memory, begun, unwritten>>
    \/ /\ job[p].at = "write generated"
       /\ curated' = IF "curated" \in job[p].writes THEN job[p].config
                     ELSE curated
       /\ Proceed(p)
       /\ UNCHANGED <<generated, cache, memory, begun, unwritten>>

\* A new discovered file is not the one other processes parsed before.
Write(p) ==
    \/ /\ job[p].at = "write curated"
       /\ curated' = IF "curated" \in job[p].writes THEN job[p].config ELSE curated
       /\ Goto(p, "write generated")
       /\ UNCHANGED <<generated, cache, memory, begun, unwritten>>
    \/ /\ job[p].at = "write generated"
       /\ IF "generated" \in job[p].writes
          THEN generated' = job[p].found /\ memory' = [q \in Proc |-> None]
          ELSE UNCHANGED <<generated, memory>>
       /\ Proceed(p)
       /\ UNCHANGED <<curated, cache, begun, unwritten>>

\* A refresh of all providers reports the error and goes on with what it has
\* in memory; any other command ends.
WriteFails(p) ==
    /\ Fails
    /\ \/ job[p].at = "write curated" /\ "curated" \in job[p].writes
       \/ job[p].at = "write generated" /\ "generated" \in job[p].writes
    /\ IF job[p].kind = "refresh_all" THEN Proceed(p) ELSE End(p)
    /\ unwritten' = (unwritten \/ job[p].kind = "refresh_all")
    /\ UNCHANGED <<curated, generated, cache, memory, begun>>

-----------------------------------------------------------------------------
(* The materialized catalog.                                               *)

\* Mutant of TakeDigest: the discovered file is not an input.
TakeDigestOfCurated(p) ==
    /\ job[p].at = "digest"
    /\ job' = [job EXCEPT ![p] =
         [@ EXCEPT !.digest = [models |-> Own(p), generated |-> Nothing],
                   !.at = IF job[p].kind = "query" THEN "load" ELSE "rows"]]
    /\ UNCHANGED <<curated, generated, cache, memory, begun, unwritten>>

\* Of models.yaml as it is in memory, and of the discovered file.
TakeDigest(p) ==
    /\ job[p].at = "digest"
    /\ job' = [job EXCEPT ![p] =
         [@ EXCEPT !.digest = [models |-> Own(p), generated |-> generated],
                   !.at = IF job[p].kind = "query" THEN "load" ELSE "rows"]]
    /\ UNCHANGED <<curated, generated, cache, memory, begun, unwritten>>

\* A cache of this digest is what the query answers from.
LoadCache(p) ==
    /\ job[p].at = "load"
    /\ IF cache # None /\ cache.digest = job[p].digest
       THEN End(p) ELSE Goto(p, "rows")
    /\ UNCHANGED <<curated, generated, cache, memory, begun, unwritten>>

\* The rows come from what is in memory.  A cache that cannot be written is
\* done without.
BuildRows(p) ==
    /\ job[p].at = "rows"
    /\ \/ cache' = [digest |-> job[p].digest, rows |-> Overlay(Seen(p), Own(p))]
       \/ UNCHANGED cache
    /\ memory' = [memory EXCEPT ![p] = IF job[p].found = None THEN Seen(p) ELSE @]
    /\ End(p)
    /\ UNCHANGED <<curated, generated, begun, unwritten>>

Crash(p) ==
    /\ job[p].at # "idle"
    /\ End(p)
    /\ memory' = [memory EXCEPT ![p] = None]
    /\ UNCHANGED <<curated, generated, cache, begun, unwritten>>

Edit(p) ==
    \E n \in Name :
        \/ SetDefault(p, n)
        \/ RemoveModel(p, n)
        \/ \E enable \in BOOLEAN : SetEnabled(p, n, enable)
        \/ \E overwrite \in BOOLEAN :
              \/ \E i \in Id : AddLocalFile(p, n, i, overwrite)
              \/ \E m \in Name :
                    \/ CloneModel(p, m, n, overwrite)
                    \/ \E keep \in BOOLEAN :
                          PromoteGenerated(p, m, n, keep, overwrite)
                    \/ \E notes \in BOOLEAN, enable \in BOOLEAN :
                          AddModel(p, n, m, notes, enable, overwrite)

Next ==
    \/ \E p \in Proc :
          \/ Start(p) \/ Edit(p) \/ Refuse(p)
          \/ \E sources \in SUBSET Provider, include \in BOOLEAN :
                ClearImported(p, sources, include)
          \/ RefreshProvider(p) \/ RefreshFails(p)
          \/ Write(p) \/ WriteFails(p)
          \/ TakeDigest(p) \/ LoadCache(p) \/ BuildRows(p)
          \/ Crash(p)
    \/ ClearMaterialized

Spec == Init /\ [][Next]_vars

-----------------------------------------------------------------------------
(* Properties.                                                             *)

\* Discovered files hold what discovery made, and nothing else.
OnlyDiscovered == \A n \in Names(generated) : generated[n].mark

\* A cache under the digest of the documents as they are holds the rows of the
\* documents as they are: it "is rebuilt automatically when its schema,
\* enrichment rules, profile catalog, discovery cache, or benchmark inputs
\* change" (providers.md).
CacheIsCurrent ==
    cache # None /\ cache.digest = [models |-> curated.models, generated |-> generated]
        => cache.rows = Overlay(generated, curated.models)

CatalogInv ==
    /\ TypeOK
    /\ OnlyDiscovered
    /\ unwritten \/ CacheIsCurrent

Known == Ids(curated.models) \cup Ids(generated)

\* p's refresh writes in this step.
RefreshWrites(p) ==
    /\ job[p].kind \in {"refresh", "refresh_all"}
    /\ job[p].at \in {"write curated", "write generated"}
    /\ job'[p] # job[p]

\* A write of a refresh leaves entry n of the profile and what a person wrote in
\* it; the provider's metadata may change.
LeavesEntry(n) ==
    /\ curated'.models[n] # None
    /\ [curated'.models[n] EXCEPT !.meta = curated.models[n].meta] = curated.models[n]

\* Whatever providers answer, a refresh leaves alone the default, even one that
\* now names nothing, and the entries that have neither discovery's mark nor its
\* notes, whether they are enabled included.  This is less than the documents
\* promise, see OwnedSurvives: a promoted entry keeps the notes.
ReviewedSurvives ==
    [][\A p \in Proc : RefreshWrites(p) =>
          /\ curated'.default = curated.default
          /\ \A n \in Names(curated.models) :
                ~Imported(curated.models[n]) => LeavesEntry(n)]_vars

\* docs/user/providers.md:308: "Profile-owned entries in `models.yaml` are preserved
\* by refresh; if a local profile-owned entry points at a returned source id, only
\* source-derived metadata is refreshed while human-maintained fields stay intact."
\* An entry without discovery's mark is the profile's own; promote takes the mark
\* away and leaves the notes, by which the next refresh takes it for its own.
OwnedSurvives ==
    [][\A p \in Proc : RefreshWrites(p) =>
          \A n \in Names(curated.models) :
             ~curated.models[n].mark => LeavesEntry(n)]_vars

\* Whatever write a command ends after, a model leaves the two documents only
\* if the command was to drop it, or was a refresh that moved its entry.
NothingIsLost ==
    [][\A p \in Proc : ~unwritten /\ job'[p] # job[p] =>
          Known \ Known' \subseteq
              job[p].asked]_vars
=============================================================================
