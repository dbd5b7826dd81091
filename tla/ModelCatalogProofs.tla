------------------------- MODULE ModelCatalogProofs -------------------------
(***************************************************************************)
(* Proofs about the two documents of the model catalog.  However commands  *)
(* overlap, whatever is held as discovered has discovery's mark.  When     *)
(* they take turns (Overlap = FALSE) what a command has in memory is what  *)
(* the files hold but for what it is about to write (TurnsInv), so a       *)
(* refresh leaves what the user wrote, no model is lost whichever write    *)
(* fails, and a materialized cache answers for the documents of its        *)
(* digest.                                                                 *)
(***************************************************************************)
EXTENDS ModelCatalog, WellFoundedInduction, SequenceTheorems, TLAPS

-----------------------------------------------------------------------------
(* The inductive invariant.                                                *)

MarkedDoc(doc) == \A n \in Names(doc) : doc[n].mark

\* Whatever discovered entries are held anywhere, discovery marked them.
AllMarked ==
    /\ MarkedDoc(generated)
    /\ \A p \in Proc : memory[p] # None => MarkedDoc(memory[p])
    /\ \A p \in Proc : job[p].found # None => MarkedDoc(job[p].found)

Writing(p) == job[p].at \in {"write curated", "write generated"}

\* A command that writes has the discovered entries, and one that looks at the
\* cache has its digest.
InHand ==
    \A p \in Proc :
       /\ Writing(p) => job[p].found # None
       /\ job[p].at \in {"load", "rows"} => job[p].digest \in Digest

DocsInv == TypeOK /\ AllMarked /\ InHand

\* What a refresh does to models.yaml leaves the default and what the user
\* wrote of an entry.
Reviewed(old, new) ==
    /\ new.default = old.default
    /\ \A n \in Names(old.models) : ~Imported(old.models[n]) =>
          /\ new.models[n] # None
          /\ [new.models[n] EXCEPT !.meta = old.models[n].meta] = old.models[n]

\* The models.yaml in memory is the one in the file until a change of it is
\* written; only a refresh of all providers goes on when that failed.
CuratedHeld(p) ==
    /\ /\ job[p].kind # "refresh_all" \/ ~unwritten
       /\ job[p].at = "write curated" => "curated" \notin job[p].writes
       => job[p].config = curated
    /\ job[p].kind \in {"refresh", "refresh_all"} => Reviewed(curated, job[p].config)

\* So are the discovered entries, and no id leaves both documents but those
\* the command was to drop.
GeneratedHeld(p) ==
    /\ ~Writing(p) => Seen(p) = generated
    /\ Writing(p) /\ "generated" \notin job[p].writes => job[p].found = generated
    /\ job[p].at = "write curated" =>
          Ids(curated.models) \subseteq
             job[p].asked \cup Ids(job[p].config.models) \cup Ids(generated)
    /\ Writing(p) =>
          Ids(generated) \subseteq
             job[p].asked \cup Ids(job[p].config.models) \cup Ids(job[p].found)
    /\ job[p].at \in {"load", "rows"} =>
          job[p].digest = [models |-> Own(p), generated |-> generated]

\* A command that is under way, when commands take turns.
UnderWay(p) ==
    job[p].at # "idle" =>
       /\ CuratedHeld(p)
       /\ ~unwritten => GeneratedHeld(p)

Turns == \A p, q \in Proc : p # q => job[p].at = "idle" \/ job[q].at = "idle"

\* A cache holds the rows of the documents of its digest.
CacheOfDigest ==
    ~unwritten /\ cache # None =>
        cache.rows = Overlay(cache.digest.generated, cache.digest.models)

TurnsInv ==
    /\ DocsInv /\ Turns /\ CacheOfDigest
    /\ \A p \in Proc : UnderWay(p)

-----------------------------------------------------------------------------
(* Documents and jobs.                                                     *)

\* A document without entries is one.
LEMMA NothingIsDoc == Nothing \in Doc /\ Names(Nothing) = {} /\ Idle \in Job
  <1>1. Nothing \in Doc
    BY DEF Nothing, Doc
  <1>2. [models |-> Nothing, default |-> None] \in Curated
    BY <1>1 DEF Curated
  <1>3. Idle \in Job
    BY <1>2 DEF Idle, Job, Location, Kind
  <1> QED
    BY <1>1, <1>3 DEF Nothing, Names

\* A process without a command holds nothing of one.
LEMMA IdleIs ==
    Idle.at = "idle" /\ Idle.found = None /\ Idle.kind = "query" /\ Idle.writes = {}
  BY DEF Idle

\* What is held of a process has its type.
LEMMA HeldTypes ==
    ASSUME TypeOK, NEW p \in Proc
    PROVE  /\ job[p] \in Job
           /\ job[p].config \in Curated /\ Own(p) \in Doc
           /\ job[p].found \in Doc \cup {None} /\ memory[p] \in Doc \cup {None}
           /\ Seen(p) \in Doc
           /\ job[p].kind \in Kind /\ job[p].at \in Location
           /\ job[p].reset \subseteq Provider /\ job[p].todo \subseteq Provider
           /\ job[p].writes \subseteq {"curated", "generated"}
           /\ job[p].asked \subseteq Id
           /\ generated \in Doc /\ curated \in Curated /\ curated.models \in Doc
  <1>1. job[p] \in Job /\ memory[p] \in Doc \cup {None} /\ generated \in Doc
    BY DEF TypeOK
  <1>2. /\ job[p].config \in Curated /\ job[p].found \in Doc \cup {None}
        /\ job[p].kind \in Kind /\ job[p].at \in Location
        /\ job[p].reset \subseteq Provider /\ job[p].todo \subseteq Provider
        /\ job[p].writes \subseteq {"curated", "generated"} /\ job[p].asked \subseteq Id
    BY <1>1 DEF Job
  <1>3. Own(p) \in Doc
    BY <1>2 DEF Own, Curated
  <1>4. Seen(p) \in Doc
    BY <1>1, <1>2 DEF Seen
  <1>5. curated \in Curated /\ curated.models \in Doc
    BY DEF TypeOK, Curated
  <1> QED
    BY <1>1, <1>2, <1>3, <1>4, <1>5

\* Entries are no absent values.
LEMMA EntriesOf ==
    ASSUME NEW doc \in Doc, NEW n \in Name
    PROVE  /\ doc[n] \in Entry \cup {None}
           /\ doc[n] # None => doc[n] \in Entry /\ doc[n].id \in Id /\ doc[n].id \in Ids(doc)
  <1>1. doc[n] \in Entry \cup {None}
    BY DEF Doc
  <1> QED
    BY <1>1 DEF Entry, Ids, Names

\* A document with other entries, or none, under some names.
LEMMA OverlayIsDoc ==
    ASSUME NEW found \in Doc, NEW models \in Doc
    PROVE  /\ Overlay(found, models) \in Doc
           /\ \A n \in Name : Overlay(found, models)[n] =
                                IF models[n] # None THEN models[n] ELSE found[n]
  BY DEF Overlay, Doc

\* An entry with another field of its own.
LEMMA EntryEdits ==
    ASSUME NEW e \in Entry, NEW b \in BOOLEAN, NEW c \in BOOLEAN
    PROVE  /\ [e EXCEPT !.mark = FALSE] \in Entry /\ [e EXCEPT !.mark = FALSE].id = e.id
           /\ [e EXCEPT !.enabled = b] \in Entry /\ [e EXCEPT !.enabled = b].id = e.id
           /\ [e EXCEPT !.mark = FALSE, !.note = b, !.human = "edited", !.enabled = c]
                \in Entry
  BY DEF Entry

\* What a provider says of an entry.
LEMMA MetaEdits ==
    ASSUME NEW e \in Entry, NEW meta \in {"old", "new"}
    PROVE  /\ [e EXCEPT !.meta = meta] \in Entry /\ [e EXCEPT !.meta = meta].id = e.id
           /\ [[e EXCEPT !.meta = meta] EXCEPT !.meta = e.meta] = e
           /\ e.id \in Id /\ e.enabled \in BOOLEAN
  BY DEF Entry

\* What discovery makes.
LEMMA DiscoveredEntry ==
    ASSUME NEW i \in Id, NEW meta \in {"old", "new"}, NEW enable \in BOOLEAN
    PROVE  /\ Discovered(i, meta, enable) \in Entry
           /\ Discovered(i, meta, enable).id = i /\ Discovered(i, meta, enable).mark
  BY DEF Entry, Discovered

\* A merge keeps the id, and marks what is imported.
LEMMA MergeKeeps ==
    ASSUME NEW e \in Entry, NEW meta \in {"old", "new"}
    PROVE  /\ Merge(e, meta) \in Entry /\ Merge(e, meta) # None
           /\ Merge(e, meta).id = e.id
           /\ Imported(e) => Merge(e, meta).mark
           /\ ~Imported(e) => [Merge(e, meta) EXCEPT !.meta = e.meta] = e
  <1>0. e.id \in Id /\ e.enabled \in BOOLEAN
    BY MetaEdits
  <1>1. CASE Imported(e)
    <2> DEFINE d == Discovered(e.id, meta, e.enabled)
    <2>1. Merge(e, meta) = d
      BY <1>1 DEF Merge
    <2>2. d \in Entry /\ d.id = e.id /\ d.mark
      BY <1>0, DiscoveredEntry
    <2> HIDE DEF d
    <2> QED
      BY <1>1, <2>1, <2>2, NoneAssumption
  <1>2. CASE ~Imported(e)
    <2> DEFINE d == [e EXCEPT !.meta = meta]
    <2>1. Merge(e, meta) = d
      BY <1>2 DEF Merge
    <2>2. d \in Entry /\ d.id = e.id /\ [d EXCEPT !.meta = e.meta] = e
      BY MetaEdits
    <2> HIDE DEF d
    <2> QED
      BY <1>2, <2>1, <2>2, NoneAssumption
  <1> QED
    BY <1>1, <1>2

-----------------------------------------------------------------------------
(* What the commands make of the documents.                                *)

\* A change of p's documents loses no id but those asked for, makes no mark up,
\* and in a refresh leaves what the user wrote.
Allowed(p, config, found, asked) ==
    /\ config \in Curated /\ found \in Doc /\ asked \subseteq Id
    /\ MarkedDoc(Seen(p)) => MarkedDoc(found)
    /\ Ids(Own(p)) \subseteq asked \cup Ids(config.models) \cup Ids(Seen(p))
    /\ Ids(Seen(p)) \subseteq asked \cup Ids(config.models) \cup Ids(found)
    /\ job[p].kind \in {"refresh", "refresh_all"} => Reviewed(job[p].config, config)

AllowedChange(p) ==
    /\ job[p].at = "act"
    /\ \E config \in Curated, found \in Doc, asked \in SUBSET Id,
          reset \in SUBSET Provider, todo \in SUBSET Provider :
          /\ Allowed(p, config, found, asked)
          /\ Change(p, config, found, asked, reset, todo)

\* The ids of a document are those of its entries.
LEMMA IdsOf ==
    ASSUME NEW doc \in Doc, NEW S,
           \A n \in Name : doc[n] # None => doc[n].id \in S
    PROVE  Ids(doc) \subseteq S
  BY DEF Ids, Names

\* An entry put under a name takes the place of the one there.
LEMMA DocPut ==
    ASSUME NEW doc \in Doc, NEW n \in Name, NEW e \in Entry \cup {None}
    PROVE  /\ [doc EXCEPT ![n] = e] \in Doc
           /\ Ids(doc) \subseteq Ids([doc EXCEPT ![n] = e])
                                   \cup (IF doc[n] = None THEN {} ELSE {doc[n].id})
           /\ e # None => e.id \in Ids([doc EXCEPT ![n] = e])
           /\ MarkedDoc(doc) /\ e = None => MarkedDoc([doc EXCEPT ![n] = e])
  <1> DEFINE new == [doc EXCEPT ![n] = e]
  <1>1. /\ new \in Doc /\ new[n] = e
        /\ \A m \in Name \ {n} : new[m] = doc[m]
    BY DEF Doc
  <1> HIDE DEF new
  <1>2. \A m \in Name : new[m] # None => new[m].id \in Ids(new)
    BY DEF Ids, Names
  <1>3. \A m \in Name : doc[m] # None =>
            doc[m].id \in Ids(new) \cup (IF doc[n] = None THEN {} ELSE {doc[n].id})
    BY <1>1, <1>2
  <1>4. Ids(doc) \subseteq Ids(new) \cup (IF doc[n] = None THEN {} ELSE {doc[n].id})
    BY <1>3, IdsOf
  <1>5. e # None => e.id \in Ids(new)
    BY <1>1, <1>2
  <1>6. MarkedDoc(doc) /\ e = None => MarkedDoc(new)
    BY <1>1 DEF MarkedDoc, Names
  <1> QED
    BY <1>1, <1>4, <1>5, <1>6 DEF new

\* models.yaml with an entry under a name, or with other entries.
LEMMA ConfigPut ==
    ASSUME NEW c \in Curated, NEW n \in Name, NEW e \in Entry \cup {None}
    PROVE  /\ [c EXCEPT !.models[n] = e] \in Curated
           /\ [c EXCEPT !.models[n] = e].models = [c.models EXCEPT ![n] = e]
  <1>1. c.models \in Doc /\ c.default \in Name \cup {None}
    BY DEF Curated
  <1>2. [c.models EXCEPT ![n] = e] \in Doc
    BY <1>1, DocPut
  <1>3. [c EXCEPT !.models[n] = e] = [c EXCEPT !.models = [c.models EXCEPT ![n] = e]]
    OBVIOUS
  <1> QED
    BY <1>2, <1>3 DEF Curated

\* An edit puts an entry in the place of one that is asked for, or of its own.
LEMMA PutAllowed ==
    ASSUME TypeOK, NEW p \in Proc, Editing(p), NEW n \in Name, NEW e \in Entry,
           NEW asked \in SUBSET Id, Put(p, n, e, asked),
           Own(p)[n] # None => Own(p)[n].id \in asked \cup {e.id}
    PROVE  AllowedChange(p)
  <1> DEFINE config == [job[p].config EXCEPT !.models[n] = e]
  <1>1. /\ job[p].config \in Curated /\ Own(p) \in Doc /\ Seen(p) \in Doc
        /\ Own(p) = job[p].config.models
    BY HeldTypes DEF Own
  <1>2. config \in Curated /\ config.models = [Own(p) EXCEPT ![n] = e]
    BY <1>1, ConfigPut
  <1>3. Ids(Own(p)) \subseteq asked \cup Ids(config.models)
    BY <1>1, <1>2, DocPut, NoneAssumption
  <1>4. Change(p, config, Seen(p), asked, {}, {})
    BY DEF Put
  <1> HIDE DEF config
  <1>5. Allowed(p, config, Seen(p), asked)
    BY <1>1, <1>2, <1>3 DEF Allowed, Editing
  <1> QED
    BY <1>1, <1>2, <1>4, <1>5 DEF AllowedChange, Editing

\* The entry an edit replaces is asked for.
LEMMA ReplacedIsAsked ==
    ASSUME TypeOK, NEW p \in Proc, NEW n \in Name
    PROVE  /\ Replaced(p, n) \in SUBSET Id
           /\ Own(p)[n] # None => Own(p)[n].id \in Replaced(p, n)
  <1>1. Own(p) \in Doc
    BY HeldTypes
  <1>2. Own(p)[n] # None => Own(p)[n].id \in Id
    BY <1>1, EntriesOf
  <1> QED
    BY <1>2 DEF Replaced

\* Edits of the profile's own entries.
LEMMA EditAllowed ==
    ASSUME TypeOK, NEW p \in Proc, Edit(p)
    PROVE  AllowedChange(p)
  <1>0. /\ job[p].config \in Curated /\ Own(p) \in Doc /\ Seen(p) \in Doc
        /\ Own(p) = job[p].config.models
    BY HeldTypes DEF Own
  <1>1. ASSUME NEW n \in Name, SetDefault(p, n)
        PROVE  AllowedChange(p)
    <2> DEFINE config == [job[p].config EXCEPT !.default = n]
    <2>1. config \in Curated /\ config.models = Own(p)
      BY <1>0 DEF Curated
    <2>2. Change(p, config, Seen(p), {}, {}, {}) /\ Editing(p)
      BY <1>1 DEF SetDefault
    <2> HIDE DEF config
    <2>3. Allowed(p, config, Seen(p), {})
      BY <1>0, <2>1, <2>2 DEF Allowed, Editing
    <2> QED
      BY <1>0, <2>1, <2>2, <2>3 DEF AllowedChange, Editing
  <1>2. ASSUME NEW n \in Name, RemoveModel(p, n)
        PROVE  AllowedChange(p)
    <2> DEFINE models == [Own(p) EXCEPT ![n] = None]
               default == IF job[p].config.default = n THEN None ELSE job[p].config.default
               config == [models |-> models, default |-> default]
    <2>1. /\ Change(p, config, Seen(p), Replaced(p, n), {}, {})
          /\ Editing(p)
      BY <1>2 DEF RemoveModel
    <2>2. /\ models \in Doc
          /\ Ids(Own(p)) \subseteq Ids(models) \cup
                (IF Own(p)[n] = None THEN {} ELSE {Own(p)[n].id})
      BY <1>0, DocPut
    <2>3. default \in Name \cup {None}
      BY <1>0 DEF Curated
    <2> HIDE DEF models, default
    <2>4. config \in Curated /\ config.models = models
      BY <2>2, <2>3 DEF Curated
    <2>5. Ids(Own(p)) \subseteq Replaced(p, n) \cup Ids(models)
      BY <2>2, ReplacedIsAsked
    <2> HIDE DEF config
    <2>6. Allowed(p, config, Seen(p), Replaced(p, n))
      BY <1>0, <2>1, <2>4, <2>5, ReplacedIsAsked DEF Allowed, Editing
    <2> QED
      BY <1>0, <2>1, <2>4, <2>6, ReplacedIsAsked DEF AllowedChange, Editing
  <1>3. ASSUME NEW n \in Name, NEW enable \in BOOLEAN, SetEnabled(p, n, enable)
        PROVE  AllowedChange(p)
    <2> DEFINE e == [Own(p)[n] EXCEPT !.enabled = enable]
    <2>1. Editing(p) /\ Own(p)[n] # None /\ Put(p, n, e, {})
      BY <1>3 DEF SetEnabled
    <2>2. Own(p)[n] \in Entry
      BY <1>0, <2>1, EntriesOf
    <2>3. e \in Entry /\ e.id = Own(p)[n].id
      BY <2>2, EntryEdits
    <2> HIDE DEF e
    <2> QED
      BY <2>1, <2>3, PutAllowed
  <1>4. ASSUME NEW n \in Name, NEW i \in Id, NEW overwrite \in BOOLEAN,
               AddLocalFile(p, n, i, overwrite)
        PROVE  AllowedChange(p)
    <2> DEFINE e == [id |-> i, mark |-> FALSE, note |-> FALSE, meta |-> "old",
                     human |-> "edited", enabled |-> TRUE]
    <2>1. Editing(p) /\ Put(p, n, e, Replaced(p, n))
      BY <1>4 DEF AddLocalFile
    <2>2. e \in Entry
      BY DEF Entry
    <2> HIDE DEF e
    <2> QED
      BY <2>1, <2>2, PutAllowed, ReplacedIsAsked
  <1>5. ASSUME NEW n \in Name, NEW m \in Name, NEW overwrite \in BOOLEAN,
               CloneModel(p, m, n, overwrite)
        PROVE  AllowedChange(p)
    <2> DEFINE all == Overlay(Seen(p), Own(p))
               e == [all[m] EXCEPT !.mark = FALSE]
    <2>1. Editing(p) /\ m \in Names(all) /\ Put(p, n, e, Replaced(p, n))
      BY <1>5 DEF CloneModel
    <2>2. all \in Doc
      BY <1>0, OverlayIsDoc
    <2>3. all[m] \in Entry
      BY <2>1, <2>2, EntriesOf DEF Names
    <2>4. e \in Entry
      BY <2>3, EntryEdits
    <2> HIDE DEF e, all
    <2> QED
      BY <2>1, <2>4, PutAllowed, ReplacedIsAsked
  <1>6. ASSUME NEW n \in Name, NEW m \in Name, NEW notes \in BOOLEAN,
               NEW enable \in BOOLEAN, NEW overwrite \in BOOLEAN,
               AddModel(p, n, m, notes, enable, overwrite)
        PROVE  AllowedChange(p)
    <2> DEFINE old == Seen(p)[m]
               note == old.note /\ ~notes
               e == [old EXCEPT !.mark = FALSE, !.note = note, !.human = "edited",
                                !.enabled = enable]
    <2>1. Editing(p) /\ old # None /\ Put(p, n, e, Replaced(p, n))
      BY <1>6 DEF AddModel
    <2>2. old \in Entry
      BY <1>0, <2>1, EntriesOf
    <2>3. note \in BOOLEAN
      OBVIOUS
    <2> HIDE DEF old, note
    <2>4. e \in Entry
      BY <2>2, <2>3, EntryEdits
    <2> HIDE DEF e
    <2> QED
      BY <2>1, <2>4, PutAllowed, ReplacedIsAsked
  <1>7. ASSUME NEW n \in Name, NEW m \in Name, NEW keep \in BOOLEAN,
               NEW overwrite \in BOOLEAN, PromoteGenerated(p, m, n, keep, overwrite)
        PROVE  AllowedChange(p)
    <2> DEFINE e == [Seen(p)[m] EXCEPT !.mark = FALSE]
               config == [job[p].config EXCEPT !.models[n] = e]
               found == IF keep THEN Seen(p) ELSE [Seen(p) EXCEPT ![m] = None]
    <2>1. /\ Editing(p) /\ Seen(p)[m] # None
          /\ Change(p, config, found, Replaced(p, n), {}, {})
      BY <1>7 DEF PromoteGenerated
    <2>2. Seen(p)[m] \in Entry
      BY <1>0, <2>1, EntriesOf
    <2>3. e \in Entry /\ e.id = Seen(p)[m].id /\ e # None
      BY <2>2, EntryEdits, NoneAssumption
    <2>4. /\ found \in Doc /\ (MarkedDoc(Seen(p)) => MarkedDoc(found))
          /\ Ids(Seen(p)) \subseteq Ids(found) \cup {e.id}
      BY <1>0, <2>1, <2>3, DocPut
    <2> HIDE DEF e, found
    <2>5. config \in Curated /\ config.models = [Own(p) EXCEPT ![n] = e]
      BY <1>0, <2>3, ConfigPut
    <2> HIDE DEF config
    <2>6. e.id \in Ids(config.models)
      BY <1>0, <2>3, <2>5, DocPut
    <2>7. Ids(Own(p)) \subseteq Replaced(p, n) \cup Ids(config.models)
      BY <1>0, <2>3, <2>5, DocPut, ReplacedIsAsked
    <2>8. Allowed(p, config, found, Replaced(p, n))
      BY <2>1, <2>4, <2>5, <2>6, <2>7, ReplacedIsAsked DEF Allowed, Editing
    <2> QED
      BY <2>1, <2>4, <2>5, <2>8, ReplacedIsAsked DEF AllowedChange, Editing
  <1> QED
    BY <1>1, <1>2, <1>3, <1>4, <1>5, <1>6, <1>7 DEF Edit

\* Indices have a first one.
LEMMA FirstIndex ==
    ASSUME NEW S \in SUBSET Nat, S # {}
    PROVE  \E k \in S : \A l \in S : k <= l
  <1> DEFINE R == OpToRel(<, Nat)
  <1>1. \A k, l \in Nat : <<l, k>> \in R <=> l < k
    BY DEF OpToRel
  <1>2. IsWellFoundedOn(R, Nat)
    BY NatLessThanWellFounded
  <1> HIDE DEF R
  <1>3. PICK k \in S : \A l \in S : ~(<<l, k>> \in R)
    BY <1>2, WFMin
  <1>4. ASSUME NEW l \in S
        PROVE  k <= l
    <2>1. k \in Nat /\ l \in Nat /\ ~(l < k)
      BY <1>1, <1>3
    <2> QED
      BY <2>1
  <1> QED
    BY <1>4

\* The alias of a new id is in the way of no entry.
LEMMA FreshIsFree ==
    ASSUME NEW p \in Proc, NEW i \in Id,
           \E k \in DOMAIN Alias[i] : Overlay(Seen(p), Own(p))[Alias[i][k]] = None
    PROVE  Overlay(Seen(p), Own(p))[FreshAlias(p, i)] = None
  <1> DEFINE all == Overlay(Seen(p), Own(p))
             free == {k \in DOMAIN Alias[i] : all[Alias[i][k]] = None}
             first == CHOOSE k \in free : \A l \in free : k <= l
  <1>1. DOMAIN Alias[i] \subseteq Nat
    BY CatalogAssumption, LenProperties
  <1>2. free # {} /\ free \in SUBSET Nat
    BY <1>1
  <1>3. FreshAlias(p, i) = Alias[i][first]
    BY DEF FreshAlias
  <1>4. \A k \in free : all[Alias[i][k]] = None
    OBVIOUS
  <1> HIDE DEF free
  <1>5. first \in free
    BY <1>2, FirstIndex
  <1> HIDE DEF first
  <1> QED
    BY <1>3, <1>4, <1>5

\* What clear-cache and --reset-cache take away is of the sources asked for.
LEMMA ClearAllowed ==
    ASSUME TypeOK, NEW p \in Proc, NEW sources \in SUBSET Provider,
           NEW include \in BOOLEAN, ClearImported(p, sources, include)
    PROVE  AllowedChange(p)
  <1> DEFINE Cleared(e) == e # None /\ Source[e.id] \in sources
             models == [n \in Name |->
                          IF Cleared(Own(p)[n]) /\ (include \/ Imported(Own(p)[n]))
                          THEN None ELSE Own(p)[n]]
             found == [n \in Name |-> IF Cleared(Seen(p)[n]) THEN None ELSE Seen(p)[n]]
             config == [job[p].config EXCEPT !.models = models]
             asked == {i \in Id : Source[i] \in sources}
  <1>1. /\ job[p].at = "act" /\ job[p].kind \notin {"refresh", "refresh_all"}
        /\ Change(p, config, found, asked, job[p].reset \ sources, job[p].todo)
    BY DEF ClearImported
  <1>2. /\ job[p].config \in Curated /\ Own(p) \in Doc /\ Seen(p) \in Doc
        /\ job[p].reset \subseteq Provider /\ job[p].todo \subseteq Provider
    BY HeldTypes
  <1>3. models \in Doc /\ found \in Doc
    BY <1>2 DEF Doc
  <1>4. \A n \in Name : Own(p)[n] # None =>
            Own(p)[n].id \in asked \/ models[n] = Own(p)[n]
    BY <1>2, EntriesOf
  <1>5. \A n \in Name : Seen(p)[n] # None =>
            Seen(p)[n].id \in asked \/ found[n] = Seen(p)[n]
    BY <1>2, EntriesOf
  <1>6. MarkedDoc(Seen(p)) => MarkedDoc(found)
    BY DEF MarkedDoc, Names
  <1> HIDE DEF models, found
  <1>7. config \in Curated /\ config.models = models
    BY <1>2, <1>3 DEF Curated
  <1>8. asked \in SUBSET Id
    OBVIOUS
  <1> HIDE DEF config, asked
  <1>9. Ids(Own(p)) \subseteq asked \cup Ids(models)
    <2>1. \A n \in Name : Own(p)[n] # None => Own(p)[n].id \in asked \cup Ids(models)
      BY <1>3, <1>4, EntriesOf
    <2> QED
      BY <1>2, <2>1, IdsOf
  <1>10. Ids(Seen(p)) \subseteq asked \cup Ids(found)
    <2>1. \A n \in Name : Seen(p)[n] # None => Seen(p)[n].id \in asked \cup Ids(found)
      BY <1>3, <1>5, EntriesOf
    <2> QED
      BY <1>2, <2>1, IdsOf
  <1>11. Allowed(p, config, found, asked)
    BY <1>1, <1>3, <1>6, <1>7, <1>8, <1>9, <1>10 DEF Allowed
  <1> QED
    BY <1>1, <1>2, <1>3, <1>7, <1>8, <1>11 DEF AllowedChange

\* A refresh moves what discovery made, changes of the rest what the provider
\* says, and loses only what it moves or prunes.
LEMMA RefreshAllowed ==
    ASSUME TypeOK, NEW p \in Proc, RefreshProvider(p)
    PROVE  AllowedChange(p)
  <1>0. /\ job[p].config \in Curated /\ Own(p) \in Doc /\ Seen(p) \in Doc
        /\ Own(p) = job[p].config.models
        /\ job[p].todo \subseteq Provider
    BY HeldTypes DEF Own
  <1>1. PICK s \in job[p].todo : \E ids \in SUBSET {i \in Id : Source[i] = s},
           meta \in {"old", "new"}, enable \in BOOLEAN, prune \in BOOLEAN :
        \E matched \in [Id -> Name] :
          /\ \A i \in Id : IF i \in ids /\ Match(p, i) # {}
                           THEN matched[i] \in Match(p, i)
                           ELSE matched[i] = Alias[i][1]
          /\ Reconcile(p, s, ids, meta, enable, prune, matched)
    BY DEF RefreshProvider
  <1>2. PICK ids \in SUBSET {i \in Id : Source[i] = s},
           meta \in {"old", "new"}, enable \in BOOLEAN, prune \in BOOLEAN :
        \E matched \in [Id -> Name] :
          /\ \A i \in Id : IF i \in ids /\ Match(p, i) # {}
                           THEN matched[i] \in Match(p, i)
                           ELSE matched[i] = Alias[i][1]
          /\ Reconcile(p, s, ids, meta, enable, prune, matched)
    BY <1>1
  <1>3. PICK matched \in [Id -> Name] :
          /\ \A i \in Id : IF i \in ids /\ Match(p, i) # {}
                           THEN matched[i] \in Match(p, i)
                           ELSE matched[i] = Alias[i][1]
          /\ Reconcile(p, s, ids, meta, enable, prune, matched)
    BY <1>2
  <1> DEFINE all == Overlay(Seen(p), Own(p))
             new == {i \in ids : Match(p, i) = {}}
             Updated(n) == /\ \E i \in ids \ new : matched[i] = n
                           /\ Merge(all[n], meta) # all[n]
             Kept(n) == Own(p)[n] # None /\ ~Imported(Own(p)[n])
             Pruned(n) == /\ prune /\ all[n] # None
                          /\ Source[all[n].id] = s /\ all[n].id \notin ids
                          /\ Imported(all[n])
             AtRisk(doc) == [n \in Name |->
                 IF Pruned(n) \/ (Updated(n) /\ ~Kept(n)) THEN doc[n] ELSE None]
             models == [n \in Name |->
                 IF Updated(n) THEN IF Kept(n) THEN Merge(all[n], meta) ELSE None
                 ELSE IF Pruned(n) /\ Seen(p)[n] = None THEN None
                 ELSE Own(p)[n]]
             found == [n \in Name |->
                 IF Updated(n) /\ ~Kept(n) THEN Merge(all[n], meta)
                 ELSE IF Pruned(n) THEN None
                 ELSE IF \E i \in new : FreshAlias(p, i) = n
                 THEN Discovered(CHOOSE i \in new : FreshAlias(p, i) = n, meta, enable)
                 ELSE Seen(p)[n]]
             config == [job[p].config EXCEPT !.models = models]
             asked == Ids(AtRisk(Own(p))) \cup Ids(AtRisk(Seen(p)))
  <1>4. /\ \A i \in new : \E k \in DOMAIN Alias[i] : all[Alias[i][k]] = None
        /\ Change(p, config, found, asked, {}, job[p].todo \ {s})
        /\ job[p].at = "act"
    BY <1>3 DEF Reconcile, RefreshProvider, Refreshing
  <1>5. ids \subseteq Id /\ new \subseteq Id
    OBVIOUS
  <1>6. /\ all \in Doc
        /\ \A n \in Name : all[n] = IF Own(p)[n] # None THEN Own(p)[n] ELSE Seen(p)[n]
    BY <1>0, OverlayIsDoc
  <1>7. \A n \in Name : Updated(n) => all[n] \in Entry
    <2> SUFFICES ASSUME NEW n \in Name, Updated(n)
                 PROVE  all[n] \in Entry
      OBVIOUS
    <2>1. PICK i \in ids \ new : matched[i] = n
      OBVIOUS
    <2>2. n \in Match(p, i)
      BY <1>3, <1>5, <2>1
    <2>3. all[n] # None
      BY <2>2 DEF Match, Names
    <2> QED
      BY <1>6, <2>3, EntriesOf
  <1>8. \A n \in Name : Updated(n) =>
           LET e == Merge(all[n], meta) IN
           /\ e \in Entry /\ e # None /\ e.id = all[n].id
           /\ Imported(all[n]) => e.mark
           /\ ~Imported(all[n]) => [e EXCEPT !.meta = all[n].meta] = all[n]
    BY <1>7, MergeKeeps
  <1>9. \A n \in Name : (\E i \in new : FreshAlias(p, i) = n) =>
           /\ all[n] = None
           /\ LET e == Discovered(CHOOSE i \in new : FreshAlias(p, i) = n, meta, enable)
              IN  e \in Entry /\ e.mark
    <2> SUFFICES ASSUME NEW n \in Name, \E i \in new : FreshAlias(p, i) = n
                 PROVE  /\ all[n] = None
                        /\ LET e == Discovered(CHOOSE i \in new : FreshAlias(p, i) = n,
                                               meta, enable)
                           IN  e \in Entry /\ e.mark
      OBVIOUS
    <2> DEFINE one == CHOOSE i \in new : FreshAlias(p, i) = n
    <2>1. one \in new /\ FreshAlias(p, one) = n
      OBVIOUS
    <2> HIDE DEF one
    <2>2. all[n] = None
      BY <1>4, <1>5, <2>1, FreshIsFree
    <2>3. Discovered(one, meta, enable) \in Entry /\ Discovered(one, meta, enable).mark
      BY <1>5, <2>1, DiscoveredEntry
    <2> QED
      BY <2>2, <2>3 DEF one
  <1>10. \A n \in Name : models[n] =
            IF Updated(n) THEN IF Kept(n) THEN Merge(all[n], meta) ELSE None
            ELSE IF Pruned(n) /\ Seen(p)[n] = None THEN None
            ELSE Own(p)[n]
    OBVIOUS
  <1>11. \A n \in Name : found[n] =
            IF Updated(n) /\ ~Kept(n) THEN Merge(all[n], meta)
            ELSE IF Pruned(n) THEN None
            ELSE IF \E i \in new : FreshAlias(p, i) = n
            THEN Discovered(CHOOSE i \in new : FreshAlias(p, i) = n, meta, enable)
            ELSE Seen(p)[n]
    OBVIOUS
  <1>12. \A n \in Name : (Pruned(n) => Imported(all[n]) /\ all[n] # None)
    OBVIOUS
  <1>13. models \in Doc
    <2>1. \A n \in Name : models[n] \in Entry \cup {None}
      BY <1>0, <1>8, <1>10, EntriesOf
    <2> QED
      BY <2>1 DEF Doc
  <1>14. found \in Doc
    <2>1. \A n \in Name : found[n] \in Entry \cup {None}
      BY <1>0, <1>8, <1>9, <1>11, EntriesOf
    <2> QED
      BY <2>1 DEF Doc
  <1>15. ASSUME NEW doc \in Doc
         PROVE  /\ AtRisk(doc) \in Doc
                /\ \A n \in Name : Pruned(n) \/ (Updated(n) /\ ~Kept(n)) =>
                      AtRisk(doc)[n] = doc[n]
    BY <1>15 DEF Doc
  <1> DEFINE riskOwn == AtRisk(Own(p))
             riskSeen == AtRisk(Seen(p))
  <1>16. /\ riskOwn \in Doc /\ riskSeen \in Doc
         /\ \A n \in Name : Pruned(n) \/ (Updated(n) /\ ~Kept(n)) =>
              /\ riskOwn[n] = Own(p)[n] /\ riskSeen[n] = Seen(p)[n]
    BY <1>0, <1>15
  <1>17. asked = Ids(riskOwn) \cup Ids(riskSeen)
    OBVIOUS
  <1> HIDE DEF models, found, riskOwn, riskSeen, Pruned, Updated, new, asked
  <1>18. \A n \in Name : Own(p)[n] # None =>
            Own(p)[n].id \in Ids(riskOwn) \cup Ids(models)
    <2> SUFFICES ASSUME NEW n \in Name, Own(p)[n] # None
                 PROVE  Own(p)[n].id \in Ids(riskOwn) \cup Ids(models)
      OBVIOUS
    <2>1. CASE Pruned(n) \/ (Updated(n) /\ ~Kept(n))
      BY <1>16, <2>1, EntriesOf
    <2>2. CASE ~Pruned(n) /\ Updated(n) /\ Kept(n)
      BY <1>6, <1>8, <1>10, <1>13, <2>2, EntriesOf
    <2>3. CASE ~Pruned(n) /\ ~Updated(n)
      BY <1>10, <1>13, <2>3, EntriesOf
    <2> QED
      BY <2>1, <2>2, <2>3
  <1>19. \A n \in Name : Seen(p)[n] # None =>
            Seen(p)[n].id \in Ids(riskSeen) \cup Ids(found)
    <2> SUFFICES ASSUME NEW n \in Name, Seen(p)[n] # None
                 PROVE  Seen(p)[n].id \in Ids(riskSeen) \cup Ids(found)
      OBVIOUS
    <2>1. CASE Pruned(n) \/ (Updated(n) /\ ~Kept(n))
      BY <1>16, <2>1, EntriesOf
    <2>2. CASE ~(Pruned(n) \/ (Updated(n) /\ ~Kept(n)))
      <3>1. all[n] # None
        BY <1>6
      <3>2. found[n] = Seen(p)[n]
        BY <1>9, <1>11, <2>2, <3>1
      <3> QED
        BY <1>14, <3>2, EntriesOf
    <2> QED
      BY <2>1, <2>2
  <1>20. MarkedDoc(Seen(p)) => MarkedDoc(found)
    <2> SUFFICES ASSUME MarkedDoc(Seen(p)), NEW n \in Name, found[n] # None
                 PROVE  found[n].mark
      BY DEF MarkedDoc, Names
    <2>1. Seen(p)[n] # None => Seen(p)[n].mark
      BY DEF MarkedDoc, Names
    <2>2. CASE Updated(n) /\ ~Kept(n)
      <3>1. all[n] # None
        BY <1>7, <2>2, NoneAssumption
      <3>2. Imported(all[n])
        BY <1>6, <2>1, <2>2, <3>1 DEF Imported
      <3> QED
        BY <1>8, <1>11, <2>2, <3>2
    <2>3. CASE ~(Updated(n) /\ ~Kept(n)) /\ ~Pruned(n)
      BY <1>9, <1>11, <2>1, <2>3
    <2> QED
      BY <1>11, <2>2, <2>3
  <1>21. /\ config \in Curated /\ config.models = models
         /\ config.default = job[p].config.default
    BY <1>0, <1>13 DEF Curated
  <1> HIDE DEF config
  <1>22. Reviewed(job[p].config, config)
    <2> SUFFICES ASSUME NEW n \in Name, Own(p)[n] # None, ~Imported(Own(p)[n])
                 PROVE  /\ models[n] # None
                        /\ [models[n] EXCEPT !.meta = Own(p)[n].meta] = Own(p)[n]
      BY <1>0, <1>21 DEF Reviewed, Names
    <2>1. all[n] = Own(p)[n] /\ Kept(n) /\ ~Pruned(n)
      BY <1>6, <1>12
    <2>2. CASE Updated(n)
      BY <1>8, <1>10, <2>1, <2>2
    <2>3. CASE ~Updated(n)
      <3>1. models[n] = Own(p)[n] /\ Own(p)[n] \in Entry
        BY <1>0, <1>10, <2>1, <2>3, EntriesOf
      <3> QED
        BY <3>1 DEF Entry
    <2> QED
      BY <2>2, <2>3
  <1>23. /\ Ids(Own(p)) \subseteq Ids(riskOwn) \cup Ids(models)
         /\ Ids(Seen(p)) \subseteq Ids(riskSeen) \cup Ids(found)
    <2>1. Ids(Own(p)) \subseteq Ids(riskOwn) \cup Ids(models)
      BY <1>0, <1>18, IdsOf
    <2>2. Ids(Seen(p)) \subseteq Ids(riskSeen) \cup Ids(found)
      BY <1>0, <1>19, IdsOf
    <2> QED
      BY <2>1, <2>2
  <1>24. asked \in SUBSET Id
    <2>1. Ids(riskOwn) \subseteq Id
      BY <1>16, EntriesOf, IdsOf
    <2>2. Ids(riskSeen) \subseteq Id
      BY <1>16, EntriesOf, IdsOf
    <2> QED
      BY <1>17, <2>1, <2>2
  <1>25. Allowed(p, config, found, asked)
    BY <1>14, <1>17, <1>20, <1>21, <1>22, <1>23, <1>24 DEF Allowed
  <1> QED
    BY <1>0, <1>4, <1>14, <1>21, <1>24, <1>25 DEF AllowedChange

-----------------------------------------------------------------------------
(* Documents, marks and types, however commands overlap.                   *)

\* One process changes its job, the others keep theirs.
LEMMA JobPut ==
    ASSUME TypeOK, NEW p \in Proc, NEW j \in Job, job' = [job EXCEPT ![p] = j]
    PROVE  /\ job' \in [Proc -> Job] /\ job'[p] = j
           /\ \A q \in Proc \ {p} : job'[q] = job[q]
  BY DEF TypeOK

\* After its last write a command is idle, or has its documents and is at work.
LEMMA AfterIs ==
    ASSUME NEW j \in Job
    PROVE  /\ After(j) \in Job
           /\ \/ After(j) = Idle
              \/ /\ After(j).at \in {"act", "digest"}
                 /\ After(j).config = j.config /\ After(j).found = j.found
                 /\ After(j).kind = j.kind \/ j.kind \in {"reset", "reset_all"}
           /\ j.kind = "refresh_all" => After(j).kind = "refresh_all"
  <1>1. CASE j.kind \in {"edit", "clear"}
    BY <1>1, NothingIsDoc DEF After
  <1>2. CASE j.kind \in {"reset", "reset_all"}
    <2> DEFINE kind == IF j.reset # {} THEN j.kind
                       ELSE IF j.kind = "reset" THEN "refresh" ELSE "refresh_all"
    <2>1. After(j) = [j EXCEPT !.at = "act", !.writes = {}, !.kind = kind]
      BY <1>2 DEF After
    <2>2. kind \in Kind
      BY <1>2 DEF Kind
    <2> HIDE DEF kind
    <2>3. After(j) \in Job
      BY <2>1, <2>2 DEF Job, Location
    <2>4. After(j).at = "act" /\ After(j).config = j.config /\ After(j).found = j.found
      BY <2>1 DEF Job
    <2> QED
      BY <1>2, <2>3, <2>4
  <1>3. CASE j.kind \notin {"edit", "clear", "reset", "reset_all"}
    <2> DEFINE at == IF j.todo = {} THEN "digest" ELSE "act"
    <2>1. After(j) = [j EXCEPT !.at = at, !.writes = {}]
      BY <1>3 DEF After
    <2>2. at \in {"act", "digest"} /\ at \in Location
      BY DEF Location
    <2> HIDE DEF at
    <2>3. After(j) \in Job
      BY <2>1, <2>2 DEF Job
    <2>4. /\ After(j).at = at /\ After(j).config = j.config
          /\ After(j).found = j.found /\ After(j).kind = j.kind
      BY <2>1 DEF Job
    <2> QED
      BY <2>2, <2>3, <2>4
  <1> QED
    BY <1>1, <1>2, <1>3

\* So p is not at a write, and holds discovered entries it held, or none.
LEMMA WrittenIs ==
    ASSUME TypeOK, NEW p \in Proc
    PROVE  /\ After(job[p]).found \in {None, job[p].found}
           /\ After(job[p]).at \notin {"write curated", "write generated", "load", "rows"}
  <1>1. PICK j \in Job : j = job[p]
    BY HeldTypes
  <1>2. \/ After(j) = Idle
        \/ After(j).at \in {"act", "digest"} /\ After(j).found = j.found
    BY AfterIs
  <1> QED
    BY <1>1, <1>2, IdleIs

\* The job of p after a change of its documents.
LEMMA ChangeIs ==
    ASSUME TypeOK, NEW p \in Proc, AllowedChange(p)
    PROVE  /\ job' \in [Proc -> Job] /\ \A q \in Proc \ {p} : job'[q] = job[q]
           /\ job[p].at = "act" /\ job'[p].at = "write curated"
           /\ job'[p].kind = job[p].kind
           /\ Allowed(p, job'[p].config, job'[p].found, job'[p].asked)
           /\ job'[p].config # job[p].config => "curated" \in job'[p].writes
           /\ job'[p].found # Seen(p) => "generated" \in job'[p].writes
           /\ memory' = [memory EXCEPT ![p] = job'[p].found]
           /\ UNCHANGED <<curated, generated, cache, begun, unwritten>>
  <1>1. PICK config \in Curated, found \in Doc, asked \in SUBSET Id,
             reset \in SUBSET Provider, todo \in SUBSET Provider :
          /\ Allowed(p, config, found, asked)
          /\ Change(p, config, found, asked, reset, todo)
    BY DEF AllowedChange
  <1> DEFINE writes == (IF config # job[p].config THEN {"curated"} ELSE {})
                         \cup (IF found # Seen(p) THEN {"generated"} ELSE {})
             j == [job[p] EXCEPT !.config = config, !.found = found, !.writes = writes,
                                 !.asked = asked, !.reset = reset, !.todo = todo,
                                 !.at = "write curated"]
  <1>2. /\ job' = [job EXCEPT ![p] = j] /\ memory' = [memory EXCEPT ![p] = found]
        /\ UNCHANGED <<curated, generated, cache, begun, unwritten>>
    BY <1>1 DEF Change, TypeOK
  <1>3. /\ writes \subseteq {"curated", "generated"}
        /\ config # job[p].config => "curated" \in writes
        /\ found # Seen(p) => "generated" \in writes
    OBVIOUS
  <1> HIDE DEF writes
  <1>4. job[p] \in Job /\ job[p].at = "act"
    BY HeldTypes DEF AllowedChange
  <1>5. /\ j \in Job /\ j.at = "write curated" /\ j.kind = job[p].kind
        /\ j.config = config /\ j.found = found /\ j.asked = asked /\ j.writes = writes
    BY <1>3, <1>4 DEF Job, Location
  <1> HIDE DEF j
  <1>6. /\ job' \in [Proc -> Job] /\ job'[p] = j
        /\ \A q \in Proc \ {p} : job'[q] = job[q]
    BY <1>2, <1>5, JobPut
  <1> QED
    BY <1>1, <1>2, <1>3, <1>4, <1>5, <1>6

\* What p holds next decides for all of them, if the others keep theirs.
LEMMA OneHolds ==
    ASSUME DocsInv, NEW p \in Proc,
           job' \in [Proc -> Job], \A q \in Proc \ {p} : job'[q] = job[q],
           memory' \in [Proc -> Doc \cup {None}],
           \A q \in Proc : memory'[q] # None => MarkedDoc(memory'[q]),
           generated' \in Doc /\ MarkedDoc(generated'),
           curated' \in Curated,
           cache' = None \/ cache' \in [digest : Digest, rows : Doc],
           begun' \in 0..MaxCommands, unwritten' \in BOOLEAN,
           job'[p].found # None => MarkedDoc(job'[p].found),
           job'[p].at \in {"write curated", "write generated"} => job'[p].found # None,
           job'[p].at \in {"load", "rows"} => job'[p].digest \in Digest
    PROVE  DocsInv'
  <1>1. TypeOK'
    BY DEF TypeOK
  <1>2. \A q \in Proc : job'[q].found # None => MarkedDoc(job'[q].found)
    BY DEF DocsInv, AllMarked
  <1>3. \A q \in Proc :
           /\ job'[q].at \in {"write curated", "write generated"} => job'[q].found # None
           /\ job'[q].at \in {"load", "rows"} => job'[q].digest \in Digest
    BY DEF DocsInv, InHand, Writing
  <1>4. AllMarked'
    BY <1>2 DEF AllMarked, MarkedDoc, Names
  <1>5. InHand'
    BY <1>3 DEF InHand, Writing
  <1> QED
    BY <1>1, <1>4, <1>5 DEF DocsInv

\* What a step leaves alone.
LEMMA StaysHeld ==
    ASSUME DocsInv
    PROVE  /\ TypeOK /\ curated \in Curated
           /\ generated \in Doc /\ MarkedDoc(generated)
           /\ cache = None \/ cache \in [digest : Digest, rows : Doc]
           /\ begun \in 0..MaxCommands /\ unwritten \in BOOLEAN
           /\ memory \in [Proc -> Doc \cup {None}]
           /\ \A q \in Proc : memory[q] # None => MarkedDoc(memory[q])
           /\ \A q \in Proc : job[q].found # None => MarkedDoc(job[q].found)
           /\ \A q \in Proc : MarkedDoc(Seen(q))
  BY DEF DocsInv, TypeOK, AllMarked, Seen

\* A process parses another catalog, or forgets it.
LEMMA MemoryPut ==
    ASSUME DocsInv, NEW p \in Proc, NEW doc \in Doc \cup {None},
           doc # None => MarkedDoc(doc), memory' = [memory EXCEPT ![p] = doc]
    PROVE  /\ memory' \in [Proc -> Doc \cup {None}] /\ memory'[p] = doc
           /\ \A q \in Proc : memory'[q] # None => MarkedDoc(memory'[q])
  BY StaysHeld

\* A command starts with the models.yaml it loads, and parses nothing yet.
LEMMA StartIs ==
    ASSUME TypeOK, NEW p \in Proc, Start(p)
    PROVE  /\ job[p].at = "idle" /\ (Overlap \/ \A q \in Proc : job[q].at = "idle")
           /\ job' \in [Proc -> Job] /\ \A q \in Proc \ {p} : job'[q] = job[q]
           /\ job'[p].at \in {"digest", "act"}
           /\ job'[p].config = curated /\ job'[p].found = None
           /\ begun' \in 0..MaxCommands
           /\ \/ memory' = [memory EXCEPT ![p] = None] /\ unwritten' = unwritten
              \/ /\ unwritten' = (unwritten \/ memory[p] \notin {None, generated})
                 /\ memory' = memory
           /\ UNCHANGED <<curated, generated, cache>>
  <1>1. PICK kind \in Kind, reset \in SUBSET Provider, todo \in SUBSET Provider :
           Begin(p, kind, reset, todo)
    BY CatalogAssumption DEF Start, Kind
  <1> DEFINE at == IF kind \in {"query", "rebuild"} THEN "digest" ELSE "act"
             j == [Idle EXCEPT !.at = at, !.kind = kind, !.config = curated,
                               !.reset = reset, !.todo = todo]
  <1>2. job' = [job EXCEPT ![p] = j]
    BY <1>1 DEF Begin
  <1>3. at \in {"digest", "act"} /\ at \in Location
    BY DEF Location
  <1> HIDE DEF at
  <1>4. /\ j \in Job /\ j.at = at /\ j.config = curated /\ j.found = None
    BY <1>3, HeldTypes DEF Idle, Job
  <1> HIDE DEF j
  <1>5. /\ job' \in [Proc -> Job] /\ job'[p] = j
        /\ \A q \in Proc \ {p} : job'[q] = job[q]
    BY <1>2, <1>4, JobPut
  <1>6. begun' \in 0..MaxCommands
    BY <1>1, CatalogAssumption DEF Begin, TypeOK
  <1> QED
    BY <1>1, <1>3, <1>4, <1>5, <1>6 DEF Begin

\* A command that ends.
LEMMA EndIs ==
    ASSUME TypeOK, NEW p \in Proc, End(p)
    PROVE  /\ job' \in [Proc -> Job] /\ job'[p] = Idle
           /\ \A q \in Proc \ {p} : job'[q] = job[q]
  BY JobPut, NothingIsDoc DEF End

\* A command that goes on after its last write.
LEMMA ProceedIs ==
    ASSUME TypeOK, NEW p \in Proc, Proceed(p)
    PROVE  /\ job' \in [Proc -> Job] /\ job'[p] = After(job[p])
           /\ \A q \in Proc \ {p} : job'[q] = job[q]
  <1>1. job' = [job EXCEPT ![p] = After(job[p])]
    BY DEF Proceed, TypeOK
  <1>2. After(job[p]) \in Job
    BY HeldTypes, AfterIs
  <1> QED
    BY <1>1, <1>2, JobPut

\* A command that goes to another location.
LEMMA GotoIs ==
    ASSUME TypeOK, NEW p \in Proc, NEW at \in Location, Goto(p, at)
    PROVE  /\ job' \in [Proc -> Job]
           /\ \A q \in Proc \ {p} : job'[q] = job[q]
           /\ job'[p] = [job[p] EXCEPT !.at = at] /\ job'[p].at = at
           /\ job'[p].found = job[p].found /\ job'[p].config = job[p].config
           /\ job'[p].writes = job[p].writes /\ job'[p].kind = job[p].kind
           /\ job'[p].digest = job[p].digest /\ job'[p].asked = job[p].asked
  <1> DEFINE j == [job[p] EXCEPT !.at = at]
  <1>1. job' = [job EXCEPT ![p] = j]
    BY DEF Goto, TypeOK
  <1>2. /\ j \in Job /\ j.at = at
        /\ j.found = job[p].found /\ j.config = job[p].config
        /\ j.writes = job[p].writes /\ j.kind = job[p].kind
        /\ j.digest = job[p].digest /\ j.asked = job[p].asked
    BY HeldTypes DEF Job
  <1> HIDE DEF j
  <1>3. /\ job' \in [Proc -> Job] /\ job'[p] = j
        /\ \A q \in Proc \ {p} : job'[q] = job[q]
    BY <1>1, <1>2, JobPut
  <1> QED
    BY <1>2, <1>3 DEF j

\* A provider that failed leaves a refresh of all with the others.
LEMMA RefreshFailsIs ==
    ASSUME TypeOK, NEW p \in Proc, RefreshFails(p)
    PROVE  /\ job' \in [Proc -> Job] /\ \A q \in Proc \ {p} : job'[q] = job[q]
           /\ job[p].at = "act"
           /\ \/ job'[p] = Idle
              \/ /\ job'[p].at \in {"act", "digest"}
                 /\ job'[p].found = job[p].found /\ job'[p].config = job[p].config
                 /\ job'[p].kind = job[p].kind
           /\ UNCHANGED <<curated, generated, cache, memory, begun, unwritten>>
  <1>1. PICK s \in job[p].todo :
          IF job[p].kind = "refresh" THEN End(p)
          ELSE job' = [job EXCEPT ![p] =
                         [@ EXCEPT !.todo = job[p].todo \ {s},
                                   !.at = IF job[p].todo = {s} THEN "digest" ELSE "act"]]
    BY DEF RefreshFails
  <1>2. /\ job[p].at = "act"
        /\ UNCHANGED <<curated, generated, cache, memory, begun, unwritten>>
    BY DEF RefreshFails, Refreshing
  <1>3. CASE job[p].kind = "refresh"
    BY <1>1, <1>2, <1>3, EndIs
  <1>4. CASE job[p].kind # "refresh"
    <2> DEFINE at == IF job[p].todo = {s} THEN "digest" ELSE "act"
               todo == job[p].todo \ {s}
               j == [job[p] EXCEPT !.todo = todo, !.at = at]
    <2>1. job' = [job EXCEPT ![p] = j]
      BY <1>1, <1>4 DEF TypeOK
    <2>2. at \in {"act", "digest"} /\ at \in Location /\ todo \subseteq Provider
      BY <1>2, HeldTypes DEF Location
    <2> HIDE DEF at, todo
    <2>3. /\ j \in Job /\ j.at = at /\ j.found = job[p].found
          /\ j.config = job[p].config /\ j.kind = job[p].kind
      BY <2>2, HeldTypes DEF Job
    <2> HIDE DEF j
    <2>4. /\ job' \in [Proc -> Job] /\ job'[p] = j
          /\ \A q \in Proc \ {p} : job'[q] = job[q]
      BY <2>1, <2>3, JobPut
    <2> QED
      BY <1>2, <2>2, <2>3, <2>4
  <1> QED
    BY <1>3, <1>4

\* The digest is of the models.yaml in memory and of the discovered file.
LEMMA TakeDigestIs ==
    ASSUME TypeOK, NEW p \in Proc, TakeDigest(p)
    PROVE  /\ job' \in [Proc -> Job] /\ \A q \in Proc \ {p} : job'[q] = job[q]
           /\ job[p].at = "digest" /\ job'[p].at \in {"load", "rows"}
           /\ job'[p].digest = [models |-> Own(p), generated |-> generated]
           /\ job'[p].digest \in Digest
           /\ job'[p].found = job[p].found /\ job'[p].config = job[p].config
           /\ job'[p].kind = job[p].kind /\ job'[p].writes = job[p].writes
           /\ UNCHANGED <<curated, generated, cache, memory, begun, unwritten>>
  <1> DEFINE at == IF job[p].kind = "query" THEN "load" ELSE "rows"
             digest == [models |-> Own(p), generated |-> generated]
             j == [job[p] EXCEPT !.digest = digest, !.at = at]
  <1>1. /\ job' = [job EXCEPT ![p] = j] /\ job[p].at = "digest"
        /\ UNCHANGED <<curated, generated, cache, memory, begun, unwritten>>
    BY DEF TakeDigest, TypeOK
  <1>2. at \in {"load", "rows"} /\ at \in Location
    BY DEF Location
  <1>3. digest \in Digest
    BY HeldTypes DEF Digest
  <1> HIDE DEF at, digest
  <1>4. /\ j \in Job /\ j.at = at /\ j.digest = digest /\ j.found = job[p].found
        /\ j.config = job[p].config /\ j.kind = job[p].kind /\ j.writes = job[p].writes
    BY <1>2, <1>3, HeldTypes DEF Job
  <1> HIDE DEF j
  <1>5. /\ job' \in [Proc -> Job] /\ job'[p] = j
        /\ \A q \in Proc \ {p} : job'[q] = job[q]
    BY <1>1, <1>4, JobPut
  <1> QED
    BY <1>1, <1>2, <1>3, <1>4, <1>5 DEF digest

\* The discovered entries a process sees stay with it.
LEMMA BuildRowsIs ==
    ASSUME DocsInv, NEW p \in Proc, BuildRows(p)
    PROVE  /\ job' \in [Proc -> Job] /\ job'[p] = Idle
           /\ \A q \in Proc \ {p} : job'[q] = job[q]
           /\ job[p].at = "rows" /\ job[p].digest \in Digest
           /\ \/ cache' = [digest |-> job[p].digest, rows |-> Overlay(Seen(p), Own(p))]
              \/ cache' = cache
           /\ cache' = None \/ cache' \in [digest : Digest, rows : Doc]
           /\ memory' \in [Proc -> Doc \cup {None}]
           /\ \A q \in Proc : memory'[q] # None => MarkedDoc(memory'[q])
           /\ UNCHANGED <<curated, generated, begun, unwritten>>
  <1> DEFINE rows == Overlay(Seen(p), Own(p))
             doc == IF job[p].found = None THEN Seen(p) ELSE memory[p]
  <1>1. /\ job[p].at = "rows" /\ End(p)
        /\ cache' = [digest |-> job[p].digest, rows |-> rows] \/ cache' = cache
        /\ UNCHANGED <<curated, generated, begun, unwritten>>
    BY DEF BuildRows
  <1>2. memory' = [memory EXCEPT ![p] = doc]
    BY StaysHeld DEF BuildRows
  <1>3. job[p].digest \in Digest
    BY <1>1 DEF DocsInv, InHand
  <1>4. rows \in Doc
    BY StaysHeld, HeldTypes, OverlayIsDoc
  <1>5. doc \in Doc \cup {None} /\ (doc # None => MarkedDoc(doc))
    BY StaysHeld, HeldTypes
  <1>6. /\ job' \in [Proc -> Job] /\ job'[p] = Idle
        /\ \A q \in Proc \ {p} : job'[q] = job[q]
    BY <1>1, EndIs, StaysHeld
  <1> HIDE DEF rows, doc
  <1>7. cache' = None \/ cache' \in [digest : Digest, rows : Doc]
    BY <1>1, <1>3, <1>4, StaysHeld
  <1>8. /\ memory' \in [Proc -> Doc \cup {None}]
        /\ \A q \in Proc : memory'[q] # None => MarkedDoc(memory'[q])
    BY <1>2, <1>5, MemoryPut
  <1> QED
    BY <1>1, <1>3, <1>6, <1>7, <1>8 DEF rows

\* The initial documents are discovery's own and the user's own.
LEMMA InitDocs == Init => DocsInv
  <1> SUFFICES ASSUME Init PROVE DocsInv
    OBVIOUS
  <1>1. generated \in Doc /\ MarkedDoc(generated)
    <2>1. PICK found \in {{}, {i \in Id : Source[i] # Local}} :
            generated = [n \in Name |->
              IF \E i \in found : n = Alias[i][1]
              THEN Discovered(CHOOSE i \in found : n = Alias[i][1], "old", TRUE)
              ELSE None]
      BY DEF Init
    <2>2. found \subseteq Id
      BY <2>1
    <2>3. ASSUME NEW n \in Name, \E i \in found : n = Alias[i][1]
          PROVE  /\ generated[n] \in Entry
                 /\ generated[n].mark
      <3> DEFINE one == CHOOSE i \in found : n = Alias[i][1]
      <3>1. one \in Id
        BY <2>2, <2>3
      <3>2. generated[n] = Discovered(one, "old", TRUE)
        BY <2>1, <2>3
      <3> HIDE DEF one
      <3> QED
        BY <3>1, <3>2, DiscoveredEntry
    <2>4. \A n \in Name : generated[n] \in Entry \cup {None}
      BY <2>1, <2>3
    <2>5. generated \in Doc
      BY <2>1, <2>4 DEF Doc
    <2> QED
      BY <2>1, <2>3, <2>5 DEF MarkedDoc, Names
  <1>2. curated \in Curated
    <2>1. CASE curated = [models |-> Nothing, default |-> None]
      BY <2>1, NothingIsDoc DEF Curated
    <2>2. CASE curated # [models |-> Nothing, default |-> None]
      <3>1. PICK n \in Name, i \in Id, note \in BOOLEAN :
              curated = [models |-> [Nothing EXCEPT ![n] =
                             [Discovered(i, "old", TRUE) EXCEPT
                                !.mark = FALSE, !.note = note, !.human = "edited"]],
                         default |-> n]
        BY <2>2 DEF Init
      <3> DEFINE e == [Discovered(i, "old", TRUE) EXCEPT
                         !.mark = FALSE, !.note = note, !.human = "edited"]
      <3>2. e \in Entry
        BY DEF Discovered, Entry
      <3> HIDE DEF e
      <3>3. [Nothing EXCEPT ![n] = e] \in Doc
        BY <3>2, NothingIsDoc, DocPut
      <3> QED
        BY <3>1, <3>3 DEF e, Curated
    <2> QED
      BY <2>1, <2>2
  <1>3. /\ cache = None /\ begun = 0 /\ unwritten = FALSE
        /\ \A p \in Proc : job[p] = Idle /\ memory[p] = None
        /\ job \in [Proc -> Job] /\ memory \in [Proc -> Doc \cup {None}]
    BY NothingIsDoc DEF Init
  <1>4. begun \in 0..MaxCommands
    BY <1>3, CatalogAssumption
  <1>5. TypeOK
    BY <1>1, <1>2, <1>3, <1>4 DEF TypeOK
  <1>6. AllMarked /\ InHand
    BY <1>1, <1>3, IdleIs DEF AllMarked, InHand, Writing
  <1> QED
    BY <1>5, <1>6 DEF DocsInv

\* However commands overlap, what is discovered stays marked.
LEMMA NextDocs ==
    ASSUME DocsInv, [Next]_vars
    PROVE  DocsInv'
  <1>0. TypeOK
    BY DEF DocsInv
  <1>1. ASSUME NEW p \in Proc, Start(p)
        PROVE  DocsInv'
    <2>1. /\ memory' \in [Proc -> Doc \cup {None}]
          /\ \A q \in Proc : memory'[q] # None => MarkedDoc(memory'[q])
      <3>1. CASE memory' = [memory EXCEPT ![p] = None]
        BY <3>1, MemoryPut
      <3>2. CASE memory' = memory
        BY <3>2, StaysHeld
      <3> QED
        BY <1>0, <1>1, <3>1, <3>2, StartIs
    <2>2. unwritten' \in BOOLEAN
      BY <1>0, <1>1, StartIs, StaysHeld
    <2> QED
      BY <1>0, <1>1, <2>1, <2>2, StartIs, StaysHeld, OneHolds
  <1>2. ASSUME NEW p \in Proc, AllowedChange(p)
        PROVE  DocsInv'
    <2>1. MarkedDoc(job'[p].found) /\ job'[p].found \in Doc
      BY <1>0, <1>2, ChangeIs, StaysHeld DEF Allowed
    <2>2. /\ memory' \in [Proc -> Doc \cup {None}]
          /\ \A q \in Proc : memory'[q] # None => MarkedDoc(memory'[q])
      <3>1. PICK doc \in Doc : doc = job'[p].found
        BY <2>1
      <3> QED
        BY <1>0, <1>2, <2>1, <3>1, ChangeIs, MemoryPut
    <2>3. job'[p].found # None
      BY <2>1, NoneAssumption
    <2> QED
      BY <1>0, <1>2, <2>1, <2>2, <2>3, ChangeIs, StaysHeld, OneHolds
  <1>3. ASSUME NEW p \in Proc, Refuse(p) \/ LoadCache(p) \/ Crash(p) \/ RefreshFails(p)
        PROVE  DocsInv'
    <2>1. CASE Refuse(p)
      <3>1. /\ job' \in [Proc -> Job] /\ job'[p] = Idle
            /\ \A q \in Proc \ {p} : job'[q] = job[q]
        BY <1>0, <2>1, EndIs DEF Refuse
      <3>2. UNCHANGED <<curated, generated, cache, memory, begun, unwritten>>
        BY <2>1 DEF Refuse
      <3> QED
        BY <3>1, <3>2, StaysHeld, OneHolds, IdleIs
    <2>2. CASE LoadCache(p) /\ End(p)
      <3>1. /\ job' \in [Proc -> Job] /\ job'[p] = Idle
            /\ \A q \in Proc \ {p} : job'[q] = job[q]
        BY <1>0, <2>2, EndIs
      <3>2. UNCHANGED <<curated, generated, cache, memory, begun, unwritten>>
        BY <2>2 DEF LoadCache
      <3> QED
        BY <3>1, <3>2, StaysHeld, OneHolds, IdleIs
    <2>3. CASE LoadCache(p) /\ Goto(p, "rows")
      <3>1. /\ job' \in [Proc -> Job] /\ job'[p].at = "rows"
            /\ job'[p].found = job[p].found /\ job'[p].digest = job[p].digest
            /\ \A q \in Proc \ {p} : job'[q] = job[q]
        BY <1>0, <2>3, GotoIs DEF Location
      <3>2. /\ job[p].at = "load"
            /\ UNCHANGED <<curated, generated, cache, memory, begun, unwritten>>
        BY <2>3 DEF LoadCache
      <3>3. job[p].digest \in Digest
        BY <3>2 DEF DocsInv, InHand
      <3> QED
        BY <3>1, <3>2, <3>3, StaysHeld, OneHolds
    <2>4. CASE Crash(p)
      <3>1. /\ job' \in [Proc -> Job] /\ job'[p] = Idle
            /\ \A q \in Proc \ {p} : job'[q] = job[q]
        BY <1>0, <2>4, EndIs DEF Crash
      <3>2. /\ memory' \in [Proc -> Doc \cup {None}]
            /\ \A q \in Proc : memory'[q] # None => MarkedDoc(memory'[q])
        BY <2>4, MemoryPut DEF Crash
      <3>3. UNCHANGED <<curated, generated, cache, begun, unwritten>>
        BY <2>4 DEF Crash
      <3> QED
        BY <3>1, <3>2, <3>3, StaysHeld, OneHolds, IdleIs
    <2>5. CASE RefreshFails(p)
      <3>1. /\ job' \in [Proc -> Job] /\ \A q \in Proc \ {p} : job'[q] = job[q]
            /\ \/ job'[p] = Idle
               \/ job'[p].at \in {"act", "digest"} /\ job'[p].found = job[p].found
            /\ UNCHANGED <<curated, generated, cache, memory, begun, unwritten>>
        BY <1>0, <2>5, RefreshFailsIs
      <3>2. /\ job'[p].found # None => MarkedDoc(job'[p].found)
            /\ job'[p].at \notin {"write curated", "write generated", "load", "rows"}
        BY <3>1, IdleIs, StaysHeld
      <3> QED
        BY <3>1, <3>2, StaysHeld, OneHolds
    <2> QED
      BY <1>3, <2>1, <2>2, <2>3, <2>4, <2>5 DEF LoadCache
  <1>4. ASSUME NEW p \in Proc, Write(p)
        PROVE  DocsInv'
    <2>1. CASE job[p].at = "write curated"
      <3>1. /\ curated' = IF "curated" \in job[p].writes THEN job[p].config ELSE curated
            /\ Goto(p, "write generated")
            /\ UNCHANGED <<generated, cache, memory, begun, unwritten>>
        BY <1>4, <2>1 DEF Write
      <3>2. curated' \in Curated
        BY <1>0, <3>1, HeldTypes
      <3>3. /\ job' \in [Proc -> Job] /\ job'[p].at = "write generated"
            /\ job'[p].found = job[p].found
            /\ \A q \in Proc \ {p} : job'[q] = job[q]
        BY <1>0, <3>1, GotoIs DEF Location
      <3>4. job[p].found # None
        BY <2>1 DEF DocsInv, InHand, Writing
      <3> QED
        BY <3>1, <3>2, <3>3, <3>4, StaysHeld, OneHolds
    <2>2. CASE job[p].at # "write curated"
      <3>1. /\ job[p].at = "write generated"
            /\ IF "generated" \in job[p].writes
               THEN generated' = job[p].found /\ memory' = [q \in Proc |-> None]
               ELSE UNCHANGED <<generated, memory>>
            /\ Proceed(p)
            /\ UNCHANGED <<curated, cache, begun, unwritten>>
        BY <1>4, <2>2 DEF Write
      <3>2. job[p].found # None
        BY <3>1 DEF DocsInv, InHand, Writing
      <3>3. job[p].found \in Doc /\ MarkedDoc(job[p].found)
        BY <1>0, <3>2, HeldTypes, StaysHeld
      <3>4. /\ generated' \in Doc /\ MarkedDoc(generated')
            /\ memory' \in [Proc -> Doc \cup {None}]
            /\ \A q \in Proc : memory'[q] # None => MarkedDoc(memory'[q])
        BY <3>1, <3>3, StaysHeld
      <3>5. /\ job' \in [Proc -> Job] /\ job'[p] = After(job[p])
            /\ \A q \in Proc \ {p} : job'[q] = job[q]
        BY <1>0, <3>1, ProceedIs
      <3>6. /\ job'[p].found # None => MarkedDoc(job'[p].found)
            /\ job'[p].at \notin {"write curated", "write generated", "load", "rows"}
        BY <1>0, <3>3, <3>5, WrittenIs
      <3> QED
        BY <3>1, <3>4, <3>5, <3>6, StaysHeld, OneHolds
    <2> QED
      BY <2>1, <2>2
  <1>5. ASSUME NEW p \in Proc, WriteFails(p)
        PROVE  DocsInv'
    <2>1. /\ Proceed(p) \/ End(p)
          /\ unwritten' \in BOOLEAN
          /\ UNCHANGED <<curated, generated, cache, memory, begun>>
      BY <1>5, StaysHeld DEF WriteFails
    <2>2. /\ job' \in [Proc -> Job] /\ job'[p] \in {After(job[p]), Idle}
          /\ \A q \in Proc \ {p} : job'[q] = job[q]
      BY <1>0, <2>1, ProceedIs, EndIs
    <2>3. /\ job'[p].found # None => MarkedDoc(job'[p].found)
          /\ job'[p].at \notin {"write curated", "write generated", "load", "rows"}
      BY <1>0, <2>2, WrittenIs, StaysHeld, IdleIs
    <2> QED
      BY <2>1, <2>2, <2>3, StaysHeld, OneHolds
  <1>6. ASSUME NEW p \in Proc, TakeDigest(p)
        PROVE  DocsInv'
    <2>1. /\ job' \in [Proc -> Job] /\ \A q \in Proc \ {p} : job'[q] = job[q]
          /\ job'[p].at \in {"load", "rows"} /\ job'[p].digest \in Digest
          /\ job'[p].found = job[p].found
          /\ UNCHANGED <<curated, generated, cache, memory, begun, unwritten>>
      BY <1>0, <1>6, TakeDigestIs
    <2>2. job'[p].found # None => MarkedDoc(job'[p].found)
      BY <2>1, StaysHeld
    <2> QED
      BY <2>1, <2>2, StaysHeld, OneHolds
  <1>7. ASSUME NEW p \in Proc, BuildRows(p)
        PROVE  DocsInv'
    BY <1>7, BuildRowsIs, StaysHeld, OneHolds, IdleIs
  <1>8. ASSUME ClearMaterialized
        PROVE  DocsInv'
    BY <1>8 DEF ClearMaterialized, DocsInv, TypeOK, AllMarked, InHand, Writing,
                MarkedDoc, Names
  <1>9. ASSUME UNCHANGED vars
        PROVE  DocsInv'
    BY <1>9 DEF vars, DocsInv, TypeOK, AllMarked, InHand, Writing, MarkedDoc, Names
  <1> QED
    BY <1>0, <1>1, <1>2, <1>3, <1>4, <1>5, <1>6, <1>7, <1>8, <1>9,
       EditAllowed, ClearAllowed, RefreshAllowed DEF Next

-----------------------------------------------------------------------------
(* Commands that take turns.                                               *)

\* Entries that differ at most in what the provider says.
LEMMA SameButMeta ==
    ASSUME NEW e \in Entry, NEW f \in Entry
    PROVE  [f EXCEPT !.meta = e.meta] = e <=>
              /\ f.id = e.id /\ f.mark = e.mark /\ f.note = e.note
              /\ f.human = e.human /\ f.enabled = e.enabled
  BY DEF Entry

\* What was reviewed stays so while neither side changes.
LEMMA StillReviewed ==
    ASSUME NEW p \in Proc, curated' = curated,
           Reviewed(curated, job[p].config), job'[p].config = job[p].config
    PROVE  Reviewed(curated, job[p].config)'
  <1>1. Reviewed(curated', job'[p].config)
    OBVIOUS
  <1> QED
    BY <1>1 DEF Reviewed, Names

\* A models.yaml has what the user wrote in it.
LEMMA ReviewedItself ==
    ASSUME NEW c \in Curated
    PROVE  Reviewed(c, c)
  <1>1. c.models \in Doc
    BY DEF Curated
  <1>2. ASSUME NEW n \in Names(c.models)
        PROVE  [c.models[n] EXCEPT !.meta = c.models[n].meta] = c.models[n]
    <2>1. c.models[n] \in Entry
      BY <1>1, <1>2, EntriesOf DEF Names
    <2> QED
      BY <2>1, SameButMeta
  <1> QED
    BY <1>2 DEF Reviewed, Names

\* Of two refreshes the second keeps what the first one kept.
LEMMA ReviewedAgain ==
    ASSUME NEW a \in Curated, NEW b \in Curated, NEW c \in Curated,
           Reviewed(a, b), Reviewed(b, c)
    PROVE  Reviewed(a, c)
  <1>1. a.models \in Doc /\ b.models \in Doc /\ c.models \in Doc
    BY DEF Curated
  <1>2. ASSUME NEW n \in Names(a.models), ~Imported(a.models[n])
        PROVE  /\ c.models[n] # None
               /\ [c.models[n] EXCEPT !.meta = a.models[n].meta] = a.models[n]
    <2>0. n \in Name
      BY DEF Names
    <2>1. b.models[n] # None
          /\ [b.models[n] EXCEPT !.meta = a.models[n].meta] = a.models[n]
      BY <1>2 DEF Reviewed
    <2>2. a.models[n] \in Entry /\ b.models[n] \in Entry
      BY <1>1, <2>0, <2>1, EntriesOf DEF Names
    <2>3. ~Imported(b.models[n]) /\ n \in Names(b.models)
      BY <1>2, <2>0, <2>1, <2>2, SameButMeta DEF Imported, Names
    <2>4. c.models[n] # None
          /\ [c.models[n] EXCEPT !.meta = b.models[n].meta] = b.models[n]
      BY <2>3 DEF Reviewed
    <2>5. c.models[n] \in Entry
      BY <1>1, <2>0, <2>4, EntriesOf
    <2> QED
      BY <2>1, <2>2, <2>4, <2>5, SameButMeta
  <1> QED
    BY <1>2 DEF Reviewed

\* The one that is at work keeps its turn.
LEMMA TurnKept ==
    ASSUME Turns, NEW p \in Proc, job[p].at # "idle" \/ \A q \in Proc : job[q].at = "idle",
           \A q \in Proc \ {p} : job'[q] = job[q]
    PROVE  Turns' /\ \A q \in Proc \ {p} : UnderWay(q)'
  <1>1. \A q \in Proc \ {p} : job'[q].at = "idle"
    BY DEF Turns
  <1> QED
    BY <1>1 DEF Turns, UnderWay

\* So its job decides.
LEMMA TurnHolds ==
    ASSUME DocsInv', Turns, NEW p \in Proc,
           job[p].at # "idle" \/ \A q \in Proc : job[q].at = "idle",
           \A q \in Proc \ {p} : job'[q] = job[q],
           CacheOfDigest', UnderWay(p)'
    PROVE  TurnsInv'
  <1>1. Turns' /\ \A q \in Proc \ {p} : UnderWay(q)'
    BY TurnKept
  <1>2. \A q \in Proc : UnderWay(q)'
    BY <1>1
  <1> QED
    BY <1>1, <1>2 DEF TurnsInv

\* A cache that is left alone is as good as it was.
LEMMA CacheStays ==
    ASSUME CacheOfDigest, cache' = cache \/ cache' = None, unwritten => unwritten'
    PROVE  CacheOfDigest'
  BY DEF CacheOfDigest

\* Of a process without a command nothing is asked.
LEMMA IdleUnderWay ==
    ASSUME NEW p \in Proc, job'[p] = Idle
    PROVE  UnderWay(p)'
  BY IdleIs DEF UnderWay

\* A command starts with the files as they are.
LEMMA StartTurn ==
    ASSUME TurnsInv, NEW p \in Proc, Start(p)
    PROVE  UnderWay(p)' /\ (unwritten => unwritten')
  <1>0. TypeOK
    BY DEF TurnsInv, DocsInv
  <1>1. /\ job'[p].at \in {"digest", "act"}
        /\ job'[p].config = curated /\ job'[p].found = None
        /\ UNCHANGED <<curated, generated, cache>>
    BY <1>0, StartIs
  <1>2. /\ unwritten => unwritten'
        /\ ~unwritten' => memory'[p] \in {None, generated}
    <2>1. CASE memory' = [memory EXCEPT ![p] = None] /\ unwritten' = unwritten
      BY <1>0, <2>1 DEF TypeOK
    <2>2. CASE unwritten' = (unwritten \/ memory[p] \notin {None, generated})
               /\ memory' = memory
      BY <2>2
    <2> QED
      BY <1>0, <2>1, <2>2, StartIs
  <1>3. Reviewed(curated, curated)
    BY <1>0, HeldTypes, ReviewedItself
  <1>4. CuratedHeld(p)'
    BY <1>1, <1>3 DEF CuratedHeld, Reviewed, Names
  <1>5. ~unwritten' => GeneratedHeld(p)'
    BY <1>1, <1>2 DEF GeneratedHeld, Writing, Seen
  <1> QED
    BY <1>2, <1>4, <1>5 DEF UnderWay

\* A change loses nothing that is not asked for, as the files were not behind.
LEMMA ChangeTurn ==
    ASSUME TurnsInv, NEW p \in Proc, AllowedChange(p)
    PROVE  UnderWay(p)'
  <1>0. TypeOK
    BY DEF TurnsInv, DocsInv
  <1>1. /\ job[p].at = "act" /\ job'[p].at = "write curated"
        /\ job'[p].kind = job[p].kind
        /\ Allowed(p, job'[p].config, job'[p].found, job'[p].asked)
        /\ job'[p].config # job[p].config => "curated" \in job'[p].writes
        /\ job'[p].found # Seen(p) => "generated" \in job'[p].writes
        /\ UNCHANGED <<curated, generated, cache, begun, unwritten>>
    BY <1>0, ChangeIs
  <1>2. CuratedHeld(p) /\ (~unwritten => GeneratedHeld(p))
    BY <1>1 DEF TurnsInv, UnderWay
  <1>3. /\ job[p].kind # "refresh_all" \/ ~unwritten => job[p].config = curated
        /\ job[p].kind \in {"refresh", "refresh_all"} => Reviewed(curated, job[p].config)
    BY <1>1, <1>2 DEF CuratedHeld
  <1>4. job[p].kind \in {"refresh", "refresh_all"} => Reviewed(curated, job'[p].config)
    BY <1>0, <1>1, <1>3, HeldTypes, ReviewedAgain DEF Allowed
  <1>5. CuratedHeld(p)'
    BY <1>1, <1>3, <1>4 DEF CuratedHeld, Reviewed, Names
  <1>6. ~unwritten => Seen(p) = generated /\ Own(p) = curated.models
    BY <1>1, <1>2, <1>3 DEF GeneratedHeld, Writing, Own
  <1>7. ~unwritten =>
          /\ Ids(curated.models) \subseteq
               job'[p].asked \cup Ids(job'[p].config.models) \cup Ids(generated)
          /\ Ids(generated) \subseteq
               job'[p].asked \cup Ids(job'[p].config.models) \cup Ids(job'[p].found)
    BY <1>1, <1>6 DEF Allowed
  <1>8. ~unwritten => GeneratedHeld(p)'
    BY <1>1, <1>6, <1>7 DEF GeneratedHeld, Writing, Ids, Names
  <1> QED
    BY <1>1, <1>5, <1>8 DEF UnderWay

\* Another provider's failure changes no document in memory.
LEMMA RefreshFailsTurn ==
    ASSUME TurnsInv, NEW p \in Proc, RefreshFails(p)
    PROVE  UnderWay(p)'
  <1>0. TypeOK
    BY DEF TurnsInv, DocsInv
  <1>1. CASE job'[p] = Idle
    BY <1>1, IdleUnderWay
  <1>2. CASE job'[p] # Idle
    <2>1. /\ job[p].at = "act" /\ job'[p].at \in {"act", "digest"}
          /\ job'[p].found = job[p].found /\ job'[p].config = job[p].config
          /\ job'[p].kind = job[p].kind
          /\ UNCHANGED <<curated, generated, cache, memory, begun, unwritten>>
      BY <1>0, <1>2, RefreshFailsIs
    <2>2. CuratedHeld(p) /\ (~unwritten => GeneratedHeld(p))
      BY <2>1 DEF TurnsInv, UnderWay
    <2>3. CuratedHeld(p)'
      BY <2>1, <2>2, StillReviewed DEF CuratedHeld
    <2>4. ~unwritten => GeneratedHeld(p)'
      BY <2>1, <2>2 DEF GeneratedHeld, Writing, Seen
    <2> QED
      BY <2>1, <2>3, <2>4 DEF UnderWay
  <1> QED
    BY <1>1, <1>2

\* After the first write models.yaml is what the command has, or what it was.
LEMMA WriteCuratedTurn ==
    ASSUME TurnsInv, NEW p \in Proc, Write(p), job[p].at = "write curated"
    PROVE  UnderWay(p)'
  <1>0. TypeOK
    BY DEF TurnsInv, DocsInv
  <1>1. /\ curated' = IF "curated" \in job[p].writes THEN job[p].config ELSE curated
        /\ Goto(p, "write generated")
        /\ UNCHANGED <<generated, cache, memory, begun, unwritten>>
    BY DEF Write
  <1>2. /\ job'[p].at = "write generated"
        /\ job'[p].found = job[p].found /\ job'[p].config = job[p].config
        /\ job'[p].writes = job[p].writes /\ job'[p].kind = job[p].kind
        /\ job'[p].asked = job[p].asked
    BY <1>0, <1>1, GotoIs DEF Location
  <1>3. CuratedHeld(p) /\ (~unwritten => GeneratedHeld(p))
    BY DEF TurnsInv, UnderWay
  <1>4. Reviewed(job[p].config, job[p].config)
    BY <1>0, HeldTypes, ReviewedItself
  <1>5. CuratedHeld(p)'
    <2>1. (job[p].kind # "refresh_all" \/ ~unwritten) => job[p].config = curated'
      BY <1>1, <1>3 DEF CuratedHeld
    <2>2. PICK c \in Curated : c = curated'
      BY <1>0, <1>1, HeldTypes
    <2>3. job[p].kind \in {"refresh", "refresh_all"} => Reviewed(c, job[p].config)
      BY <1>1, <1>3, <1>4, <2>2 DEF CuratedHeld
    <2>4. job'[p].kind \in {"refresh", "refresh_all"} => Reviewed(curated', job'[p].config)
      BY <1>2, <2>2, <2>3
    <2>5. (job'[p].kind # "refresh_all" \/ ~unwritten') => job'[p].config = curated'
      BY <1>1, <1>2, <2>1
    <2> QED
      BY <2>4, <2>5 DEF CuratedHeld, Reviewed, Names
  <1>6. ~unwritten => GeneratedHeld(p)'
    <2>1. ~unwritten =>
             /\ "generated" \notin job[p].writes => job[p].found = generated
             /\ Ids(generated) \subseteq
                   job[p].asked \cup Ids(job[p].config.models) \cup Ids(job[p].found)
      BY <1>3 DEF GeneratedHeld, Writing
    <2>2. ~unwritten =>
             /\ "generated" \notin job'[p].writes => job'[p].found = generated'
             /\ Ids(generated') \subseteq
                   job'[p].asked \cup Ids(job'[p].config.models) \cup Ids(job'[p].found)
      BY <1>1, <1>2, <2>1
    <2> QED
      BY <1>2, <2>2 DEF GeneratedHeld, Writing, Ids, Names
  <1> QED
    BY <1>1, <1>5, <1>6 DEF UnderWay

\* After the second so are the discovered entries.
LEMMA WriteGeneratedTurn ==
    ASSUME TurnsInv, NEW p \in Proc, Write(p), job[p].at # "write curated"
    PROVE  UnderWay(p)'
  <1>0. TypeOK
    BY DEF TurnsInv, DocsInv
  <1>1. /\ job[p].at = "write generated"
        /\ IF "generated" \in job[p].writes
           THEN generated' = job[p].found /\ memory' = [q \in Proc |-> None]
           ELSE UNCHANGED <<generated, memory>>
        /\ Proceed(p)
        /\ UNCHANGED <<curated, cache, begun, unwritten>>
    BY DEF Write
  <1>2. job'[p] = After(job[p])
    BY <1>0, <1>1, ProceedIs
  <1>3. job[p].found # None
    BY <1>1 DEF TurnsInv, DocsInv, InHand, Writing
  <1>4. CuratedHeld(p) /\ (~unwritten => GeneratedHeld(p))
    BY <1>1 DEF TurnsInv, UnderWay
  <1>5. PICK j \in Job : j = job[p]
    BY <1>0, HeldTypes
  <1>6. CASE After(j) = Idle
    BY <1>2, <1>5, <1>6, IdleUnderWay
  <1>7. CASE After(j) # Idle
    <2>1. /\ After(j).at \in {"act", "digest"}
          /\ After(j).config = j.config /\ After(j).found = j.found
          /\ After(j).kind = j.kind \/ j.kind \in {"reset", "reset_all"}
          /\ j.kind = "refresh_all" => After(j).kind = "refresh_all"
      BY <1>7, AfterIs
    <2>2. /\ job'[p].at \in {"act", "digest"}
          /\ job'[p].config = job[p].config /\ job'[p].found = job[p].found
          /\ job'[p].kind = job[p].kind \/ job[p].kind \in {"reset", "reset_all"}
          /\ job[p].kind = "refresh_all" => job'[p].kind = "refresh_all"
      BY <1>2, <1>5, <2>1
    <2>3. job[p].kind # "refresh_all" \/ ~unwritten => job[p].config = curated
      BY <1>1, <1>4 DEF CuratedHeld
    <2>4. job'[p].kind \in {"refresh", "refresh_all"} => Reviewed(curated, job[p].config)
      <3>1. CASE job'[p].kind = job[p].kind
        BY <1>4, <3>1 DEF CuratedHeld
      <3>2. CASE job[p].kind \in {"reset", "reset_all"}
        BY <1>0, <2>3, <3>2, HeldTypes, ReviewedItself
      <3> QED
        BY <2>2, <3>1, <3>2
    <2>5. CuratedHeld(p)'
      BY <1>1, <2>2, <2>3, <2>4, StillReviewed DEF CuratedHeld
    <2>6. ~unwritten => GeneratedHeld(p)'
      BY <1>1, <1>3, <1>4, <2>2 DEF GeneratedHeld, Writing, Seen
    <2> QED
      BY <1>1, <2>5, <2>6 DEF UnderWay
  <1> QED
    BY <1>6, <1>7

\* A write that failed ends the command, or is told of in unwritten.
LEMMA WriteFailsTurn ==
    ASSUME TurnsInv, NEW p \in Proc, WriteFails(p)
    PROVE  UnderWay(p)' /\ (unwritten => unwritten')
  <1>0. TypeOK
    BY DEF TurnsInv, DocsInv
  <1>1. /\ IF job[p].kind = "refresh_all" THEN Proceed(p) ELSE End(p)
        /\ unwritten' = (unwritten \/ job[p].kind = "refresh_all")
        /\ job[p].at # "idle"
        /\ UNCHANGED <<curated, generated, cache, memory, begun>>
    BY DEF WriteFails
  <1>2. CASE job[p].kind # "refresh_all"
    BY <1>0, <1>1, <1>2, EndIs, IdleUnderWay
  <1>3. CASE job[p].kind = "refresh_all"
    <2>1. job'[p] = After(job[p]) /\ unwritten'
      BY <1>0, <1>1, <1>3, ProceedIs
    <2>2. PICK j \in Job : j = job[p]
      BY <1>0, HeldTypes
    <2>3. /\ After(j).kind = "refresh_all"
          /\ After(j).config = j.config \/ After(j) = Idle
      BY <1>3, <2>2, AfterIs
    <2>4. /\ job'[p].kind = "refresh_all"
          /\ job'[p].config = job[p].config
      BY <2>1, <2>2, <2>3, IdleIs
    <2>5. Reviewed(curated, job[p].config)
      BY <1>1, <1>3 DEF TurnsInv, UnderWay, CuratedHeld
    <2>6. CuratedHeld(p)'
      BY <1>1, <2>1, <2>4, <2>5, StillReviewed DEF CuratedHeld
    <2> QED
      BY <2>1, <2>6 DEF UnderWay
  <1> QED
    BY <1>1, <1>2, <1>3

\* The digest is taken of what the files hold.
LEMMA TakeDigestTurn ==
    ASSUME TurnsInv, NEW p \in Proc, TakeDigest(p)
    PROVE  UnderWay(p)'
  <1>0. TypeOK
    BY DEF TurnsInv, DocsInv
  <1>1. /\ job[p].at = "digest" /\ job'[p].at \in {"load", "rows"}
        /\ job'[p].digest = [models |-> Own(p), generated |-> generated]
        /\ job'[p].found = job[p].found /\ job'[p].config = job[p].config
        /\ job'[p].kind = job[p].kind
        /\ UNCHANGED <<curated, generated, cache, memory, begun, unwritten>>
    BY <1>0, TakeDigestIs
  <1>2. CuratedHeld(p) /\ (~unwritten => GeneratedHeld(p))
    BY <1>1 DEF TurnsInv, UnderWay
  <1>3. CuratedHeld(p)'
    BY <1>1, <1>2, StillReviewed DEF CuratedHeld
  <1>4. ~unwritten => GeneratedHeld(p)'
    BY <1>1, <1>2 DEF GeneratedHeld, Writing, Seen, Own
  <1> QED
    BY <1>1, <1>3, <1>4 DEF UnderWay

\* A cache that is another one's is built anew, of the same documents.
LEMMA LoadCacheTurn ==
    ASSUME TurnsInv, NEW p \in Proc, LoadCache(p)
    PROVE  UnderWay(p)'
  <1>0. TypeOK
    BY DEF TurnsInv, DocsInv
  <1>1. /\ job[p].at = "load"
        /\ End(p) \/ Goto(p, "rows")
        /\ UNCHANGED <<curated, generated, cache, memory, begun, unwritten>>
    BY DEF LoadCache
  <1>2. CASE End(p)
    BY <1>0, <1>2, EndIs, IdleUnderWay
  <1>3. CASE Goto(p, "rows")
    <2>1. /\ job'[p].at = "rows"
          /\ job'[p].found = job[p].found /\ job'[p].config = job[p].config
          /\ job'[p].kind = job[p].kind /\ job'[p].digest = job[p].digest
      BY <1>0, <1>3, GotoIs DEF Location
    <2>2. CuratedHeld(p) /\ (~unwritten => GeneratedHeld(p))
      BY <1>1 DEF TurnsInv, UnderWay
    <2>3. CuratedHeld(p)'
      BY <1>1, <2>1, <2>2 DEF CuratedHeld, Reviewed, Names
    <2>4. ~unwritten => GeneratedHeld(p)'
      BY <1>1, <2>1, <2>2 DEF GeneratedHeld, Writing, Seen, Own
    <2> QED
      BY <1>1, <2>3, <2>4 DEF UnderWay
  <1> QED
    BY <1>1, <1>2, <1>3

\* The rows are those of the documents of the digest.
LEMMA BuildRowsTurn ==
    ASSUME TurnsInv, NEW p \in Proc, BuildRows(p)
    PROVE  CacheOfDigest'
  <1>1. /\ job[p].at = "rows"
        /\ \/ cache' = [digest |-> job[p].digest, rows |-> Overlay(Seen(p), Own(p))]
           \/ cache' = cache
        /\ UNCHANGED <<curated, generated, begun, unwritten>>
    BY BuildRowsIs DEF TurnsInv
  <1>2. ~unwritten =>
          /\ Seen(p) = generated
          /\ job[p].digest = [models |-> Own(p), generated |-> generated]
    BY <1>1 DEF TurnsInv, UnderWay, GeneratedHeld, Writing
  <1>3. CASE cache' = cache
    BY <1>1, <1>3 DEF TurnsInv, CacheOfDigest
  <1>4. CASE cache' = [digest |-> job[p].digest, rows |-> Overlay(Seen(p), Own(p))]
    <2>1. /\ cache'.digest = job[p].digest /\ cache'.rows = Overlay(Seen(p), Own(p))
      BY <1>4
    <2>2. ~unwritten => cache'.rows = Overlay(cache'.digest.generated, cache'.digest.models)
      BY <1>2, <2>1
    <2> QED
      BY <1>1, <2>2 DEF CacheOfDigest, Overlay
  <1> QED
    BY <1>1, <1>3, <1>4

\* Before the first command nothing is under way.
LEMMA InitTurns == Init => TurnsInv
  <1> SUFFICES ASSUME Init PROVE TurnsInv
    OBVIOUS
  <1>1. /\ cache = None /\ \A p \in Proc : job[p] = Idle
    BY DEF Init
  <1> QED
    BY <1>1, InitDocs, IdleIs DEF TurnsInv, Turns, CacheOfDigest, UnderWay

\* Nor does any step of a command that has its turn lose what is held.
LEMMA NextTurns ==
    ASSUME Overlap = FALSE, TurnsInv, [Next]_vars
    PROVE  TurnsInv'
  <1>0. DocsInv /\ TypeOK /\ Turns /\ CacheOfDigest /\ DocsInv'
    BY NextDocs DEF TurnsInv, DocsInv
  <1>1. ASSUME NEW p \in Proc, Start(p)
        PROVE  TurnsInv'
    <2>1. /\ \A q \in Proc : job[q].at = "idle"
          /\ \A q \in Proc \ {p} : job'[q] = job[q]
          /\ cache' = cache
      BY <1>0, <1>1, StartIs
    <2>2. UnderWay(p)' /\ (unwritten => unwritten')
      BY <1>1, StartTurn
    <2>3. CacheOfDigest'
      BY <1>0, <2>1, <2>2, CacheStays
    <2> QED
      BY <1>0, <2>1, <2>2, <2>3, TurnHolds
  <1>2. ASSUME NEW p \in Proc, AllowedChange(p)
        PROVE  TurnsInv'
    <2>1. /\ job[p].at = "act" /\ \A q \in Proc \ {p} : job'[q] = job[q]
          /\ cache' = cache /\ unwritten' = unwritten
      BY <1>0, <1>2, ChangeIs
    <2>2. UnderWay(p)'
      BY <1>2, ChangeTurn
    <2>3. CacheOfDigest'
      BY <1>0, <2>1, CacheStays
    <2> QED
      BY <1>0, <2>1, <2>2, <2>3, TurnHolds
  <1>3. ASSUME NEW p \in Proc, Refuse(p) \/ Crash(p)
        PROVE  TurnsInv'
    <2>1. End(p) /\ cache' = cache /\ unwritten' = unwritten /\ job[p].at # "idle"
      BY <1>3 DEF Refuse, Crash, Editing
    <2>2. job'[p] = Idle /\ \A q \in Proc \ {p} : job'[q] = job[q]
      BY <1>0, <2>1, EndIs
    <2>3. UnderWay(p)'
      BY <2>2, IdleUnderWay
    <2>4. CacheOfDigest'
      BY <1>0, <2>1, CacheStays
    <2> QED
      BY <1>0, <2>1, <2>2, <2>3, <2>4, TurnHolds
  <1>4. ASSUME NEW p \in Proc, RefreshFails(p)
        PROVE  TurnsInv'
    <2>1. /\ job[p].at = "act" /\ \A q \in Proc \ {p} : job'[q] = job[q]
          /\ cache' = cache /\ unwritten' = unwritten
      BY <1>0, <1>4, RefreshFailsIs
    <2>2. UnderWay(p)'
      BY <1>4, RefreshFailsTurn
    <2>3. CacheOfDigest'
      BY <1>0, <2>1, CacheStays
    <2> QED
      BY <1>0, <2>1, <2>2, <2>3, TurnHolds
  <1>5. ASSUME NEW p \in Proc, Write(p)
        PROVE  TurnsInv'
    <2>1. /\ Goto(p, "write generated") \/ Proceed(p)
          /\ cache' = cache /\ unwritten' = unwritten /\ job[p].at # "idle"
      BY <1>5 DEF Write
    <2>2. \A q \in Proc \ {p} : job'[q] = job[q]
      BY <1>0, <2>1, GotoIs, ProceedIs DEF Location
    <2>3. UnderWay(p)'
      BY <1>5, WriteCuratedTurn, WriteGeneratedTurn
    <2>4. CacheOfDigest'
      BY <1>0, <2>1, CacheStays
    <2> QED
      BY <1>0, <2>1, <2>2, <2>3, <2>4, TurnHolds
  <1>6. ASSUME NEW p \in Proc, WriteFails(p)
        PROVE  TurnsInv'
    <2>1. /\ Proceed(p) \/ End(p)
          /\ cache' = cache /\ job[p].at # "idle"
      BY <1>6 DEF WriteFails
    <2>2. \A q \in Proc \ {p} : job'[q] = job[q]
      BY <1>0, <2>1, EndIs, ProceedIs
    <2>3. UnderWay(p)' /\ (unwritten => unwritten')
      BY <1>6, WriteFailsTurn
    <2>4. CacheOfDigest'
      BY <1>0, <2>1, <2>3, CacheStays
    <2> QED
      BY <1>0, <2>1, <2>2, <2>3, <2>4, TurnHolds
  <1>7. ASSUME NEW p \in Proc, TakeDigest(p)
        PROVE  TurnsInv'
    <2>1. /\ job[p].at = "digest" /\ \A q \in Proc \ {p} : job'[q] = job[q]
          /\ cache' = cache /\ unwritten' = unwritten
      BY <1>0, <1>7, TakeDigestIs
    <2>2. UnderWay(p)'
      BY <1>7, TakeDigestTurn
    <2>3. CacheOfDigest'
      BY <1>0, <2>1, CacheStays
    <2> QED
      BY <1>0, <2>1, <2>2, <2>3, TurnHolds
  <1>8. ASSUME NEW p \in Proc, LoadCache(p)
        PROVE  TurnsInv'
    <2>1. /\ Goto(p, "rows") \/ End(p)
          /\ cache' = cache /\ unwritten' = unwritten /\ job[p].at # "idle"
      BY <1>8 DEF LoadCache
    <2>2. \A q \in Proc \ {p} : job'[q] = job[q]
      BY <1>0, <2>1, GotoIs, EndIs DEF Location
    <2>3. UnderWay(p)'
      BY <1>8, LoadCacheTurn
    <2>4. CacheOfDigest'
      BY <1>0, <2>1, CacheStays
    <2> QED
      BY <1>0, <2>1, <2>2, <2>3, <2>4, TurnHolds
  <1>9. ASSUME NEW p \in Proc, BuildRows(p)
        PROVE  TurnsInv'
    <2>1. /\ job[p].at = "rows" /\ job'[p] = Idle
          /\ \A q \in Proc \ {p} : job'[q] = job[q]
      BY <1>0, <1>9, BuildRowsIs
    <2>2. UnderWay(p)'
      BY <2>1, IdleUnderWay
    <2>3. CacheOfDigest'
      BY <1>9, BuildRowsTurn
    <2> QED
      BY <1>0, <2>1, <2>2, <2>3, TurnHolds
  <1>10. ASSUME ClearMaterialized \/ UNCHANGED vars
         PROVE  TurnsInv'
    <2>1. /\ cache' = cache \/ cache' = None
          /\ UNCHANGED <<curated, generated, job, memory, begun, unwritten>>
      BY <1>10 DEF ClearMaterialized, vars
    <2>2. CacheOfDigest'
      BY <1>0, <2>1, CacheStays
    <2>3. ASSUME NEW p \in Proc
          PROVE  UnderWay(p)'
      <3>1. UnderWay(p)
        BY DEF TurnsInv
      <3>2. CuratedHeld(p) => CuratedHeld(p)'
        BY <2>1 DEF CuratedHeld, Reviewed, Names
      <3>3. Seen(p)' = Seen(p) /\ Own(p)' = Own(p) /\ Writing(p)' = Writing(p)
        BY <2>1 DEF Seen, Own, Writing
      <3>4. /\ Ids(curated.models)' = Ids(curated.models)
            /\ Ids(generated)' = Ids(generated) /\ Ids(job[p].found)' = Ids(job[p].found)
            /\ Ids(job[p].config.models)' = Ids(job[p].config.models)
        BY <2>1 DEF Ids, Names
      <3>5. GeneratedHeld(p) => GeneratedHeld(p)'
        BY <2>1, <3>3, <3>4 DEF GeneratedHeld
      <3> QED
        BY <2>1, <3>1, <3>2, <3>5 DEF UnderWay
    <2>4. Turns'
      BY <1>0, <2>1 DEF Turns
    <2> QED
      BY <1>0, <2>2, <2>3, <2>4 DEF TurnsInv
  <1> QED
    BY <1>0, <1>1, <1>2, <1>3, <1>4, <1>5, <1>6, <1>7, <1>8, <1>9, <1>10,
       EditAllowed, ClearAllowed, RefreshAllowed DEF Next

\* Only a process that writes changes the documents.
LEMMA OnlyWriteWrites ==
    ASSUME TypeOK, [Next]_vars, NEW p \in Proc, job'[p] # job[p]
    PROVE  \/ curated' = curated /\ generated' = generated
           \/ Write(p) /\ curated' \in {curated, job[p].config}
  <1>1. ASSUME NEW q \in Proc, Write(q)
        PROVE  Write(p) /\ curated' \in {curated, job[p].config}
    <2>1. Goto(q, "write generated") \/ Proceed(q)
      BY <1>1 DEF Write
    <2>2. \A r \in Proc \ {q} : job'[r] = job[r]
      BY <2>1, GotoIs, ProceedIs DEF Location
    <2>3. p = q
      BY <2>2
    <2> QED
      BY <1>1, <2>3 DEF Write
  <1>2. ASSUME NEW q \in Proc, AllowedChange(q) \/ RefreshFails(q) \/ TakeDigest(q)
        PROVE  curated' = curated /\ generated' = generated
    BY <1>2, ChangeIs, RefreshFailsIs, TakeDigestIs
  <1>3. ASSUME NEW q \in Proc, Start(q) \/ Refuse(q) \/ WriteFails(q) \/ LoadCache(q)
                                  \/ BuildRows(q) \/ Crash(q)
        PROVE  curated' = curated /\ generated' = generated
    BY <1>3, StartIs DEF Refuse, WriteFails, LoadCache, BuildRows, Crash
  <1>4. ASSUME ClearMaterialized \/ UNCHANGED vars
        PROVE  curated' = curated /\ generated' = generated
    BY <1>4 DEF ClearMaterialized, vars
  <1> QED
    BY <1>1, <1>2, <1>3, <1>4, EditAllowed, ClearAllowed, RefreshAllowed DEF Next

-----------------------------------------------------------------------------
(* Theorems.                                                               *)

\* However commands overlap, the documents have their types, and every
\* discovered entry on file, in memory or in a process's parsed catalog has
\* discovery's mark (ModelCatalog._merge_source_discovered_model,
\* promote_generated and clear_imported move entries between the documents).
THEOREM DocsInvariant == Spec => [](DocsInv /\ OnlyDiscovered)
  <1>1. DocsInv => OnlyDiscovered
    BY DEF DocsInv, AllMarked, MarkedDoc, OnlyDiscovered
  <1>2. DocsInv /\ [Next]_vars => DocsInv'
    BY NextDocs
  <1> QED
    BY InitDocs, <1>1, <1>2, PTL DEF Spec

\* When commands take turns, what a command holds of the two files is what is
\* in them, but for what it is about to write.
THEOREM TurnsInvariant ==
    ASSUME Overlap = FALSE
    PROVE  Spec => []TurnsInv
  <1>1. TurnsInv /\ [Next]_vars => TurnsInv'
    BY NextTurns
  <1> QED
    BY InitTurns, <1>1, PTL DEF Spec

\* So a materialized cache under the digest of the documents as they are holds
\* the rows of the documents as they are (materialized_catalog).
THEOREM CatalogHolds ==
    ASSUME Overlap = FALSE
    PROVE  Spec => []CatalogInv
  <1>1. TurnsInv => CatalogInv
    <2> SUFFICES ASSUME TurnsInv PROVE CatalogInv
      OBVIOUS
    <2>1. TypeOK /\ OnlyDiscovered
      BY DEF TurnsInv, DocsInv, AllMarked, MarkedDoc, OnlyDiscovered
    <2>2. ~unwritten => CacheIsCurrent
      <3> SUFFICES ASSUME ~unwritten, cache # None,
                          cache.digest = [models |-> curated.models, generated |-> generated]
                   PROVE  cache.rows = Overlay(generated, curated.models)
        BY DEF CacheIsCurrent
      <3> QED
        BY DEF TurnsInv, CacheOfDigest
    <2> QED
      BY <2>1, <2>2 DEF CatalogInv
  <1> QED
    BY <1>1, TurnsInvariant, PTL

\* Whatever providers answer and whichever write fails, a refresh leaves the
\* entries with neither discovery's mark nor its notes (ModelCatalog.refresh,
\* refresh_all).  Of a promoted entry, which keeps the notes, it says nothing.
THEOREM RefreshLeavesReviewed ==
    ASSUME Overlap = FALSE
    PROVE  Spec => ReviewedSurvives
  <1> DEFINE Kept(p) ==
        RefreshWrites(p) =>
          /\ curated'.default = curated.default
          /\ \A n \in Names(curated.models) :
                ~Imported(curated.models[n]) => LeavesEntry(n)
  <1>1. ASSUME TurnsInv, [Next]_vars
        PROVE  \A p \in Proc : Kept(p)
    <2> SUFFICES ASSUME NEW p \in Proc, RefreshWrites(p)
                 PROVE  Reviewed(curated, curated')
      BY DEF Reviewed, LeavesEntry
    <2>0. TypeOK /\ curated \in Curated
      BY <1>1 DEF TurnsInv, DocsInv, TypeOK
    <2>1. CASE curated' = curated
      BY <2>0, <2>1, ReviewedItself
    <2>2. CASE Write(p) /\ curated' = job[p].config
      BY <1>1, <2>2 DEF TurnsInv, UnderWay, CuratedHeld, RefreshWrites
    <2>3. curated' = curated \/ (Write(p) /\ curated' = job[p].config)
      BY <1>1, <2>0, OnlyWriteWrites DEF RefreshWrites
    <2> QED
      BY <2>1, <2>2, <2>3
  <1>2. TurnsInv /\ [Next]_vars => [\A p \in Proc : Kept(p)]_vars
    BY <1>1
  <1> QED
    BY <1>2, TurnsInvariant, PTL DEF ReviewedSurvives, Spec

\* Whatever write a command ends after, a model leaves the documents only if
\* the command was to drop it, or was a refresh that moved its entry.
THEOREM NoModelIsLost ==
    ASSUME Overlap = FALSE
    PROVE  Spec => NothingIsLost
  <1> DEFINE Stays(p) == ~unwritten /\ job'[p] # job[p] => Known \ Known' \subseteq job[p].asked
  <1>1. ASSUME TurnsInv, [Next]_vars
        PROVE  \A p \in Proc : Stays(p)
    <2> SUFFICES ASSUME NEW p \in Proc, ~unwritten, job'[p] # job[p]
                 PROVE  Known \subseteq job[p].asked \cup Known'
      OBVIOUS
    <2>0. TypeOK
      BY <1>1 DEF TurnsInv, DocsInv
    <2>1. CASE curated' = curated /\ generated' = generated
      BY <2>1 DEF Known, Ids, Names
    <2>2. CASE Write(p) /\ job[p].at = "write curated"
      <3>1. curated' \in {curated, job[p].config} /\ generated' = generated
        BY <2>2 DEF Write
      <3>2. Ids(curated.models) \subseteq
               job[p].asked \cup Ids(job[p].config.models) \cup Ids(generated)
        BY <1>1, <2>2 DEF TurnsInv, UnderWay, GeneratedHeld
      <3>3. Ids(curated.models) \cup Ids(generated)
              \subseteq job[p].asked \cup Ids(curated'.models) \cup Ids(generated')
        BY <3>1, <3>2
      <3> QED
        BY <3>3 DEF Known, Ids, Names
    <2>3. CASE Write(p) /\ job[p].at # "write curated"
      <3>1. /\ job[p].at = "write generated"
            /\ generated' \in {generated, job[p].found} /\ curated' = curated
        BY <2>3 DEF Write
      <3>2. UnderWay(p) /\ Writing(p) /\ job[p].at # "idle"
        BY <1>1, <3>1 DEF TurnsInv, Writing
      <3>3. job[p].config = curated
        BY <3>1, <3>2 DEF UnderWay, CuratedHeld
      <3>4. Ids(generated) \subseteq
               job[p].asked \cup Ids(curated.models) \cup Ids(job[p].found)
        BY <3>2, <3>3 DEF UnderWay, GeneratedHeld
      <3>5. Ids(curated.models) \cup Ids(generated)
              \subseteq job[p].asked \cup Ids(curated'.models) \cup Ids(generated')
        BY <3>1, <3>4
      <3> QED
        BY <3>5 DEF Known, Ids, Names
    <2>4. (curated' = curated /\ generated' = generated) \/ Write(p)
      BY <1>1, <2>0, OnlyWriteWrites
    <2> QED
      BY <2>1, <2>2, <2>3, <2>4
  <1>2. TurnsInv /\ [Next]_vars => [\A p \in Proc : Stays(p)]_vars
    BY <1>1
  <1> QED
    BY <1>2, TurnsInvariant, PTL DEF NothingIsLost, Spec
=============================================================================
