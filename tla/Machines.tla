------------------------------ MODULE Machines ------------------------------
(***************************************************************************)
(* The machines of a profile (machines.py): the list in hardware.yaml,     *)
(* which import and import-azure-sku add to and recommend ranks, and the   *)
(* cache of Azure discoveries, an ordinary file that discover and          *)
(* cache-clear read, change and replace without a lock.                    *)
(*                                                                         *)
(* The command az may be missing, fail, or answer with the sizes a region  *)
(* has; built-in hints stand in for it.  Commands overlap and are killed.  *)
(***************************************************************************)
EXTENDS Integers, FiniteSets, FiniteSetsExt, TLC

CONSTANTS
    MachCommand,  \* commands, run over and over
    Sku,          \* AZURE_SKU_HINTS
    Hint,         \* [Sku -> machine]
    Elsewhere,    \* machines exported on other hosts
    MachineName,
    ImportValues,    \* values given with import
    Workload,     \* [name -> [ram, vram]]: WORKLOAD_CLASSES
    Alias,        \* [alias -> what the row of a model asks for]
    Asked,        \* what discover and recommend are asked
    Answers,      \* what az list-skus answers: sets of sizes, known or not
    Unreadable,   \* the cache file cannot be read, or is no mapping
    NoMachJob,
    Unset

VARIABLES
    machines,  \* self_managed_machines: machines by name
    cache,     \* the cache file: entries by key, or Unreadable
    machJob,   \* [MachCommand -> what the command is doing]
    owed       \* keys answered live since they were last cleared: LiveStaysLive

machVars == <<machines, cache, machJob, owed>>

NoEntries == [k \in {} |-> Unset]

-----------------------------------------------------------------------------
(* Criteria and fit.  Sizes are in GB; Unset is an absent or symbolic one.   *)

Size(x) == IF x = Unset THEN 0 ELSE x

\* A question: model and workload or Unset, vendor or Unset, and the flags
\* --min-cpu-cores, --min-ram-gb and --min-vram-gb, 0 where not given.
Criteria(f) ==
    LET class == IF f.workload = Unset THEN [ram |-> 0, vram |-> 0] ELSE Workload[f.workload]
        row == IF f.model = Unset THEN [minRam |-> Unset, minVram |-> Unset,
                                       recRam |-> Unset, recVram |-> Unset]
               ELSE Alias[f.model]
    IN  [f EXCEPT !.ram = Max({class.ram, Size(row.minRam), f.ram}),
                  !.vram = Max({class.vram, Size(row.minVram), f.vram})]
        @@ [recRam |-> row.recRam, recVram |-> row.recVram]

\* The targets of the model are no part of the key.
Key(c) == <<c.workload, c.model, c.vendor, c.cpu, c.ram, c.vram>>

\* recommend takes no hardware filters.
Plain(f) == [f EXCEPT !.vendor = Unset, !.cpu = 0, !.ram = 0, !.vram = 0]

\* A size of zero counts as none: the unified memory is taken for it.
OrUnified(x, m) == IF Size(x) = 0 THEN Size(m.unified) ELSE x

Blocked(m, c) == OrUnified(m.ram, m) < c.ram \/ OrUnified(m.vram, m) < c.vram

Reaches(have, target) == target = Unset \/ have >= target

\* Mutant of Score: a GPU outweighs a target that is missed.
ScoreForGpu(m, c) ==
    IF Blocked(m, c) THEN 0
    ELSE 60 + (IF Reaches(OrUnified(m.ram, m), c.recRam) THEN 15 ELSE 0)
            + (IF Reaches(OrUnified(m.vram, m), c.recVram) THEN 15 ELSE 0)
            + (IF OrUnified(m.vram, m) > 0 THEN 20 ELSE 0)

Score(m, c) ==
    IF Blocked(m, c) THEN 0
    ELSE 60 + (IF Reaches(OrUnified(m.ram, m), c.recRam) THEN 15 ELSE 0)
            + (IF Reaches(OrUnified(m.vram, m), c.recVram) THEN 15 ELSE 0)
            + (IF OrUnified(m.vram, m) > 0 THEN 10 ELSE 0)

MachineLevel(m, c) ==
    IF Blocked(m, c) THEN "not_recommended"
    ELSE IF Reaches(OrUnified(m.ram, m), c.recRam) /\ Reaches(OrUnified(m.vram, m), c.recVram)
    THEN "recommended" ELSE "usable"

\* The hardware filters of discover.
MatchesFilters(m, c) ==
    /\ c.vendor # Unset => m.vendor = c.vendor
    /\ Size(m.cores) >= c.cpu
    /\ OrUnified(m.ram, m) >= c.ram /\ OrUnified(m.vram, m) >= c.vram

\* The machine of a size, as discover ranks it and import-azure-sku adds it.
SkuMachine(s) == Hint[s]

Candidates(skus, c) ==
    {s \in skus : /\ MachineLevel(SkuMachine(s), c) # "not_recommended"
                  /\ MatchesFilters(SkuMachine(s), c)}

\* validate_machine, as far as it looks at values.
ValidMachine(m) ==
    /\ m.ram # Unset \/ m.unified # Unset
    /\ m.vram # Unset \/ m.unified # Unset

-----------------------------------------------------------------------------
(* The commands.                                                           *)

Idle(c) == machJob[c] = NoMachJob

Goes(c, job) == machJob' = [machJob EXCEPT ![c] = job]

Ends(c) == Goes(c, NoMachJob)

DiscoverBegin(c) ==
    /\ Idle(c)
    /\ \E f \in Asked :
          Goes(c, [kind |-> "discover", at |-> "ask", criteria |-> Criteria(f), read |-> NoEntries])
    /\ UNCHANGED <<machines, cache, owed>>

\* Only the sizes of the hints are known well enough to rank.
KnownSizes(answer) == answer \cap Sku

Found(method, skus, c) ==
    [method |-> method, candidates |-> Candidates(skus, c)]

\* What the cache file can hold when it can be read.
Entry == [method : {"live", "offline"}, candidates : SUBSET Sku]
Entries == UNION {[keys -> Entry] : keys \in SUBSET {Key(Criteria(f)) : f \in Asked}}

ASSUME UnreadableAssumption == Unreadable \notin Entries

\* No az, a failing one and an answer without a known size lead to the hints.
AskAzure(c) ==
    /\ machJob[c] # NoMachJob /\ machJob[c].at = "ask"
    /\ \E answer \in Answers \cup {{}} :
          LET live == KnownSizes(answer)
              q == machJob[c].criteria
          IN  Goes(c, [kind |-> "discover", at |-> "load", criteria |-> q, read |-> NoEntries,
                       found |-> IF live = {} THEN Found("offline", Sku, q)
                                 ELSE Found("live", live, q)])
    /\ UNCHANGED <<machines, cache, owed>>

\* Output of az that is no JSON raises.
AzureGarbled(c) ==
    /\ machJob[c] # NoMachJob /\ machJob[c].at = "ask"
    /\ Ends(c)
    /\ UNCHANGED <<machines, cache, owed>>

\* What cannot be read counts as empty.
Loaded == IF cache = Unreadable THEN NoEntries ELSE cache

LoadCache(c) ==
    /\ machJob[c] # NoMachJob /\ machJob[c].at = "load"
    /\ Goes(c, [machJob[c] EXCEPT !.at = "write", !.read = Loaded])
    /\ UNCHANGED <<machines, cache, owed>>

\* The cache is replaced by what the command makes of the one it read.  What
\* others wrote since then is lost, and no longer owed.
Replace(c, new, answered) ==
    /\ cache' = new
    /\ owed' = IF machJob[c].read = Loaded THEN answered
               ELSE answered \cap {k \in DOMAIN new : new[k].method = "live"}
    /\ Ends(c)
    /\ UNCHANGED machines

\* Mutant of Supersedes: what was found last is kept.
SupersedesAlways(found, k, old) == TRUE

\* A live result replaces every other, an offline one no live one.
Supersedes(found, k, old) ==
    found.method = "live" \/ (k \in DOMAIN old => old[k].method # "live")

Put(entries, k, entry) ==
    [x \in DOMAIN entries \cup {k} |-> IF x = k THEN entry ELSE entries[x]]

RecordDiscovery(c) ==
    /\ machJob[c] # NoMachJob /\ machJob[c].at = "write" /\ machJob[c].kind = "discover"
    /\ LET j == machJob[c]
           k == Key(j.criteria)
       IN  IF Supersedes(j.found, k, j.read)
           THEN Replace(c, Put(j.read, k, j.found),
                        IF j.found.method = "live" THEN owed \cup {k} ELSE owed)
           ELSE Ends(c) /\ UNCHANGED <<machines, cache, owed>>

\* cache-clear, of one key or, for Unset, of all.
ClearBegin(c) ==
    /\ Idle(c)
    /\ \E k \in {Key(Criteria(f)) : f \in Asked} \cup {Unset} :
          Goes(c, [kind |-> "clear", at |-> "load", key |-> k, read |-> NoEntries])
    /\ UNCHANGED <<machines, cache, owed>>

ClearCache(c) ==
    /\ machJob[c] # NoMachJob /\ machJob[c].at = "write" /\ machJob[c].kind = "clear"
    /\ LET k == machJob[c].key
           rest == [x \in DOMAIN machJob[c].read \ {k} |-> machJob[c].read[x]]
       IN  IF k = Unset THEN Replace(c, NoEntries, {}) ELSE Replace(c, rest, owed \ {k})

\* import, with overrides, and import-azure-sku.  (Two imports at once lose
\* one of the two, as any save of a document that was read before: that is
\* Persistence.)
ImportMachine ==
    /\ \E m \in {SkuMachine(s) : s \in Sku} \cup Elsewhere, n \in MachineName, over \in ImportValues :
          /\ ValidMachine(over @@ m)
          /\ machines' = (n :> (over @@ m)) @@ machines
    /\ UNCHANGED <<cache, machJob, owed>>

-----------------------------------------------------------------------------
(* The environment.                                                        *)

MachKill(c) == ~Idle(c) /\ Ends(c) /\ UNCHANGED <<machines, cache, owed>>

\* The cache file is damaged or edited by hand.
SpoilCache ==
    /\ cache' = Unreadable
    /\ owed' = {}
    /\ UNCHANGED <<machines, machJob>>

MachInit ==
    /\ machines = NoEntries
    /\ cache = NoEntries
    /\ machJob = [c \in MachCommand |-> NoMachJob]
    /\ owed = {}

MachNext ==
    \/ \E c \in MachCommand :
          \/ DiscoverBegin(c) \/ AskAzure(c) \/ AzureGarbled(c) \/ LoadCache(c)
          \/ RecordDiscovery(c) \/ ClearBegin(c) \/ ClearCache(c)
          \/ MachKill(c)
    \/ ImportMachine \/ SpoilCache

-----------------------------------------------------------------------------
(* Properties.                                                             *)

\* "Offline results create or update the cache only when no live cache exists
\* for the same provider/region/filter" (machines-and-stacks.md): a live answer
\* stays over everything but its clearing, a damaged file, and a command that
\* writes back a cache it read before.
LiveStaysLive == \A k \in owed : k \in DOMAIN cache /\ cache[k].method = "live"

\* recommend sorts by the score and cuts the list off: of the imported machines
\* none of a lower level comes before one of a higher level, whatever memory
\* they lack and whatever overrides they were imported with.
RankFollowsLevel ==
    \A f \in Asked, m, n \in DOMAIN machines :
        LET c == Criteria(Plain(f))
            Rank(x) == CASE MachineLevel(machines[x], c) = "recommended" -> 2
                         [] MachineLevel(machines[x], c) = "usable" -> 1
                         [] OTHER -> 0
        IN  Rank(m) > Rank(n) => Score(machines[m], c) > Score(machines[n], c)
=============================================================================
