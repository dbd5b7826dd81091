# TLA+ models of aiplane

aiplane is a command line tool (and an MCP server) that keeps AI development
profiles in YAML files, a few state files under `.aiplane/`, an audit log, and
starts helper processes and model servers. It has no daemon: all its state is
in files and in the processes it started, and its concurrency is that of
several commands, MCP sessions and agent frameworks that use one workspace at
once, with threads inside some of them. What can go wrong is a matter of what a
command read before another one wrote, of commands that are killed, of failing
system calls and services, and of two pieces of code that decide the same
question apart. Paths below are relative to `src/aiplane/` unless they start
with `docs/` or `scripts/`.

## 1. Inventory

| Component | State | Operations | What makes it correct |
|---|---|---|---|
| File lock (`persistence.py:12-66`) | an RLock per path and process; the held paths per thread; the flock on `.name.lock` | `file_lock` | one writer per lock file; bounded wait; no hold-and-wait; every exit restores the thread's state |
| Writers (`persistence.py:69-162`) | the files | `atomic_write_text`, `atomic_update_json/yaml`, `atomic_compare_and_swap_text` | never a partial file; transactions merge into the current document; an acknowledged change stays |
| Audit log (`audit.py`) | `.aiplane/audit/<profile>.jsonl` | `record`, `tail_report` | agrees with what happened; damage stays local |
| Policy (`policy.py`, `policy_state.py`, `approvals.py`) | `.aiplane/policy/<profile>.json` | decisions, grant, revoke | decisions follow profile, grant kind and expiry |
| Commands that act (`tool_execution.py`, `patches.py`) | the working tree | run a tool, apply a patch | nothing is done without the gate; every outcome is recorded truthfully |
| MCP server (`mcp.py`) | one session over stdio | `serve_stdio`, `call_tool` | one answer per request, in order; two guards and the log around every write |
| SSH tunnels (`remote.py`) | `.aiplane/remote/<target>.json`, an SSH process | `tunnel_start`, `tunnel_stop` | only the own process is signalled; no tunnel is lost or doubled |
| Agent guardrails (`agent_guardrails.py`) | counters, stop reason, receipt file | five hooks | a budget is exceeded by no more than the hooks that overlap; an overage stops the run |
| Profile directories (`config.py`, `profile_archive.py`, `integration_imports.py`) | `profiles/<name>/` | create, remove, repair, save, archive, restore, import | never half made where nothing failed; archives are whole; repair repairs |
| Model catalog (`model_catalog.py`, `model_store.py`, `model_refresh.py`, `materialized_catalog.py`) | `models.yaml`, the discovered document, two caches | edit, promote, clear, refresh, query, rebuild | no entry is lost; what has no mark of discovery survives a refresh; a cache is never stale |
| Provider lists (`providers.py`) | four files | enable, disable, add, remove, clear, init, update | what is removed stays removed |
| Service connections (`providers.py`, `model_execution.py`, `backends.py`, `secrets.py`) | the credentials file | list, test, doctor, complete | what is reported is what the service answered |
| Routing (`router.py`, `code_tasks.py`) | the audit log | run, code, chat | only an admitted alias gets the prompt; the log is truthful |
| Model servers (`stack_lifecycle.py`, `runtime_catalog.py`, `scripts/provider_helper.sh` and the scripts it calls) | PID files, containers, processes | install, pull, start, stop, restart, deploy | every started server can be stopped; completed means prepared, where the helper does more than print a hint |
| Hardware and machines (`placement.py`, `hardware.py`, `machines.py`) | `hardware.yaml`, the discovery cache | assess, recommend, discover, import, clear | eligible fits; live answers stay; ranking follows the fit |
| Benchmarks (`benchmarks.py`, `benchmark_evidence.py`, `benchmark_comparison.py`) | records, work files | run, import, export, compare | own answers judged; leaders comparable |
| Client integrations (`integrations.py`) | a saved plan | plan, export, setup | what is printed is allowed; a clean setup has found or fetched every model |
| Stacks (`stacks.py`, `stack_roles.py`) | the stored stack | setup, doctor, export | a stack that passes can be exported as what its runtime can be packed as |
| Agent artifacts (`agents.py`, `model_handoff.py`) | files people carry | manifest, job, handoff, validate | valid exactly when rendered |
| Diagnosis (`local_doctor.py`) | none | doctor | healthy means that exports work |
| Toolchains (`tools.py`, `tool_catalog.py`, `vagrant_providers.py`, `env.py`) | the host | matrix, environment doctor, install | advice that is followed ends |
| First commands (`cli_public_workflows.py`) | a new profile | quickstart, bootstrap-local | a preview changes nothing; the status is what is on the disk |
| Renderers, static tables, redaction, model queries, argument parsing | none of their own | text output, filters | left to tests |

How they interact: state files are written through `persistence.py`. Tools,
patches, MCP calls, routes and grants ask `PolicyEngine`, which reads the
grants file anew each time, and append to one audit log. Everything about
models reads the catalog, the provider lists and the credentials; exports,
stacks and the doctor combine them with the policy and the running servers.
Removing or overwriting a profile deletes the directory in which its lock files
and documents are.

The behaviours that are hard to test, each with the line where it bites and
the properties that cover it, are listed under `hazards` in `PROJECT.json`.

## 2. The modules

| Module | Models | Uses |
|---|---|---|
| `FileLock` | `file_lock`, process death, deleted directories | |
| `AtomicStore` | abstract: a document per path, transactions that take effect at one instant, power loss | |
| `Persistence` | the writers on top of the lock; implements `AtomicStore` | `FileLock`, `AtomicStore` |
| `AuditLog`, `Governance` | the log; tool, patch, MCP, grant and revoke commands that share policy and log | `AuditLog` |
| `Tunnel` | tunnel start and stop, the process table | |
| `McpSession` | one MCP session, frame by frame | |
| `Guardrails` | the hooks of the budget adapter, called by threads | |
| `Profiles` | the directory of a profile, file by file | |
| `ModelCatalog` | the two catalog documents and their caches | |
| `Providers`, `Machines` | provider lists; machines and the discovery cache | |
| `Execution`, `Connections` | a prompt on its way to a backend; what one service is asked | |
| `Runtime`, `Toolchain`, `Quickstart` | model servers; preparing a host; the first commands | |
| `Placement`, `Benchmarks` | whether a model fits; what it measured | |
| `Integrations`, `Stacks`, `LocalDoctor`, `AgentArtifacts` | what is printed for other programs, each over the catalog, policy and servers of the one before | `Stacks` extends `Integrations`; the last two extend `Stacks` |
| `*Proofs` | theorems, see section 4 | their modules, `TLAPS` |
| `MC*` | instances for TLC | |

A definition commented as a mutant of another, or as having a bug, is that
other definition with a plausible bug. It is no part of a specification; it is
what the property named in `PROJECT.json` is there to notice.

**FileLock.** A thread is at one of eight locations of `file_lock`, in the order
of the code. `owner` and `depth` are the RLocks, `flock` the kernel's table. A
kernel lock belongs to a file, not to a name, so lock files carry a generation
that grows when the directory is deleted (`config.py:444,462`). `Expire` is the
passing of the deadline, `Crash` the death of any set of processes. The body is
one location; what it does is in the modules on top.

**Persistence.** A document is the set of changes in it, a thread one command
with one change. `Ops` says how commands write: transactions ("update"), compare
and swap ("cas"), or load-at-start and save-whole ("save", the settings
managers). `file` is what an open reads, `disk` what the directory on disk
refers to, `flushed` whether the bytes are on disk: `PowerFails` brings back
either, and bytes that were never fsynced come back torn. Each action is
conjoined with the step of `FileLock` it takes.

**AuditLog, Governance.** A log line is the sequence of what was written to it,
so an event written onto an unterminated line is there and is not readable.
Commands are processes with a program counter; what a command has read is in a
variable of its own and may be old when used. Time passes, the profile is
edited, the grants file is spoiled, commands die, appends fail before, in or
after the write. The grants file changes in one step, as `PersistenceProofs`
justifies.

**Tunnel.** A process identity is a kind and a start time; PIDs are few and
reused. `strays` is a history variable: identities whose record is lost in one
of the three ways the code cannot prevent (starter killed before the save,
record overwritten by hand, `pidfd_open` refused), so `NoTunnelIsLost` says
there is no fourth.

**McpSession.** A frame is its header lines and a body, with the four limits of
`_MAX_MCP_*`; a message is its id, its method and what the argument checks tell
apart. The session is a loop of read, dispatch and reply in the code's order;
the guards, the manager and the audit append may each fail before or after the
effect.

**Guardrails.** A hook is a sequence of steps of the thread that calls it. The
interpreter switches threads at calls and at the end of loop turns, so an
increment is one step; a check and the increment it guards are not. Refused
calls of a stopped run change nothing and are left out. Two threads may both
find room for the last call under a limit, and a response whose second value is
refused leaves its first added: the properties leave that open, because the
adapter does not promise otherwise. It is composed with `Governance` in one
instance, with no state in common.

**Profiles.** `create`, `remove` and `repair` work on a directory file by file
without a lock; `restore` and `import` fill a directory of their own and rename
it; a save has loaded the profile before. Writes fail, commands die anywhere.

**ModelCatalog.** A process loads the profile's document when the command
starts and the discovered one when first needed, changes both in memory and
writes each as a whole; a long-lived process keeps what it loaded. Caches are
keyed by digest, path, time and size as in the code.

**Providers, Machines.** A provider list is a new or legacy user file over a new
or legacy defaults file over the built-in list, or the empty marker. The machine
cache is an ordinary file read, changed and replaced by overlapping commands;
scores, levels and filters are translated with their treatment of missing and
zero sizes.

**Execution, Connections.** `Execution` follows one prompt through alias
selection, checks, probes, the call and its event while servers come, hang and
go and grants change. `Connections` follows one question to one service: pages
of a listing, a test, the doctor with its probe cache, a streamed answer, while
the credentials file and the keys the service accepts change.

**Runtime.** The steps of the lifecycle commands are those of the helper
scripts, with their tests of PID files, containers and exit codes; a server may
end and its PID be given away. Two commands may be at any point of theirs. What
a helper does depends on the kind of runtime, of which there are nine
(`Modes`): some install, pull or start nothing and print a hint with exit code 0
(`HelperInstalls`, `HelperPulls`, `HelperStarts`), the pipe of the Ollama
installer and the download of a gguf exit with 0 also when nothing of use came,
and the PID file of a server just forked may fail to be written.

**Toolchain.** The host is its platform, the programs on the PATH, the VM
providers that work and the Vagrant plugins. A report is computed as
`tools matrix --workflow` or `environment doctor --workflow` do; the user then
does what it says, by `tools install` where the catalog has commands and by hand
where it has a hint. An install may fail or bring nothing onto the PATH.

**Quickstart.** The nested commands are one step each that may fail, the copy
and the deletion of the profile one step per file; the process may be killed
between any two. `before` keeps what a preview must not change.

**Placement, Benchmarks.** The estimate, the placement modes and the two fit
checks are translated operator by operator, in hundredths of a GB; the
environment takes and frees memory and adds devices between two questions. A
benchmark record is one file; runs hand answers over in work files named by the
task. The times and scores that are compared are averages over the runs of a
record; the basis on which two records are comparable includes decoding and
quantization.

**Integrations, Stacks, LocalDoctor, AgentArtifacts.** One catalog, policy and
set of servers, which change between commands. A plan is saved and exported
later, a stack is stored and asked later, bundles are rendered, mixed and
validated. A setup works through the roles of a plan and looks at exit codes: a
start that succeeds has forked a process (`forked`), which comes up later, or
never; a pull goes into the store of Ollama, which lists it, or into a cache
that a server of the other runtimes reads when it starts (`cached`). The grants
of the policy state are in `Stacks`: decisions heed them (`ModelDecision`,
`CloudDecision`, for both doctors), exports ask the base policy (`Selectable`).
`BundleModes` says as which packages a runtime can be written. Of the
surroundings of a stack its doctor sees the prerequisites of the runtime and the
target of a tunnel. `LocalDoctor` has no state of
its own: it is `aiplane doctor` as an operator over that state and over what it
sees besides (`Surroundings`). A checksum is the value it was taken of.

## 3. The runs

Some modules have nothing to do with each other but are cheap to look at in one
run: the initial state then chooses what a behaviour is about (`topic`, `gate`,
`question`, `subject`, `inventory`), and the other part stays as it is.

| Run | Instance | Shows |
|---|---|---|
| `FileLock_lock` | 3 threads in 2 processes, 1 path, 1 deleted directory, fair | what is still excluded; no hold-and-wait; every wait and every lock ends |
| `Persistence_store` | a transaction and a compare-and-swap in two processes, power loss | refinement of `AtomicStore`; acknowledged changes stay |
| `Governance_rules` | 3 commands in several mixes, 1 action, times 0 to 2, 1 tear; or 2 threads, 3 hooks, limits 2, 1 and 0 | gates follow policy and grants; a truthful log that loses at most one event per tear; bounds of an excess; overages stop |
| `Tunnel_owned` | 2 commands, 2 PIDs, 4 processes started; or a session of 2 messages, all kinds of frames | ownership of signals, no lost tunnel; one answer per request; writes behind both guards and the log |
| `Profiles_lifecycle` | 3 commands, 1 name, 2 required files and an optional one | archives whole; settled profiles whole; repair repairs |
| `Catalog_refresh` | 1 process, 2 commands, 2 provider models, a local file, 4 names | cache truth; entries without mark and notes survive; nothing is lost |
| `Catalog_promoted` | the same | expected to fail: a refresh does not leave a promoted entry alone, as the documents promise |
| `Providers_lists` | 3 providers, 4 files; or 2 commands over 3 sizes and 2 machine names | removed stays removed; live stays live; rank follows level |
| `Execution_prompt` | 2 aliases, 3 backends; or one service in 9 configurations, 2 aliases, 5 listings | only admitted; truthful log; only what was answered; own verdicts |
| `Runtime_lifecycle` | 2 commands, 2 PIDs, 9 kinds of runtime; or 8 hosts and 9 workflows; or 8 sets of flags, 2 files | servers can be stopped, completed is prepared; advice converges; quickstart tells the truth |
| `Placement_assess` | 6 machines of up to 3 devices, 6 models, 4 runtimes; or 2 runners, 2 records | eligible fits; recommended is routable; own answers; imports; leaders |
| `Artifacts_render` | 2 aliases of 4 kinds, 2 runtimes and a managed service, 4 stacks, 4 contents of the grants file, 2 renderings | exports allowed; clean setups fetch; passed stacks and healthy profiles export; valid exactly when rendered |

The bounds. Three threads in two processes are the least with which both lock
levels are contended and a third party waits; a lock per path is independent of
the others, so one path is enough for waiting (nesting compares names only), and
one deleted directory makes the two lock files the hazard needs. One writer of
each kind in two processes meets every interleaving of read, replace and power
loss; the theorems have any number. Three commands are the least for two grants
that race and a tool that uses one; with a lifetime of one and a clock to two a
grant can expire before, while and after it is looked at. Two PIDs and four
started processes let the PID of a tunnel be reused by another program and by
another tunnel. In a session two messages show a reply that is shifted onto the
next request; the limits are small so that each can be passed. Three hooks let
each limit be reached, passed by an overlap or met by a further hook.
Three profile commands are the least for one that fails, one that deletes
meanwhile and one that repairs. Two catalog commands in a row let the second
work on what a killed first one left; entries have a name taken, a name free and
a spare. Two machine commands make a write-back of an old cache. In `Toolchain`
three rounds of advice are the longest chain there is (name a provider, enable
it, install its plugin), and one mishap lets the host change under a report.
`Quickstart` has two files so that a directory can be half made. Two records are
the least to compare. One edit between two commands of `Integrations` suffices:
each command reads the state anew; a setup is begun before it, so that the plan
it works through is not the one that is edited. Two of the stacks are of Ollama
and vLLM alone, two have roles and an orchestrator; only an id that is safe and
one that is not, a runtime with both packages and one with a single one are
needed to refuse a package. llama.cpp is in the module `Integrations`, not in
its instance. A stack with packages is looked at for one of the five runtimes
with a PID file and for the three without: what a prepare does with packages is
alike for all; two runtimes that differ in install and pull only are looked
at on a host where nothing is prepared.

Deadlock is checked where commands are made again and again. It is not in
`Governance_rules`, `Catalog_refresh`, `Profiles_lifecycle`, `Runtime_lifecycle`
and `Artifacts_render`: there the number of commands, hooks,
renderings or changes is bounded and the system stops when all are used.

Fairness is assumed in `FileLock_lock` only: a thread that can take its next
step is scheduled, a body ends, since bodies are a bounded piece of local file
I/O, and time passes. Nothing is assumed about which waiter the kernel serves,
and there is no fairness of calls, crashes or deletions. Waits end all the same
because of the deadline. The commands of the other modules are sequential
programs that end by themselves, or are killed; what they promise is about the
state they leave.

## 4. The proofs

All are for any number of threads, processes, paths, commands, actions, PIDs,
providers, limits and usages.

`PersistenceProofs`, on the lock. `LockInv` is inductive: the types,
`HeldPathsMatchBody`, `ThreadLockOwned` (between acquire and release a thread
owns its RLock, with a positive depth), and `FlockMatchesBody` (a thread in the
body has the flock of the file it opened, and a flock is had by nobody else).
Mutual exclusion alone is not inductive: it says nothing of a thread that has
polled the flock successfully while another is about to leave, nor that the
recursion count of an RLock cannot reach zero early. `LockStreamExclusion` and
`LockNoHoldAndWait` follow from `LockInv`; `LockMutualExclusion` needs
`NoRemoval`, that the directory stays: when a profile is removed and made again
while a lock in it is held, two writers are in the body for one path.

On the writers. `WritersLock`: every step of a writer is a step of `FileLock`
or leaves it alone, so the theorems above hold of the writers. `StoreInv` adds
that a thread between read and replace is in the body for its own document
(`BodySteps`), that the document it works from is still the current one
(`WorksOnCurrent`, which rests on mutual exclusion), and that every document is
whole and flushed. `DocumentsNeverTorn` follows, and `WritersRefineAtomicStore`:
`Replace` is a commit, the fsync of the directory makes the document durable,
power loss is power loss, everything else stutters. It assumes that no command
saves a document it read without the lock ("save" not in `Ops`): such a save
loses what was acknowledged meanwhile. So does `AcknowledgedStays`, which
also needs that a directory can be fsynced; its invariant says that what was
acknowledged is in the durable document too.

`TunnelProofs`. `TunnelInv` is inductive with and without pidfds. Its parts: a
command under way has the lock; recorded identities are of SSH processes this
program started, with start times in the past; what a command found out about
the record stays true while it has the lock; the descriptor of a stop means the
recorded process, or the record does not match any more. The last is the heart
of the matter: the pidfd is opened before the identity is compared, so a match
afterwards proves whose descriptor it is. `TunnelOwnsSignals` needs `HasPidfd`
(without pidfds a signal can reach a PID that was reused); the others do not.

On an MCP session, `SessionInv`: what the server holds between two steps of a
call (`Handled`) is of the message it read last, what it answered lies before
that message in the order they were sent, and the log has an event for each call
that is done with. The index of the message a reply answers (`to`) is history:
ids may repeat, so that a reply bears the right id would not say whose it is.

`ExecutionProofs`. `PromptInv` says of each stage of a route what the checks
behind it have established (`Admitted`) and that the log is empty until the
command has come to its outcome (`Logged`). A grant that a check saw may be
revoked before the request leaves; `seen` keeps what was seen, so the property
is about the check and not about the moment of the request. `QueryInv` says
that every verdict of `models doctor` rests on a probe already made with its
key (the cache of probes only grows), and that a streamed text is the part
received so far. `ModelsFit` says what the pages of a listing brought so far
(`PagesSoFar`): fewer than the limit, and when no page is cut off, exactly the
beginning of what matches. With it each of the ways to end a listing is shown to
end with a `TrueList`, for listings of any length, any limit and page size;
`OnlyAnswersReported` is that and `AnswerIsWhole`, its part about texts.

On budgets, `GuardrailsInv` counts threads. A bound on `granted` alone is not
inductive, because a call is granted long after its check. `RoomLeft` bounds
the counter together with the threads that were let through and have not counted
yet: where a check finds room these are all in progress now, hence at most
`overlap + 1`, and from there on each count takes one of them out.
`GrantsCounted` says that a grant was counted before, and `LateOnesKnown` that
after a stop the calls in flight only become fewer. `SerialHooksAreExact` is the
case of one thread. The threads are assumed to be finitely many.

`RuntimeProofs`. `ServerInv`: the PID file, the container and the port belong to
one server; while commands take turns and none is killed (`calm`) the command
that is under way knows which (`Knows`), and a prepare has done the steps before
the one it is at (`Preparing`, with `Brought` and `Fetched` for those whose
helper does something; that Ollama was installed shows only when a pull
succeeds, since its installer may exit with 0 and bring nothing). Without
`Knows` a stop could unlink the file of a server it has not signalled. `AdviceInv` says which report a host gets in
which round: three rounds suffice because what one advises stays done. It is
proved for every host, where the run has eight. `QuickstartInv` says what a
command has seen of the profile when it gets to a phase (`Reached`), with
kills between any two.

`ProfilesProofs`. `ProfilesInv`: the types; `Own`, what each command has made,
read or staged so far and that the directory still has it unless files were
deleted under the command (`robbed`); and `PartialIsBlamed`, that a partial
directory is answered for by a command that is still at work, has failed or
died, or was robbed. `SettledAreWhole` is not inductive without it: the last
command to end may be another one than the one that left the directory partial.

`ModelCatalogProofs`. `DocsInvariant` holds however commands overlap: discovered
entries have discovery's mark in the file, in memory and in what a process
parsed before. The others are about commands that take turns
(`Overlap = FALSE`): nothing in the code locks the documents from load to write,
and of two commands that overlap the later write wins. `TurnsInv` says that what
the command under way holds is what the two files hold, but for what it is about
to write (`CuratedHeld`, `GeneratedHeld`), that the ids which are in neither
what it will have written nor in what is still on file are those it was asked to
drop, and that a cache has the rows of its digest. `NothingIsLost` alone is not
inductive: it says of the first write nothing about the second. After a write
that failed only a refresh of all providers goes on, with entries the files do
not have; `unwritten` remembers that, and `RefreshLeavesReviewed` holds even
then, since what the refresh keeps of the file it keeps of what it holds
(`Reviewed` is transitive). Each of the nine ways to change the documents is
shown to be an `AllowedChange`; for `Reconcile` that takes the choice of the
first free alias, which exists by the well-founded order of the naturals.

`ProvidersProofs`. `ProvidersInv` is inductive over the steps of a command, not
over whole commands, since each may die between any two: `WriteKeeps` says that
the table a command is about to write hides what was removed, `UnlinkReaches`
that a clear leaves either the marker or the list it began with, and
`ClearedIsMarked` that cleared defaults are marked while they are away. Without
them `RemovedStaysRemoved` fails at the write of a command that read before.
`MachInv` types the commands on machines and says that a cache that cannot be
read owes nothing; `LiveAnswersStay` is part of it. `RankingFollows` needs no
invariant: it holds of all machines that can be imported.

On placement. The only invariant is that the machine is one of devices with
sizes (`PlaceTypeOK`), for any number of devices of any classes. From it,
`FeasibleIsHeld` gives for each mode of the assessment the devices, or the
memory, that hold the model. The modes are about the device with the largest
capacity and the group with the largest sum, so the lemmas show that a finite
set has a greatest member and that the group the assessment chooses is one of
the groups. `RecommendedAreRoutable` compares the two functions that read the
same limits.

On benchmarks. `RunsInv`: a run that started alone has no other next to it, so
the output in the work file is the last answer of its own model; without the
last part `OwnAnswersJudged` fails at the judge that finds another run's file.
`RecordsInv` follows a measurement from its export: the checksums of a bundle
stay those of the export whatever is done to the records beside them, so what an
import is about to write (`ToWrite`) was exported. `LeadersMeasuredAlike` holds
of every content of the directory, reached or not. That a group which is ready
has a leader needs `ScoresInv`, that records have scores wherever they are: then
means are quotients of whole numbers, and of finitely many one is greatest
(`GreatestQuotient`, by cross multiplication as in the model).

The folds of the community modules (a sum over devices or runs, the items of a
sequence at some places) are functions that a CHOOSE picks by their recursion.
That there is such a function, and what it computes, is shown by a least
counterexample: of the sizes of the sets on which it fails, the naturals' order
gives a least one, and the set with one member less contradicts it
(`SumsExist`, `SumIsNumber` here; `KeptExists`, `KeptAtPlaces` in
`ExecutionProofs`). This takes the place of an induction theorem with an
operator as its parameter, which the provers cannot instantiate.

`GovernanceProofs`. `GovernanceInv` is inductive over commands that interleave,
die, and whose appends fail: `NothingEarly` (no event and no effect of a command
before its outcome) and `SayAgrees` (what it is about to record agrees with what
it did, also after a failed append made the tool executor say "failed" of a call
that succeeded). `LossCounted` adds the count: the returned commands without a
line of their own, and one more while the last line is open, are no more than
the interrupted appends. The bound itself is not inductive: it is the open line
that the next event is lost to. `LogIsTruthful` is the whole of
`LogTellsTheTruth`; `GateHolds` needs only that a command asks the operator for
an action that requires approval.

On what is printed for other programs: `OnlyAllowedIsPrinted`,
`PassedStacksAreExported` and `HealthyMachinesExport` follow what doctors and
exports each look at, for any catalog, policy, grants and stored plan, and need
no invariant beyond the shape of what was printed last. The two about doctors
name what parts a doctor from an export: an override, which the doctor heeds and
the export does not, and of a stack the packages its runtime has no mode for.
`RenderedInv` says that whatever was rendered is whole and that every checksum
in a file is of a bundle that was rendered: a part can come from another bundle,
never its checksum from none. `SetupInv` says that what a setup pulled is in the store it was pulled
into (`Stored`), and that the model of every row it is done with was listed when
it looked or is in that store (`Fetched`), unless an action failed; the setup in
progress can rely on it because nothing is taken from a store. From it,
`CleanSetupsFetch`. It says nothing of servers, because the code learns nothing
of them but that a process was forked.

Assumptions on constants are in the modules that declare them and are what the
code gives: an absent value is no value of its set, limits are natural numbers,
threads and models are finitely many, aliases are sequences of names, the inputs
a module is given (settings, rows, messages, questions, surroundings, listings,
machines, measurement records) have the shape its records say. `Reconcile` of
`ModelCatalog` has a bound: a refresh finds a free alias for every new id, where
the code goes on to number one.

Every property the passing runs check is a theorem too, but for
`LocksAndWaitsEnd`: it is liveness under fairness, out of the prover's reach.
(`OwnedSurvives` is false of the code; `RefreshLeavesReviewed` proves what is
left of it.) Theorems without a run
are about the inductive invariants, or are stronger readings of the same
argument (`LockMutualExclusion`, `DocumentsNeverTorn`, `TunnelsAreSingle`,
`MalformedStateIsKept`, `LateGrantsAreBounded`, `SerialHooksAreExact`,
`MarkerKeepsAway`). TLC has checked each inductive invariant on the instance of
its module's run.

## 5. Not modelled

Text: renderers of configuration, deployment and client files, redaction, the
wording of findings and remediations, argument parsing. Sequential computations
over rows that unit tests reach: model queries, filters, role routing, the
weighted score of `scoring.py`, profile comparison, statistics of benchmarks,
static definitions of runtimes and their evidence. The outside: what tools, SSH,
Docker and model services do is a choice over their outcomes. The Windows branch
of the lock is taken to exclude as flock does; network file systems are not
considered. The components table of `PROJECT.json` names every source module
with its status.

### What the models leave open because the code does

These are faults of some kind or promises the code does not make. Where a
property would be false because of one, the property names the exception, and
the model has the behaviour:

| Property | Does not say |
|---|---|
| `GateHonoursPolicy` | anything of a grant revoked between the decision and the work |
| `OverageStops` | that a response refused half way stops the run; its first count is added |
| `CatalogInv` | anything of commands that overlap, or of a process after a write that failed |
| `ReviewedSurvives` | anything of promoted entries, see `OwnedSurvives` |
| `NothingIsLost` | that an entry a command was asked to drop, or a refresh moves, is always in one of the two files |
| `NoServerIsLost` | anything of two starts at once, a kill after the fork, or a PID file that cannot be written |
| `CompletedIsPrepared` | that a model is there where the helper only prints a hint (llama.cpp install and pull, LocalAI pull, LM Studio), or that a downloaded gguf is a model |
| `AdviceConverges` | anything of rounds in which an install brings nothing onto the PATH |
| `LiveStaysLive` | that an answer survives another command that writes back an older cache |
| `OwnAnswersJudged` | anything of runs that were not alone |
| `ExportsAreAllowed` | that provider and endpoint are those of now; they are the plan's |
| `CleanSetupFetches` | that what was started runs |
| `PassedStackExports` | that every package can be written (the runtime may lack the mode, the model id may be unsafe), or a client configuration for a model that a grant alone allows |
| `HealthyExports` | that a default allowed by an override alone can be exported |
| `ValidExactlyWhenRendered` | anything of a bundle's top-level name, notes and execution boundary, which validation does not look at; they are not in the model |

The rest limits what a property could be asked to say.

*Files.* A torn audit line makes the next event unreadable, and the two
together count as one. A save that loads a document and writes it whole loses
changes made meanwhile (all settings managers; `env.py:62`). A directory that
cannot be opened is not fsynced, without an error (`persistence.py:206`). A
restore's rename can replace an empty directory another command has just made.
A receipt may be replaced by an older one when two hooks overlap
(`agent_guardrails.py:271`); gates never read it. A grant is stored without an
event when the command dies in between (`cli_governance.py:229`). A patch is
read again by `git apply` after it was inspected (`patches.py:61`).

*Catalog and providers.* A promoted entry keeps its discovery notes, and the
next refresh moves or prunes it, against `docs/user/providers.md:308`: run
`Catalog_promoted`. In a profile without provider files the
first enable, disable, add or remove creates the user's file, and every other
built-in provider is no longer listed (`providers.py:375`,
`cli_providers.py:137`, against `docs/user/providers.md:263`);
`update-defaults` ignores the legacy file and undoes the marker of a clear.

*Connections.* Hubs get the filter and the limit of a listing as parameters of
the request; the model filters and cuts what comes back. Readiness looks at the credential's endpoint and takes a missing
`auth.required` for no; the adapters use only the provider's endpoint, ask for a
key by default and fall back to well-known variables readiness does not look at:
"ready" can still end in an error. A limit of Civitai above 100 that is no
multiple of 100 shifts the last page. One alias with a reference to no
credential ends the whole of `models doctor`. An answer without choices is an
empty success.

*Routing.* Code tasks and chat ask neither policy nor the enabled flag. A route
that finds no alias records no event. An append that fails after the answer
makes the command fail.

*Servers.* `prepare` installs and then pulls, but the container a pull needs is
created by `start` (`docs/user/machines-and-stacks.md:399,416`). A start that succeeded has
forked a process; whether it runs nobody asks. The helper knows no provider
mlx, so every lifecycle step of an mlx stack ends with exit code 2; that kind is
not in the model. A deploy's
nested prepare that fails ends with exit code 0 (`cli_stacks.py:489`). Two
overlapping starts can lose a server (`scripts/provider_helper.sh:117`), and a
PID that was reused makes start report "already running".

*MCP.* A body of `null` ends the session with status 0. A request whose id is
absent may still be answered with a null id. "Either missing guard blocks ...
and writes a blocked audit event" (`docs/user/mcp.md:130`) does not hold for
arguments the schema rejects, a profile that cannot be loaded or an append that
fails.

*Hardware and benchmarks.* All devices of the largest group are used, so adding
a device can take a model its place. An unreadable machine cache reads as empty
and the next write loses the rest. Two runs of one task share its work files;
calibration bundles of one second overwrite each other; `compare --by context`
can never be ready for controlled records, because the context length is part
of what must be equal.

*Exports and stacks.* A plan may call a Codex plan with a remote Ollama
renderable that cannot be exported. Package and framework exports of a stack ask
no policy. Decisions apply the grants of the policy state, exports ask the base
policy (`policy.py:118`, `integrations.py:546`): a doctor, of the host or of a
stack, that a grant has satisfied is followed by an export that refuses. A
bundle that was edited and given new checksums validates.

*Diagnosis.* The matrix says of `local_runtime` what the doctor overrides. On
Windows and on distributions without an entry `tools install` prints no
commands, or those for Linux. pip in a virtual environment, a conda one or a
container brings nothing onto the PATH. A VM provider name that is none ends
every report on Vagrant. The remediation
`aiplane environment doctor --required-only --include-optional` uses a flag that
command does not have (`local_doctor.py:943`, `cli_setup.py:92`). A policy that
forbids cloud backends is always a blocking finding.

*First commands.* A pull that fails leaves quickstart's exit code 0.
"ready_to_export" does not ask the policy. A quickstart killed in the copy
leaves a half profile that each later one refuses to load, until `--overwrite`
or a repair.

## 6. What is left

1. `Runtime` with a stack on a remote host, and the doctor's probes of it.
2. The materialized catalog that a benchmark run rebuilds, composed with
   `ModelCatalog`.
3. Role routing and model filters, against reference definitions.
