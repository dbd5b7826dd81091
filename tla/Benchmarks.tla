----------------------------- MODULE Benchmarks -----------------------------
(***************************************************************************)
(* The benchmark records of a workspace (benchmarks.py,                    *)
(* benchmark_evidence.py, benchmark_comparison.py): runs that ask a model  *)
(* and have its answer judged, measurements and bundles from elsewhere,    *)
(* and the comparison that names leaders.                                  *)
(*                                                                         *)
(* A record is one file; nothing locks the directory.  Runs that have a    *)
(* command judge the answer hand it over in work files named by the task,  *)
(* which every run of the task shares.                                     *)
(***************************************************************************)
EXTENDS Integers, Sequences, FiniteSets, FiniteSetsExt, SequencesExt

CONSTANTS
    Runner,       \* benchmark and import commands, run over and over
    Measured,     \* aliases of models
    Suite,        \* the suite of the runs, whose tasks a command judges: [kind, comparable]
    Brought,      \* measurement records that users write
    MaxFiles,     \* bound: records in the directory
    MaxSecond,    \* bound: the time, in seconds; file names have it
    NoBench,      \* no job, no bundle
    Nil           \* an absent value

\* What is brought is a record of runs, each with a score.
ASSUME BenchmarksAssumption ==
    \A r \in Brought :
        /\ r.runs \in Seq(ToSet(r.runs))
        /\ \A run \in ToSet(r.runs) : run.quality \in Int

VARIABLES
    files,     \* records by file name
    output,    \* the work file with the answer to judge
    bundle,    \* the calibration bundle on its way: [records, checksums]
    exported,  \* records some export put into a bundle
    second,
    benchJob   \* [Runner -> what the command is doing]

benchVars == <<files, output, bundle, exported, second, benchJob>>

-----------------------------------------------------------------------------
(* Records.  A run is [passed, quality, ttft, source]: BOOLEAN or Nil, a    *)
(* score, a latency or Nil, and whether the latency has a telemetry source. *)

Controlled(r) == r.calibration.status = "controlled"

\* validate_measurement_record, of what a record may lack.
Validates(r) ==
    /\ ~r.secret
    /\ Len(r.runs) > 0
    /\ Controlled(r) =>
         /\ r.calibration.mode \in {"cold", "warm", "mixed"}
         /\ r.calibration.context >= 1
         /\ \A i \in DOMAIN r.runs : r.runs[i].ttft # Nil => r.runs[i].source

\* The validated record: the summary is made anew from the runs, and what the
\* contract does not name, as dry_run, is dropped.
QualitySum(runs) == MapThenSumSet(LAMBDA i : runs[i].quality, DOMAIN runs)

Canonical(r) ==
    [model |-> r.model, name |-> r.name, names |-> r.names, machine |-> r.machine,
     context |-> r.context, quantization |-> r.quantization, suite |-> r.suite,
     decoding |-> r.decoding, calibration |-> r.calibration, runs |-> r.runs,
     secret |-> r.secret, dry |-> FALSE,
     summary |-> [n |-> Len(r.runs), quality |-> QualitySum(r.runs)]]

-----------------------------------------------------------------------------
(* A run of the suite for one model: BenchmarkRunner.run.                   *)

Free(c) == benchJob[c] = NoBench

Doing(c, at) == benchJob[c] # NoBench /\ benchJob[c].at = at

To(c, job) == benchJob' = [benchJob EXCEPT ![c] = job]

\* said: what the model answered to each run; alone: no other run in between.
RunBegin(c) ==
    /\ Free(c)
    /\ \E m \in Measured, repeats \in 1..2 :
          benchJob' = [d \in Runner |->
              IF d = c THEN [at |-> "ask", who |-> m, left |-> repeats, runs |-> <<>>,
                             said |-> <<>>, alone |-> \A e \in Runner : Free(e)]
              ELSE IF benchJob[d] # NoBench /\ "alone" \in DOMAIN benchJob[d]
              THEN [benchJob[d] EXCEPT !.alone = FALSE] ELSE benchJob[d]]
    /\ UNCHANGED <<files, output, bundle, exported, second>>

Result(passed) ==
    [passed |-> passed, quality |-> IF passed THEN 100 ELSE 0, ttft |-> Nil, source |-> FALSE]

Judged(j, passed) ==
    [j EXCEPT !.runs = Append(@, Result(passed)), !.left = @ - 1,
              !.at = IF j.left = 1 THEN "save" ELSE "ask"]

\* The answer to one prompt.  An error of the backend is a failed run.
RunTask(c) ==
    /\ Doing(c, "ask")
    /\ \E answer \in {"right", "wrong", "error"} :
          LET j == [benchJob[c] EXCEPT !.said = Append(@, answer)]
          IN  IF answer = "error"
              THEN To(c, Judged(j, FALSE))
              ELSE To(c, [j EXCEPT !.at = "hand over"])
    /\ UNCHANGED <<files, output, bundle, exported, second>>

\* Mutant of HandOver: the work file of an earlier run is kept.
HandOverOnce(c) ==
    /\ Doing(c, "hand over")
    /\ output' = IF output = Nil THEN Last(benchJob[c].said) ELSE output
    /\ To(c, [benchJob[c] EXCEPT !.at = "judge"])
    /\ UNCHANGED <<files, bundle, exported, second>>

\* _evaluate: the answer is written to the work file of the task.
HandOver(c) ==
    /\ Doing(c, "hand over")
    /\ output' = Last(benchJob[c].said)
    /\ To(c, [benchJob[c] EXCEPT !.at = "judge"])
    /\ UNCHANGED <<files, bundle, exported, second>>

\* The command of the suite judges what is in the file.
Evaluate(c) ==
    /\ Doing(c, "judge")
    /\ To(c, Judged(benchJob[c], output = "right"))
    /\ UNCHANGED <<files, output, bundle, exported, second>>

\* The record of a run is uncontrolled; its runtimes are named in a list.
RecordOf(c) ==
    Canonical([model |-> benchJob[c].who, name |-> Nil, names |-> <<"ollama">>, machine |-> Nil,
               context |-> Nil, quantization |-> Nil, suite |-> Suite, decoding |-> Nil,
               calibration |-> [status |-> "uncontrolled"], runs |-> benchJob[c].runs,
               dry |-> FALSE, secret |-> FALSE, summary |-> Nil])

\* The directory with a record under a name, a new one or in its place.
With(n, r) == [k \in DOMAIN files \cup {n} |-> IF k = n THEN r ELSE files[k]]

Room(n) == n \in DOMAIN files \/ Cardinality(DOMAIN files) < MaxFiles

SaveRun(c) ==
    /\ Doing(c, "save")
    /\ LET n == <<"run", second, benchJob[c].who>>
       IN  /\ Room(n)
           /\ files' = With(n, RecordOf(c))
    /\ To(c, NoBench)
    /\ UNCHANGED <<output, bundle, exported, second>>

\* The evaluator runs out of time, a work file cannot be written, the command
\* is killed: no record.
BenchEnds(c) ==
    /\ ~Free(c)
    /\ To(c, NoBench)
    /\ UNCHANGED <<files, output, bundle, exported, second>>

-----------------------------------------------------------------------------
(* Measurements and bundles from elsewhere.                                 *)

ImportRecord ==
    /\ \E r \in Brought :
          LET n == <<"imported", Cardinality(DOMAIN files), r.model>> IN
          /\ Validates(r)
          /\ Room(n) /\ n \notin DOMAIN files
          /\ files' = With(n, Canonical(r))
    /\ UNCHANGED <<output, bundle, exported, second, benchJob>>

\* Records that are there and valid; others are warned about.
Evidence == {n \in DOMAIN files : Validates(files[n])}

\* calibration-export
ExportBundle ==
    /\ LET names == SetToSeq({n \in Evidence : Controlled(files[n])})
           rs == [i \in DOMAIN names |-> Canonical(files[names[i]])]
       IN  /\ bundle' = [records |-> rs, checksums |-> rs]
           /\ exported' = exported \cup Range(rs)
    /\ UNCHANGED <<files, output, second, benchJob>>

\* Mutant of Accepts: as many checksums as records will do.
AcceptsCount(b) ==
    /\ Len(b.records) = Len(b.checksums)
    /\ \A i \in DOMAIN b.records : Validates(b.records[i]) /\ Controlled(b.records[i])

Accepts(b) ==
    /\ Len(b.records) = Len(b.checksums)
    /\ \A i \in DOMAIN b.records : Validates(b.records[i]) /\ Controlled(b.records[i])
    /\ [i \in DOMAIN b.records |-> Canonical(b.records[i])] = b.checksums

\* calibration-import: all records are checked before the first is written.
ImportBegin(c) ==
    /\ \A d \in Runner : Free(d)   \* bound: one import at a time
    /\ bundle # NoBench
    /\ Accepts(bundle)
    /\ To(c, [at |-> "write", records |-> bundle.records, i |-> 1])
    /\ UNCHANGED <<files, output, bundle, exported, second>>

ImportWrite(c) ==
    /\ Doing(c, "write")
    /\ LET j == benchJob[c]
           n == <<"calibration", j.i, j.records[j.i].model>>
       IN  IF j.i > Len(j.records)
           THEN To(c, NoBench) /\ UNCHANGED files
           ELSE /\ Room(n)
                /\ files' = With(n, Canonical(j.records[j.i]))
                /\ To(c, [j EXCEPT !.i = @ + 1])
    /\ UNCHANGED <<output, bundle, exported, second>>

\* The environment: somebody edits a record of the bundle, drops one or brings
\* another, without new checksums; bound: once.
EditBundle ==
    /\ bundle # NoBench /\ bundle.records = bundle.checksums
    /\ \E i \in DOMAIN bundle.records :
          \/ \E r \in Brought : bundle' = [bundle EXCEPT !.records[i] = r]
          \/ bundle' = [bundle EXCEPT !.records = RemoveAt(@, i)]
    /\ UNCHANGED <<files, output, exported, second, benchJob>>

\* A record file is edited by hand.
EditFile ==
    /\ \E n \in DOMAIN files, r \in Brought :
          /\ n[1] = "imported" /\ r.model = n[3]
          /\ files' = [files EXCEPT ![n] = r]
    /\ UNCHANGED <<output, bundle, exported, second, benchJob>>

SecondPasses ==
    /\ second < MaxSecond /\ second' = second + 1
    /\ UNCHANGED <<files, output, bundle, exported, benchJob>>

-----------------------------------------------------------------------------
(* compare_benchmarks.                                                      *)

Dimension == {"runtime", "model", "machine", "quantization", "context"}

\* The runtime by its name, or by the one backend of a run.
RuntimeOf(r) == IF r.name # Nil THEN r.name ELSE Head(r.names)

Value(r, d) ==
    CASE d = "runtime" -> RuntimeOf(r)
      [] d = "model"   -> r.model
      [] d = "machine" -> r.machine
      [] d = "quantization" -> r.quantization
      [] d = "context" -> r.context

\* Mutant of Basis: conditions of the measurement do not count.
BasisOfSuite(r, d) == [suite |-> r.suite, others |-> [e \in Dimension \ {d} |-> Value(r, e)]]

\* What records must share to be compared.
Basis(r, d) ==
    [suite |-> r.suite, decoding |-> r.decoding, calibration |-> r.calibration,
     others |-> [e \in Dimension \ {d} |-> Value(r, e)]]

Rows == {Canonical(files[n]) : n \in {k \in Evidence : ~files[k].dry}}

ComparisonGroups(d) == {{s \in Rows : Basis(s, d) = Basis(r, d)} : r \in Rows}

\* The flags of a group are those of its first row.
Ready(group, d) ==
    /\ \E r \in group : r.suite.comparable /\ Controlled(r)
    /\ Cardinality({Value(r, d) : r \in group}) >= 2

\* Best means, compared without division.
QualityLeaders(group) ==
    {r \in group : \A s \in group :
        r.summary.quality * s.summary.n >= s.summary.quality * r.summary.n}

\* The runs whose time to the first token somebody vouches for, and their sum.
Timed(r) == {i \in DOMAIN r.runs : r.runs[i].source /\ r.runs[i].ttft # Nil}

Latency(r) == MapThenSumSet(LAMBDA i : r.runs[i].ttft, Timed(r))

\* The least average, compared without division.
LatencyLeaders(group) ==
    LET exact == {r \in group : Timed(r) # {}}
    IN  {r \in exact : \A s \in exact :
            Latency(r) * Cardinality(Timed(s)) <= Latency(s) * Cardinality(Timed(r))}

BenchInit ==
    /\ files = <<>>
    /\ output = Nil
    /\ bundle = NoBench
    /\ exported = {}
    /\ second = 1
    /\ benchJob = [c \in Runner |-> NoBench]

\* Runs, that save records and read none.
RunsNext ==
    \/ \E c \in Runner :
          \/ RunBegin(c) \/ RunTask(c) \/ HandOver(c) \/ Evaluate(c) \/ SaveRun(c)
          \/ BenchEnds(c)
    \/ SecondPasses

\* Records, whoever made them, on their way between workspaces.
RecordsNext ==
    \/ \E c \in Runner : ImportBegin(c) \/ ImportWrite(c) \/ BenchEnds(c)
    \/ ImportRecord \/ ExportBundle
    \/ EditBundle \/ EditFile

BenchSpec == BenchInit /\ [][RunsNext \/ RecordsNext]_benchVars

-----------------------------------------------------------------------------
(* Properties.                                                             *)

\* A run that no other overlapped is judged by the model's own answers, never
\* by what an earlier run, perhaps of another model, left in the work file.
OwnAnswersJudged ==
    \A c \in Runner :
        Doing(c, "save") /\ benchJob[c].alone =>
            \A i \in DOMAIN benchJob[c].runs :
                benchJob[c].runs[i].passed = (benchJob[c].said[i] = "right")

\* "calibration-import --yes succeeds only after checksum and provenance
\* validation" (manual-test-checklist.md): whatever is done to a bundle on its
\* way, an import leaves only controlled records that some export put there.
ImportedWasExported ==
    \A n \in DOMAIN files : n[1] = "calibration" => files[n] \in exported /\ Controlled(files[n])

\* "A group reports leaders only when at least two distinct values are present,
\* the suite declares explicit comparability metadata, and every row declares
\* matching controlled calibration conditions", and "TTFT leadership uses only
\* runs with a non-empty telemetry_source" (benchmarks.md).
LeadersAreComparable ==
    \A d \in Dimension : \A group \in ComparisonGroups(d) : Ready(group, d) =>
        /\ \A r, s \in group :
              /\ r.suite = s.suite /\ r.suite.comparable /\ r.decoding = s.decoding
              /\ Controlled(r) /\ r.calibration = s.calibration
              /\ \A e \in Dimension \ {d} : Value(r, e) = Value(s, e)
        /\ QualityLeaders(group) # {}
        /\ \A r \in LatencyLeaders(group) :
              \A i \in DOMAIN r.runs : r.runs[i].ttft # Nil => r.runs[i].source
=============================================================================
