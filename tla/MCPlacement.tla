---------------------------- MODULE MCPlacement ----------------------------
(* Two questions before a model is taken: whether it fits this machine       *)
(* (Placement), and what it measured (Benchmarks).  They share no state.     *)
EXTENDS Placement, Benchmarks

CONSTANTS c1, c2

VARIABLE question

Big == [weights |-> 2500, params |-> 0, bits |-> 16, kv |-> 100, heads |-> 32,
        minRam |-> None, recRam |-> None, minVram |-> None, recVram |-> None]

\* An 8b model by its parameters, sized in the row, and with no size at all; 6
\* heads, which three devices share and two do, but not four.
MCModels ==
    {Big, [Big EXCEPT !.heads = 6], [Big EXCEPT !.heads = None, !.kv = None],
     [Big EXCEPT !.weights = None, !.params = 8, !.minRam = 1600, !.recRam = 6400],
     [Big EXCEPT !.weights = None, !.params = 14, !.bits = 4, !.minVram = 1200, !.recVram = 2400],
     [Big EXCEPT !.weights = None]}

Nvidia == [vendor |-> "nvidia", name |-> "24GB", backend |-> "cuda"]
Apple == [vendor |-> "apple", name |-> "unified", backend |-> "metal"]
Older == [Nvidia EXCEPT !.name = "12GB"]
Arc == [vendor |-> "intel", name |-> "16GB", backend |-> "openvino"]
MCClasses == {Nvidia, Older, Apple, Arc}
NewDevice(class, total) == [class |-> class, total |-> total, free |-> None]

MCMachines ==
    {[ram |-> 1600, devices |-> <<>>],
     [ram |-> 3200, devices |-> <<NewDevice(Nvidia, 2400)>>],
     [ram |-> 3200, devices |-> <<NewDevice(Nvidia, 2400), NewDevice(Nvidia, 2400)>>],
     [ram |-> 3200, devices |-> <<NewDevice(Nvidia, 2400), NewDevice(Older, 1200)>>],
     [ram |-> 1600, devices |-> <<NewDevice(Arc, 1600)>>],
     [ram |-> 6400, devices |-> <<NewDevice(Apple, 4800)>>]}

-----------------------------------------------------------------------------

QualitySuite == [kind |-> "quality", comparable |-> TRUE]
Warm == [status |-> "controlled", mode |-> "warm", context |-> 8]
Sample == [passed |-> TRUE, quality |-> 100, ttft |-> 20, source |-> TRUE]
Estimate == [Sample EXCEPT !.source = FALSE]

Measurement ==
    [model |-> "m", name |-> "ollama", names |-> <<>>, machine |-> "box", context |-> 8,
     quantization |-> "q4", suite |-> QualitySuite, decoding |-> "greedy",
     calibration |-> Warm, runs |-> <<Sample>>, dry |-> FALSE, secret |-> FALSE,
     summary |-> Nil]

\* Comparable ones, of which one has one run without telemetry and one was cold,
\* an estimate, and a preview of other settings.
MCBrought ==
    LET elsewhere == [Measurement EXCEPT !.name = "vllm"] IN
    {Measurement,
     [elsewhere EXCEPT !.runs = <<[Sample EXCEPT !.quality = 40], [Estimate EXCEPT !.ttft = Nil]>>],
     [elsewhere EXCEPT !.calibration.mode = "cold"],
     [Measurement EXCEPT !.runs = <<Estimate>>],
     [elsewhere EXCEPT !.quantization = "q8", !.decoding = "sampled",
                       !.calibration = [status |-> "uncontrolled"], !.dry = TRUE]}

MCSymmetry == Permutations(Runner)

MCInit ==
    /\ BenchInit
    /\ \/ question = "fits" /\ PlaceInit
       \/ /\ question \in {"runs", "records"}
          /\ model = [Big EXCEPT !.weights = None] /\ machine = [ram |-> 1600, devices |-> <<>>]
          /\ runtime = "none" /\ context = 2048 /\ supports = TRUE /\ allowed = TRUE

MCNext ==
    /\ UNCHANGED question
    /\ \/ question = "fits" /\ PlaceNext /\ UNCHANGED benchVars
       \/ question = "runs" /\ RunsNext /\ UNCHANGED placeVars
       \/ question = "records" /\ RecordsNext /\ UNCHANGED placeVars

MCSpec == MCInit /\ [][MCNext]_<<question, placeVars, benchVars>>
=============================================================================
