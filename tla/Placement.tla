----------------------------- MODULE Placement -----------------------------
(***************************************************************************)
(* Which local models a machine can run: the memory estimate of a model,   *)
(* the placement modes of a runtime on the devices of the machine, the     *)
(* level recommend gives the model, and the check a route makes before it  *)
(* sends a prompt.                                                         *)
(*                                                                         *)
(* The assessment is a pure function.  It is asked again while other       *)
(* programs take and release memory, devices and memory are added, and     *)
(* the operator asks for another context length.  Memory is in hundredths  *)
(* of a GB.                                                                *)
(***************************************************************************)
EXTENDS Integers, Sequences, FiniteSets, FiniteSetsExt

CONSTANTS
    Models,     \* rows of local models
    Classes,    \* vendor, name and backend of a device
    Machines,   \* machines to start from
    Runtimes,   \* runtimes to ask for, see Split
    RamSizes, FreeSizes, Contexts,  \* what the environment changes them to
    MaxDevices,
    None

Device == [class : Classes, total : Nat, free : Nat \cup {None}]
Machine == [ram : Nat, devices : Seq(Device)]

ASSUME PlacementAssumption ==
    /\ Machines \subseteq Machine
    /\ RamSizes \cup FreeSizes \cup Contexts \subseteq Nat
    /\ MaxDevices \in Nat

VARIABLES
    model, machine, runtime,
    context,   \* the context length asked for
    supports,  \* the model declares support for the runtime
    allowed    \* the policy allows the model

placeVars == <<model, machine, runtime, context, supports, allowed>>

-----------------------------------------------------------------------------
(* estimate_resources.                                                     *)

\* weights: the configured size, or None; params: billions of parameters, or 0;
\* bits of the quantization; kv: size of the cache per 1024 tokens, or None.
Weights(m) ==
    IF m.weights # None THEN m.weights
    ELSE IF m.params > 0 THEN (m.params * m.bits * 110) \div 8
    ELSE None

\* The total, or None when the size of the weights is not known.
Required(m, tokens) ==
    LET w == Weights(m)
        kv == IF m.kv = None THEN 0 ELSE (m.kv * tokens) \div 1024
    IN  IF w = None THEN None ELSE w + kv + Max({50, (w * 5) \div 100})

-----------------------------------------------------------------------------
(* _placement_modes.  A device has a class (vendor, name, backend), a total *)
(* size and the free one, or None.                                          *)

Backends(r) ==
    CASE r = "vllm"   -> {"cuda", "rocm"}
      [] r = "ollama" -> {"cuda", "rocm", "metal"}
      [] r = "lmstudio" -> {"cuda", "metal", "vulkan"}
      [] OTHER -> {"cuda", "rocm", "metal", "vulkan", "openvino", "unknown"}

Split(r) ==
    CASE r = "vllm"   -> "tensor_parallel"
      [] r = "ollama" -> "tensor_split"
      [] OTHER        -> None

Offloads(r) == r \in {"ollama", "lmstudio"}

Capacity(d) == IF d.free # None THEN d.free ELSE (d.total * 9) \div 10

\* Indices of the devices the runtime has a backend for.
Usable(devices, r) == {i \in DOMAIN devices : devices[i].class.backend \in Backends(r)}

BestCapacity(devices, r) ==
    LET sizes == {Capacity(devices[i]) : i \in Usable(devices, r)}
    IN  IF sizes = {} THEN 0 ELSE Max(sizes)

Total(devices, S) == MapThenSumSet(LAMBDA i : Capacity(devices[i]), S)

\* Devices of one class, where there are several.
Groups(devices, r) ==
    {S \in {{j \in Usable(devices, r) : devices[j].class = devices[i].class} :
                i \in Usable(devices, r)} : Cardinality(S) > 1}

\* Every usable device is in one group.
AllTogether(devices, r) ==
    IF Cardinality(Usable(devices, r)) > 1 THEN Usable(devices, r) ELSE {}

\* The group with the most memory, the one that comes first among equals.
Group(devices, r) ==
    LET groups == Groups(devices, r)
        most == {S \in groups : \A T \in groups : Total(devices, S) >= Total(devices, T)}
    IN  IF groups = {} THEN {}
        ELSE CHOOSE S \in most : \A T \in most : Min(S) <= Min(T)

\* A tensor-parallel runtime gives each device the same number of heads.
HeadsDivide(m, r, S) ==
    Split(r) = "tensor_parallel" /\ m.heads # None => m.heads % Cardinality(S) = 0

OfRam(ram) == (ram * 8) \div 10

\* The feasible modes, the preferred one first.
FeasibleModes(m, mc, r, tokens) ==
    LET need == Required(m, tokens)
        best == BestCapacity(mc.devices, r)
        group == Group(mc.devices, r)
        modes ==
          (IF Usable(mc.devices, r) # {} /\ best >= need THEN <<"single_gpu">> ELSE <<>>) \o
          (IF /\ Split(r) # None /\ group # {}
              /\ HeadsDivide(m, r, group) /\ Total(mc.devices, group) >= need
           THEN <<Split(r)>> ELSE <<>>) \o
          (IF Offloads(r) /\ best + OfRam(mc.ram) >= need THEN <<"cpu_offload">> ELSE <<>>) \o
          (IF OfRam(mc.ram) >= need THEN <<"cpu_only">> ELSE <<>>)
    IN  IF need = None THEN <<>> ELSE modes

Eligible(m, mc, r, tokens) == FeasibleModes(m, mc, r, tokens) # <<>>

-----------------------------------------------------------------------------
(* recommend and the fit check of a route.                                 *)

\* The largest device by its total size.
MaxVram(mc) ==
    IF mc.devices = <<>> THEN 0 ELSE Max({mc.devices[i].total : i \in DOMAIN mc.devices})

Meets(have, want) == want = None \/ have >= want

\* HardwareManager.check_model_fit, for a local row.
FitModel(m, mc) == Meets(mc.ram, m.minRam) /\ Meets(MaxVram(mc), m.minVram)

\* The minimums are taken for the targets and a gap is no blocker.
RecommendModelSoft(m, mc, ok) ==
    IF ~ok THEN "not_recommended"
    ELSE IF Meets(mc.ram, m.recRam) /\ Meets(MaxVram(mc), m.recVram)
    THEN "recommended" ELSE "usable"

RecommendModel(m, mc, ok) ==
    IF ~ok \/ ~(Meets(mc.ram, m.minRam) /\ Meets(MaxVram(mc), m.minVram))
    THEN "not_recommended"
    ELSE IF Meets(mc.ram, m.recRam) /\ Meets(MaxVram(mc), m.recVram)
    THEN "recommended" ELSE "usable"

\* HardwareManager.recommend: placement is a gate of its own.
Level ==
    IF ~Eligible(model, machine, runtime, context) THEN "not_recommended"
    ELSE RecommendModel(model, machine, allowed /\ supports)

-----------------------------------------------------------------------------

PlaceInit ==
    /\ model \in Models
    /\ machine \in Machines
    /\ runtime \in Runtimes
    /\ context \in Contexts
    /\ supports \in BOOLEAN /\ allowed \in BOOLEAN

\* discover runs again for every question: it sees what is free now.
MemoryChanges ==
    \E i \in DOMAIN machine.devices, free \in FreeSizes :
        /\ free <= machine.devices[i].total
        /\ machine' = [machine EXCEPT !.devices[i].free = free]
        /\ UNCHANGED <<model, runtime, context, supports, allowed>>

RamChanges ==
    \E ram \in RamSizes :
        /\ machine' = [machine EXCEPT !.ram = ram]
        /\ UNCHANGED <<model, runtime, context, supports, allowed>>

AddDevice ==
    \E i \in DOMAIN machine.devices :
        /\ Len(machine.devices) < MaxDevices
        /\ machine' = [machine EXCEPT !.devices = Append(@, @[i])]
        /\ UNCHANGED <<model, runtime, context, supports, allowed>>

AskAgain ==
    \E tokens \in Contexts :
        /\ context' = tokens
        /\ UNCHANGED <<model, machine, runtime, supports, allowed>>

PlaceNext == MemoryChanges \/ RamChanges \/ AddDevice \/ AskAgain

PlaceSpec == PlaceInit /\ [][PlaceNext]_placeVars

-----------------------------------------------------------------------------
(* Properties.                                                             *)

\* The reference: a set of devices the runtime can use, one of them or several
\* of one class that the runtime can split the model over, holds the model;
\* failing that, a share of the system memory does, alone or with a device.
CanHold ==
    LET need == Required(model, context)
        dev == machine.devices
        ram == (machine.ram * 4) \div 5
    IN
    /\ need # None
    /\ \/ \E S \in SUBSET DOMAIN dev :
            /\ S # {}
            /\ \A i \in S : dev[i].class.backend \in Backends(runtime)
            /\ Cardinality(S) > 1 =>
                 /\ Split(runtime) # None
                 /\ \A i, j \in S : dev[i].class = dev[j].class
                 /\ HeadsDivide(model, runtime, S)
            /\ Total(dev, S) >= need
       \/ ram >= need
       \/ /\ Offloads(runtime)
          /\ \E i \in Usable(dev, runtime) : Capacity(dev[i]) + ram >= need

\* Placement: an eligible model fits somewhere, with VRAM combined only over
\* equal devices of a runtime that splits models.  (The converse needs more:
\* the code looks at all devices of one group, so a runtime that could use two
\* of three is not found.)
EligibleFits == Eligible(model, machine, runtime, context) => CanHold

\* recommend and run: a model recommend lists as recommended or usable is not
\* turned away by the fit check of the route on the same machine.
RecommendedIsRoutable ==
    Level # "not_recommended" => allowed /\ supports /\ FitModel(model, machine)
=============================================================================
