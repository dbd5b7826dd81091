----------------------------- MODULE MCProviders -----------------------------
(* Two inventories of a user, asked of one run: the providers of a profile   *)
(* (Providers) and the machines one could take (Machines).  They share no    *)
(* state: a behaviour is about one of them.                                  *)
EXTENDS Providers, Machines

CONSTANTS ollama, huggingface, gateway, d1, d2, t4, a100, cpu16, box, other

VARIABLE inventory

MachineOf(cores, ram, vram, vendor) ==
    [cores |-> cores, ram |-> ram, unified |-> Unset, vram |-> vram, vendor |-> vendor]

MCHint ==
    [s \in {t4, a100, cpu16} |->
        CASE s = t4 -> MachineOf(4, 28, 16, "nvidia")
          [] s = a100 -> MachineOf(24, 220, 80, "nvidia")
          [] OTHER -> MachineOf(16, 64, 0, "none")]

\* A machine that shares its memory, for which a vram of 0 or none is valid.
MCElsewhere == {[MachineOf(12, Unset, 0, "apple") EXCEPT !.unified = 64]}
MCImportValues == {<<>>, [vram |-> Unset]}
MCWorkload == [w \in {"inference_medium"} |-> [ram |-> 64, vram |-> 24]]
MCAlias ==
    [m \in {"chat", "coder"} |->
        [minRam |-> 16, minVram |-> Unset, recRam |-> 64,
         recVram |-> IF m = "coder" THEN 24 ELSE Unset]]

Chat == [model |-> "chat", workload |-> Unset, vendor |-> Unset, cpu |-> 0, ram |-> 0, vram |-> 0]
MCAsked ==
    {[Chat EXCEPT !.vendor = "nvidia", !.cpu = 8],
     [Chat EXCEPT !.model = "coder", !.workload = "inference_medium", !.vram = 16]}

\* A region without one of the sizes, and with one that is not known.
MCAnswers == {{a100, cpu16, "Standard_B1s"}}

MCSymmetry == Permutations(MachCommand)

InventoryInit ==
    /\ Init /\ MachInit
    /\ \/ inventory = "providers"
       \/ inventory = "machines" /\ \A f \in File : file[f] = Missing

InventoryNext ==
    /\ UNCHANGED inventory
    /\ \/ inventory = "providers" /\ Next /\ UNCHANGED machVars
       \/ inventory = "machines" /\ MachNext /\ UNCHANGED vars

InventorySpec == InventoryInit /\ [][InventoryNext]_<<inventory, vars, machVars>>
=============================================================================
