---------------------------- MODULE AtomicStore ----------------------------
(***************************************************************************)
(* What the persistence layer promises its callers: a document per path,   *)
(* read-modify-write transactions that each take effect at one instant on  *)
(* the document current at that instant, and loss of nothing but the       *)
(* changes not yet made durable when the machine goes down.                *)
(***************************************************************************)
CONSTANTS
    Path,    \* the documents
    Entry    \* what a transaction adds to a document

VARIABLES
    store,   \* [Path -> SUBSET Entry]: the documents readers see
    stable   \* [Path -> SUBSET Entry]: the documents that survive power loss

storeVars == <<store, stable>>

StoreTypeOK ==
    /\ store \in [Path -> SUBSET Entry]
    /\ stable \in [Path -> SUBSET Entry]

StoreInit ==
    /\ store = [p \in Path |-> {}]
    /\ stable = [p \in Path |-> {}]

\* A transaction commits: its change is merged into the current document.
Commit(p, e) ==
    /\ store' = [store EXCEPT ![p] = @ \cup {e}]
    /\ UNCHANGED stable

\* A document becomes durable.
Harden(p) ==
    /\ stable' = [stable EXCEPT ![p] = store[p]]
    /\ UNCHANGED store

\* Each document comes back as last hardened or as last seen.
PowerLoss(kept) ==
    /\ store' = [p \in Path |-> IF p \in kept THEN store[p] ELSE stable[p]]
    /\ stable' = store'

StoreNext ==
    \/ \E p \in Path, e \in Entry : Commit(p, e)
    \/ \E p \in Path : Harden(p)
    \/ \E kept \in SUBSET Path : PowerLoss(kept)

StoreSpec == StoreInit /\ [][StoreNext]_storeVars
=============================================================================
