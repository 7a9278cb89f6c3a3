--------------------------------- MODULE Wipe ---------------------------------
(***************************************************************************)
(* What one erasure job promises about its disk, with the engine's offsets,*)
(* checkpoints, caches and restarts left out: the passes of the standard   *)
(* become durable over the whole disk one after the other, a disk is       *)
(* declared verified only when all of them have, and the job ends.  A run  *)
(* that cannot read where the one before it stood loses count of the       *)
(* passes, until it has laid the first one anew.                           *)
(***************************************************************************)
EXTENDS Naturals

CONSTANT N          \* number of overwrite passes of the standard

VARIABLES
    layers,         \* passes known to cover the whole disk durably
    lost,           \* the count of the passes is lost
    verdict         \* "none" | "verified" | "failed"

vars == <<layers, lost, verdict>>

TypeOK == layers \in 0..N /\ lost \in BOOLEAN /\ verdict \in {"none", "verified", "failed"}

Init == layers = 0 /\ ~lost /\ verdict = "none"

LayPass == /\ verdict = "none" /\ ~lost
           /\ layers < N
           /\ layers' = layers + 1
           /\ UNCHANGED <<lost, verdict>>

LoseCount == /\ verdict = "none" /\ ~lost
             /\ lost' = TRUE /\ layers' = 0
             /\ UNCHANGED verdict

LayAnew == /\ verdict = "none" /\ lost
           /\ lost' = FALSE /\ layers' = 1
           /\ UNCHANGED verdict

Verify == /\ verdict = "none"
          /\ layers = N \/ lost
          /\ verdict' = "verified"
          /\ UNCHANGED <<layers, lost>>

Fail == /\ verdict = "none"
        /\ verdict' = "failed"
        /\ UNCHANGED <<layers, lost>>

Next == LayPass \/ LoseCount \/ LayAnew \/ Verify \/ Fail

Spec == Init /\ [][Next]_vars /\ WF_vars(LayPass \/ LayAnew \/ Verify \/ Fail)
=============================================================================
