----------------------------- MODULE MemoryStore -----------------------------
(***************************************************************************)
(* The rows that belong to one asset, as the in-memory store keeps them:   *)
(* its status, its decommission requests and its disposal confirmation.    *)
(* Every method is one critical section under the store's mutex, so each   *)
(* is one step here.  Callers, and what they checked before, are left out: *)
(* PgStore is shown to allow no other steps.                               *)
(***************************************************************************)
CONSTANTS
    Ids,            \* the approval rows that may ever be created
    LateWithdrawal  \* TRUE: an approved request may be withdrawn at any time

VARIABLES
    asset,     \* status of the asset
    approval,  \* status of each approval row, "none" before it is created
    signed     \* whether the asset has a disposal confirmation

contents == <<asset, approval, signed>>

AssetTransitions ==
    {<<"in_service", "pending">>, <<"pending", "disk_pulled">>,
     <<"disk_pulled", "erasing">>, <<"disk_pulled", "scrapped">>,
     <<"erasing", "erasure_verified">>, <<"erasing", "scrapped">>,
     <<"erasure_verified", "disposed">>, <<"scrapped", "disposed">>}
CanTransitionAsset(from, to) == from = to \/ <<from, to>> \in AssetTransitions

ApprovalTransitions == {<<"pending", "approved">>, <<"pending", "rejected">>,
                        <<"pending", "withdrawn">>, <<"approved", "withdrawn">>}
CanTransitionApproval(from, to) == from = to \/ <<from, to>> \in ApprovalTransitions

Active(i) == approval[i] \in {"pending", "approved"}

(* Assets are registered in this status.                                   *)
Init == /\ asset = "pending"
        /\ approval = [i \in Ids |-> "none"]
        /\ signed = FALSE

TransitionAsset(to) ==
    /\ CanTransitionAsset(asset, to)
    /\ asset' = to
    /\ UNCHANGED <<approval, signed>>

SaveDisposal ==
    /\ ~signed
    /\ CanTransitionAsset(asset, "disposed")
    /\ asset' = "disposed"
    /\ signed' = TRUE
    /\ UNCHANGED approval

CreateApproval(i) ==
    /\ approval[i] = "none"
    /\ \A j \in Ids : ~Active(j)
    /\ approval' = [approval EXCEPT ![i] = "pending"]
    /\ UNCHANGED <<asset, signed>>

ReviewApproval(i, to) ==
    /\ approval[i] # "none"
    /\ CanTransitionApproval(approval[i], to)
    /\ approval' = [approval EXCEPT ![i] = to]
    /\ UNCHANGED <<asset, signed>>

WithdrawApproval(i) ==
    /\ approval[i] # "none"
    /\ CanTransitionApproval(approval[i], "withdrawn")
    /\ approval[i] = "approved" => asset = "pending" \/ LateWithdrawal
    /\ approval' = [approval EXCEPT ![i] = "withdrawn"]
    /\ UNCHANGED <<asset, signed>>

Next == \/ \E to \in {"disk_pulled", "erasing", "erasure_verified", "scrapped"} :
              TransitionAsset(to)
        \/ SaveDisposal
        \/ \E i \in Ids :
              \/ CreateApproval(i)
              \/ \E to \in {"approved", "rejected"} : ReviewApproval(i, to)
              \/ WithdrawApproval(i)

Spec == Init /\ [][Next]_contents
=============================================================================
