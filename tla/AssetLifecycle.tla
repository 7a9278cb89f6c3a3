--------------------------- MODULE AssetLifecycle ---------------------------
(***************************************************************************)
(* What the system promises of one asset: its status moves along one state *)
(* machine, and it is signed off at most once, at the end, by the approved *)
(* method, or by destruction when it was scrapped.                         *)
(***************************************************************************)
CONSTANTS Methods, ApprovedMethod, Unsigned

VARIABLES status, signed

Moves == {<<"pending", "disk_pulled">>, <<"disk_pulled", "erasing">>,
          <<"disk_pulled", "scrapped">>, <<"erasing", "erasure_verified">>,
          <<"erasing", "scrapped">>}

Init == status = "pending" /\ signed = Unsigned

Move == \E m \in Moves : /\ status = m[1] /\ status' = m[2]
                         /\ UNCHANGED signed

Sign == /\ status \in {"erasure_verified", "scrapped"}
        /\ signed = Unsigned
        /\ status' = "disposed"
        /\ signed' \in {ApprovedMethod} \cup
                       (IF status = "scrapped" THEN {"destroy"} ELSE {})

Next == Move \/ Sign

Spec == Init /\ [][Next]_<<status, signed>>
=============================================================================
