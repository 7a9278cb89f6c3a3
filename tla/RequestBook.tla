----------------------------- MODULE RequestBook -----------------------------
(***************************************************************************)
(* What the decommission requests of one asset promise, with callers, read *)
(* checks and interleavings left out: at most one request is open at any   *)
(* time, a pending one is decided once, an open one may be withdrawn, and  *)
(* a rejected or withdrawn request stays closed for good.                  *)
(***************************************************************************)
CONSTANT Ids        \* the requests that may ever be filed

VARIABLE status     \* of each request; "none" before it is filed

Open == {i \in Ids : status[i] \in {"pending", "approved"}}

Init == status = [i \in Ids |-> "none"]

File(i) == /\ status[i] = "none"
           /\ Open = {}
           /\ status' = [status EXCEPT ![i] = "pending"]

Decide(i, to) == /\ status[i] = "pending"
                 /\ status' = [status EXCEPT ![i] = to]

Withdraw(i) == /\ i \in Open
               /\ status' = [status EXCEPT ![i] = "withdrawn"]

Next == \E i \in Ids : \/ File(i)
                       \/ \E to \in {"approved", "rejected"} : Decide(i, to)
                       \/ Withdraw(i)

Spec == Init /\ [][Next]_status
=============================================================================
