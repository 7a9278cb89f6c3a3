----------------------------- MODULE MCApproval -----------------------------
(* Instances of Approval for TLC.  The request slots, the row identities    *)
(* and the two officers are interchangeable; the owner is not.              *)
EXTENDS Approval, TLC

CONSTANTS alice, sam, tess

Staff == {alice, sam, tess}
Symmetry == Permutations(Calls) \cup Permutations(Ids) \cup Permutations({sam, tess})
=============================================================================
