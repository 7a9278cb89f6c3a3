--------------------------- MODULE MCDecommission ---------------------------
(* Instances of Decommission for TLC.  The disks and the request slots are  *)
(* interchangeable in safety runs.                                         *)
EXTENDS Decommission, TLC

Symmetry == Permutations(Disks) \cup Permutations(Calls)
=============================================================================
