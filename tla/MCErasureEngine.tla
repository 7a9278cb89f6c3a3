-------------------------- MODULE MCErasureEngine --------------------------
(* Instances of ErasureEngine for TLC: the standards of domain/standards.go *)
(* on a disk of a few cells.                                               *)
EXTENDS ErasureEngine

Dod3Pass == <<"zeros", "ones", "random">>
NistPurge == <<"ones", "random", "zeros">>
OnePass == <<"zeros">>
NoDraws == <<>>
OneDraw == <<2>>
OneDeadAtMost == {{}} \cup {{c} : c \in Cells}
NoneDead == {{}}
=============================================================================
