---------------------------- MODULE MCFunctions -----------------------------
(* The pure functions on all small inputs: StreamFill over chunks,         *)
(* SampleLayout over disks and draws, CertNumber over tags, serials and    *)
(* attempts.  The input of one of the three is varied at a time; the other *)
(* two have one input each.                                                *)
EXTENDS StreamFill, SampleLayout, CertNumber

CONSTANTS NameCharacters, MaxName

vars == <<fillVars, layoutVars, label>>

SmallOffsets == 0..17
SmallLens == 1..6
SmallSizes == 1..9
Names == UNION {[1..n -> NameCharacters] : n \in 0..MaxName}
OneFill == offset = 0 /\ bufLen = 1
OneDisk == size = 1 /\ wanted = 0
OneLabel == label = [tag |-> <<>>, serial |-> <<>>, attempt |-> 0]

Init == \/ OneLabel /\ FillInit /\ LayoutInit /\ OneDisk
        \/ OneLabel /\ LayoutInit /\ FillInit /\ OneFill
        \/ LabelInit /\ FillInit /\ OneFill /\ LayoutInit /\ OneDisk
Next == \/ FillNext /\ UNCHANGED <<layoutVars, label>>
        \/ LayoutNext /\ UNCHANGED <<fillVars, label>>
Spec == Init /\ [][Next]_vars

(* The byte at a position is the same whichever chunk it is derived from:  *)
(* engine_test.go, TestRandomPatternIsReproducible, "keystream not         *)
(* offset-consistent"; device.go, "re-derive any offset independently".    *)
OffsetIndependent ==
    LET last == offset + bufLen - 1 IN
    \A s \in 0..last :
        /\ last < BlockLen * CounterRange
        /\ ~Panics("random", s, 1 + last - s)
        /\ ~Panics("random", offset, bufLen)
        => StreamAt("random", 0, s, last) = StreamAt("random", 0, offset, last)

(* A sample reads the share of the disk the standard names (README: 1%     *)
(* 抽样).  It does not when the bound on spans ends the loop, and windows     *)
(* that overlap count twice.                                               *)
SampleMeetsShare ==
    Complete =>
        Cardinality({b \in 0..(size - 1) : \E i \in DOMAIN spans :
                        spans[i].start <= b /\ b < spans[i].end}) >= wanted
=============================================================================
