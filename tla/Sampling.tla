------------------------------- MODULE Sampling -------------------------------
(***************************************************************************)
(* The layout of a sample verification (internal/erasure/engine.go,        *)
(* sampleRanges): the head and the tail of the disk, then windows at       *)
(* pseudorandom offsets until enough bytes are covered.  The offsets are   *)
(* the first values of a generator seeded from the job id, so every run of *)
(* one job sees the same sequence "draws".  These are the parts; module    *)
(* SampleLayout is the loop that puts them together.                       *)
(***************************************************************************)
EXTENDS Integers, Sequences

CONSTANTS
    Window,      \* 4 MiB in the code
    MaxSpans     \* 4096 in the code: the loop gives up beyond it

ASSUME WindowAssumption == Window \in Nat \ {0}
ASSUME MaxSpansAssumption == MaxSpans \in Nat /\ MaxSpans >= 2

Least(a, b) == IF a < b THEN a ELSE b
Most(a, b) == IF a > b THEN a ELSE b

Span(start, end) == [start |-> start, end |-> end]
Length(s) == s.end - s.start

(* rng.Int63n(max64(1, size-window)) *)
DrawRange(size) == 0..(Most(1, size - Window) - 1)

(* target after the two clamps; wanted is int64(float64(size) * fraction). *)
Target(size, wanted) == Least(Most(wanted, Window), size)

HeadTail(size) == <<Span(0, Least(Window, size)), Span(Most(0, size - Window), size)>>

InitiallyCovered(size) ==
    Length(HeadTail(size)[1])
      + (IF size > Window THEN Length(HeadTail(size)[2]) ELSE 0)

(* The span of a random window.                                            *)
WindowAt(size, d) == Span(d, Least(d + Window, size))

(* The layout when the generator's values are draws (SampleLayout has the  *)
(* loop that decides how many it takes).                                   *)
Layout(size, draws) ==
    HeadTail(size) \o [i \in 1..Len(draws) |-> WindowAt(size, draws[i])]
=============================================================================
