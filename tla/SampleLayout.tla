---------------------------- MODULE SampleLayout ----------------------------
(***************************************************************************)
(* The loop of sampleRanges (internal/erasure/engine.go): one random       *)
(* window after another until the bytes covered reach the target, or the   *)
(* layout has more than MaxSpans spans.                                    *)
(***************************************************************************)
EXTENDS Sampling

CONSTANT Sizes       \* device sizes

ASSUME SizesAssumption == Sizes \subseteq Nat \ {0}

VARIABLES
    size, wanted,     \* the arguments: wanted is int64(float64(size) * fraction)
    spans, covered    \* the layout so far and the bytes it counts
layoutVars == <<size, wanted, spans, covered>>

(* A bug: the head and the tail do not count.                              *)
LayoutInit_NothingCovered ==
    /\ size \in Sizes /\ wanted \in 0..size
    /\ spans = HeadTail(size)
    /\ covered = 0

(* A bug: the tail of a disk below one window begins before it.            *)
LayoutInit_NoTailClamp ==
    /\ size \in Sizes /\ wanted \in 0..size
    /\ spans = <<Span(0, Least(Window, size)), Span(size - Window, size)>>
    /\ covered = InitiallyCovered(size)

LayoutInit ==
    /\ size \in Sizes /\ wanted \in 0..size
    /\ spans = HeadTail(size)
    /\ covered = InitiallyCovered(size)

Complete == covered >= Target(size, wanted) \/ Len(spans) > MaxSpans

DrawWindow ==
    /\ ~Complete
    /\ \E d \in DrawRange(size) :
          /\ spans' = Append(spans, WindowAt(size, d))
          /\ covered' = covered + Length(WindowAt(size, d))
    /\ UNCHANGED <<size, wanted>>

LayoutNext == DrawWindow
LayoutSpec == LayoutInit /\ [][LayoutNext]_layoutVars
-----------------------------------------------------------------------------
(* Every window lies on the disk and holds at least a byte, and the first  *)
(* and last bytes of the disk are always read (README: 首尾必抽), whatever    *)
(* the size: also below one window, where both are the whole disk.         *)
SpansCoverEnds ==
    /\ \A i \in DOMAIN spans : 0 <= spans[i].start /\ spans[i].start < spans[i].end
                                /\ spans[i].end <= size
    /\ \E i \in DOMAIN spans : spans[i].start = 0
    /\ \E i \in DOMAIN spans : spans[i].end = size

(* The sample reads no more than one window above what was asked for,      *)
(* beyond the head and the tail it always reads; every random window is a  *)
(* whole one, and "covered" counts the bytes of the spans, once where head *)
(* and tail are the same whole disk.                                       *)
SampleBudget ==
    /\ \A i \in 3..Len(spans) : Length(spans[i]) = Window
    /\ covered = (IF size > Window THEN 2 * Window ELSE size) + (Len(spans) - 2) * Window
    /\ Len(spans) > 2 => covered < Target(size, wanted) + Window

(* The starts of the random windows.                                       *)
Drawn == [i \in 1..(Len(spans) - 2) |-> spans[i + 2].start]

(* What the loop has put together is a layout of Sampling for the values   *)
(* it drew: the engine's model is given any such layout.                   *)
IsLayout == Drawn \in Seq(DrawRange(size)) /\ spans = Layout(size, Drawn)
=============================================================================
