--------------------------- MODULE Functions_proofs ---------------------------
(***************************************************************************)
(* Proofs about the pure functions, for every block length, counter width, *)
(* window, device size, buffer and text: the loop of streamAt, the loop of *)
(* sampleRanges, and the certificate number.                               *)
(***************************************************************************)
EXTENDS StreamFill, SampleLayout, CertNumber, FiniteSetTheorems, WellFoundedInduction, TLAPS

(* Sequences: one made by listing its elements, and one that agrees with a *)
(* concatenation everywhere.                                               *)
LEMMA ListedSeq ==
    ASSUME NEW T, NEW n \in Nat, NEW f \in [1..n -> T]
    PROVE  f \in Seq(T) /\ Len(f) = n
OBVIOUS

Concatenates(s, h, w) ==
    /\ Len(s) = Len(h) + Len(w) /\ Len(h) \in Nat /\ Len(w) \in Nat
    /\ \A i \in 1..Len(h) : s[i] = h[i]
    /\ \A i \in 1..Len(w) : s[Len(h) + i] = w[i]

LEMMA ConcatSeq ==
    ASSUME NEW T, NEW h \in Seq(T), NEW w \in Seq(T)
    PROVE  h \o w \in Seq(T) /\ Concatenates(h \o w, h, w)
<1>1. h \o w \in Seq(T) /\ Len(h \o w) = Len(h) + Len(w) OBVIOUS
<1>2. \A i \in 1..Len(h) : (h \o w)[i] = h[i] OBVIOUS
<1>3. \A i \in 1..Len(w) : (h \o w)[Len(h) + i] = w[i] OBVIOUS
<1> QED BY <1>1, <1>2, <1>3 DEF Concatenates

LEMMA SameSeq ==
    ASSUME NEW T, NEW s \in Seq(T), NEW t \in Seq(T), Len(s) = Len(t),
           \A i \in 1..Len(s) : s[i] = t[i]
    PROVE  s = t
OBVIOUS

LEMMA JoinedSeq ==
    ASSUME NEW T, NEW h \in Seq(T), NEW w \in Seq(T), NEW s \in Seq(T),
           Len(s) = Len(h) + Len(w),
           \A i \in 1..Len(h) : s[i] = h[i],
           \A i \in 1..Len(w) : s[Len(h) + i] = w[i]
    PROVE  s = h \o w
<1>1. h \o w \in Seq(T) /\ Len(h \o w) = Len(s) OBVIOUS
<1>2. ASSUME NEW i \in 1..Len(s) PROVE (h \o w)[i] = s[i]
  <2>1. CASE i \in 1..Len(h) BY <2>1
  <2>2. CASE i \notin 1..Len(h)
    <3> DEFINE j == i - Len(h)
    <3>1. j \in 1..Len(w) /\ i = Len(h) + j BY <2>2
    <3> HIDE DEF j
    <3>2. (h \o w)[Len(h) + j] = w[j] BY <3>1
    <3> QED BY <3>1, <3>2
  <2> QED BY <2>1, <2>2
<1> QED BY <1>1, <1>2

-----------------------------------------------------------------------------
(* The sample layout.                                                      *)

(* The inductive invariant: head and tail first, then whole windows at     *)
(* drawn offsets, of which there are none on a disk of one window or less. *)
LayoutInv ==
    /\ size \in Sizes /\ wanted \in 0..size /\ covered \in Nat
    /\ spans \in Seq([start : Nat, end : Nat]) /\ Len(spans) >= 2
    /\ spans[1] = HeadTail(size)[1] /\ spans[2] = HeadTail(size)[2]
    /\ Len(spans) > 2 => size > Window /\ covered < Target(size, wanted) + Window
    /\ \A i \in 3..Len(spans) : /\ spans[i].start \in DrawRange(size)
                                /\ spans[i] = WindowAt(size, spans[i].start)
    /\ covered = (IF size > Window THEN 2 * Window ELSE size) + (Len(spans) - 2) * Window

(* Head and tail lie on the disk and reach its ends; they are counted once *)
(* when both are the whole disk.                                           *)
LEMMA HeadTailFacts ==
    ASSUME NEW z \in Nat \ {0}
    PROVE  /\ HeadTail(z) \in Seq([start : Nat, end : Nat]) /\ Len(HeadTail(z)) = 2
           /\ HeadTail(z)[1] = Span(0, Least(Window, z))
           /\ HeadTail(z)[2] = Span(Most(0, z - Window), z)
           /\ InitiallyCovered(z) = IF z > Window THEN 2 * Window ELSE z
           /\ InitiallyCovered(z) \in Nat
<1>1. Window \in Nat \ {0} BY WindowAssumption
<1>2. /\ HeadTail(z)[1] = Span(0, Least(Window, z))
      /\ HeadTail(z)[2] = Span(Most(0, z - Window), z)
  BY DEF HeadTail
<1>3. /\ Least(Window, z) \in Nat /\ Most(0, z - Window) \in Nat
      /\ Least(Window, z) = (IF z > Window THEN Window ELSE z)
      /\ z > Window => z - Most(0, z - Window) = Window
  BY <1>1 DEF Least, Most
<1>4. HeadTail(z) \in Seq([start : Nat, end : Nat]) /\ Len(HeadTail(z)) = 2
  BY <1>3 DEF HeadTail, Span
<1>5. InitiallyCovered(z) = Least(Window, z)
          + (IF z > Window THEN z - Most(0, z - Window) ELSE 0)
  BY <1>1, <1>2, <1>3 DEF InitiallyCovered, Length, Span
<1> QED BY <1>1, <1>2, <1>3, <1>4, <1>5

(* A drawn window on a disk larger than one window is whole and on it.     *)
LEMMA WindowFacts ==
    ASSUME NEW z \in Nat, z > Window, NEW d \in DrawRange(z)
    PROVE  /\ d \in Nat /\ WindowAt(z, d) = Span(d, d + Window) /\ d + Window <= z
           /\ Length(WindowAt(z, d)) = Window
           /\ WindowAt(z, d) \in [start : Nat, end : Nat] /\ WindowAt(z, d).start = d
<1>1. Window \in Nat \ {0} BY WindowAssumption
<1>2. d \in Nat /\ d < z - Window BY <1>1 DEF DrawRange, Most
<1>3. Least(d + Window, z) = d + Window BY <1>1, <1>2 DEF Least
<1> QED BY <1>1, <1>2, <1>3 DEF WindowAt, Span, Length

LEMMA LayoutInitInv == LayoutInit => LayoutInv
<1> SUFFICES ASSUME LayoutInit PROVE LayoutInv OBVIOUS
<1>1. size \in Sizes /\ size \in Nat \ {0} /\ wanted \in 0..size /\ spans = HeadTail(size)
      /\ covered = InitiallyCovered(size)
  BY SizesAssumption DEF LayoutInit
<1>2. Window \in Nat BY WindowAssumption
<1>3. /\ HeadTail(size) \in Seq([start : Nat, end : Nat]) /\ Len(HeadTail(size)) = 2
      /\ InitiallyCovered(size) = IF size > Window THEN 2 * Window ELSE size
      /\ InitiallyCovered(size) \in Nat
  BY <1>1, HeadTailFacts
<1>4. 3..Len(spans) = {} /\ (Len(spans) - 2) * Window = 0 BY <1>1, <1>2, <1>3
<1> QED BY <1>1, <1>2, <1>3, <1>4 DEF LayoutInv

LEMMA DrawWindowInv == LayoutInv /\ DrawWindow => LayoutInv'
<1> SUFFICES ASSUME LayoutInv, DrawWindow PROVE LayoutInv' OBVIOUS
<1>1. /\ size \in Sizes /\ size \in Nat \ {0} /\ wanted \in 0..size /\ covered \in Nat
      /\ spans \in Seq([start : Nat, end : Nat]) /\ Len(spans) \in Nat /\ Len(spans) >= 2
      /\ size' = size /\ wanted' = wanted
  BY SizesAssumption DEF LayoutInv, DrawWindow
<1>2. Window \in Nat \ {0} BY WindowAssumption
<1>3. Target(size, wanted) \in Nat /\ Target(size, wanted) <= size
  BY <1>1, <1>2 DEF Target, Least, Most
<1>4. covered < Target(size, wanted) BY <1>1, <1>3 DEF DrawWindow, Complete
<1>5. size > Window
  <2>1. ~(size > Window) => covered >= size
    BY <1>1, <1>2 DEF LayoutInv
  <2> QED BY <1>1, <1>2, <1>3, <1>4, <2>1
<1>6. PICK d \in DrawRange(size) :
          /\ spans' = Append(spans, WindowAt(size, d))
          /\ covered' = covered + Length(WindowAt(size, d))
  BY DEF DrawWindow
<1>7. /\ d \in Nat /\ WindowAt(size, d) \in [start : Nat, end : Nat]
      /\ Length(WindowAt(size, d)) = Window /\ WindowAt(size, d).start = d
  BY <1>1, <1>5, WindowFacts
<1>8. /\ spans' \in Seq([start : Nat, end : Nat]) /\ Len(spans') = Len(spans) + 1
      /\ \A i \in 1..Len(spans) : spans'[i] = spans[i]
      /\ spans'[Len(spans) + 1] = WindowAt(size, d)
  BY <1>1, <1>6, <1>7
<1>9. covered' \in Nat /\ covered' = covered + Window BY <1>1, <1>2, <1>6, <1>7
<1>10. \A i \in 3..Len(spans') : /\ spans'[i].start \in DrawRange(size)
                                 /\ spans'[i] = WindowAt(size, spans'[i].start)
  <2> SUFFICES ASSUME NEW i \in 3..Len(spans')
               PROVE  /\ spans'[i].start \in DrawRange(size)
                      /\ spans'[i] = WindowAt(size, spans'[i].start)
    OBVIOUS
  <2>1. CASE i = Len(spans) + 1 BY <2>1, <1>6, <1>7, <1>8
  <2>2. CASE i # Len(spans) + 1
    <3>1. i \in 3..Len(spans) BY <2>2, <1>1, <1>8
    <3>2. spans'[i] = spans[i] BY <3>1, <1>1, <1>8
    <3> QED BY <3>1, <3>2 DEF LayoutInv
  <2> QED BY <2>1, <2>2
<1>11. covered' = (IF size > Window THEN 2 * Window ELSE size) + (Len(spans') - 2) * Window
  <2>1. covered = 2 * Window + (Len(spans) - 2) * Window BY <1>5 DEF LayoutInv
  <2>2. (Len(spans) + 1 - 2) * Window = (Len(spans) - 2) * Window + Window BY <1>1, <1>2
  <2> QED BY <2>1, <2>2, <1>1, <1>2, <1>5, <1>8, <1>9
<1>12. spans'[1] = HeadTail(size)[1] /\ spans'[2] = HeadTail(size)[2]
  BY <1>1, <1>8 DEF LayoutInv
<1>13. covered' < Target(size, wanted) + Window BY <1>1, <1>2, <1>3, <1>4, <1>9
<1> QED BY <1>1, <1>5, <1>8, <1>9, <1>10, <1>11, <1>12, <1>13 DEF LayoutInv

THEOREM LayoutInvariant == LayoutSpec => []LayoutInv
<1>1. LayoutInv /\ UNCHANGED layoutVars => LayoutInv'
  BY DEF LayoutInv, layoutVars
<1> QED BY <1>1, LayoutInitInv, DrawWindowInv, PTL DEF LayoutSpec, LayoutNext

(* Every window of the sample lies on the disk, and its first and last     *)
(* bytes are always among them (engine.go, sampleRanges; README 首尾必抽),   *)
(* for every disk, sample target, window and sequence of draws.            *)
THEOREM EndsAlwaysSampled == LayoutSpec => []SpansCoverEnds
<1>1. LayoutInv => SpansCoverEnds
  <2> SUFFICES ASSUME LayoutInv PROVE SpansCoverEnds OBVIOUS
  <2>1. /\ size \in Nat \ {0} /\ DOMAIN spans = 1..Len(spans)
        /\ Len(spans) \in Nat /\ Len(spans) >= 2
    BY SizesAssumption DEF LayoutInv
  <2>2. Window \in Nat \ {0} BY WindowAssumption
  <2>3. spans[1] = Span(0, Least(Window, size)) /\ spans[2] = Span(Most(0, size - Window), size)
    BY <2>1, HeadTailFacts DEF LayoutInv
  <2>4. /\ spans[1].start = 0 /\ spans[1].end \in 1..size
        /\ spans[2].end = size /\ spans[2].start \in 0..(size - 1)
    BY <2>1, <2>2, <2>3 DEF Span, Least, Most
  <2>5. \A i \in 3..Len(spans) : 0 <= spans[i].start /\ spans[i].start < spans[i].end
                                 /\ spans[i].end <= size
    <3> SUFFICES ASSUME NEW i \in 3..Len(spans)
                 PROVE  0 <= spans[i].start /\ spans[i].start < spans[i].end
                        /\ spans[i].end <= size
      OBVIOUS
    <3> DEFINE d == spans[i].start
    <3>1. d \in DrawRange(size) /\ spans[i] = WindowAt(size, d) /\ size > Window
      BY <2>1 DEF LayoutInv
    <3>2. d \in Nat /\ spans[i] = Span(d, d + Window) /\ d + Window <= size
      BY <2>1, <3>1, WindowFacts
    <3> QED BY <2>2, <3>2 DEF Span
  <2> QED BY <2>1, <2>4, <2>5 DEF SpansCoverEnds
<1> QED BY <1>1, LayoutInvariant, PTL

(* The sample reads what it counts and overshoots its target by less than  *)
(* one window, for every disk, target, window and sequence of draws.       *)
THEOREM SampleWithinBudget == LayoutSpec => []SampleBudget
<1>1. LayoutInv => SampleBudget
  <2> SUFFICES ASSUME LayoutInv PROVE SampleBudget OBVIOUS
  <2>1. size \in Nat \ {0} /\ Len(spans) \in Nat BY SizesAssumption DEF LayoutInv
  <2>2. ASSUME NEW i \in 3..Len(spans) PROVE Length(spans[i]) = Window
    <3>1. /\ spans[i].start \in DrawRange(size) /\ size > Window
          /\ spans[i] = WindowAt(size, spans[i].start)
      BY <2>1 DEF LayoutInv
    <3>2. Length(WindowAt(size, spans[i].start)) = Window BY <2>1, <3>1, WindowFacts
    <3> QED BY <3>1, <3>2
  <2> QED BY <2>2 DEF LayoutInv, SampleBudget
<1> QED BY <1>1, LayoutInvariant, PTL

(* What the loop returns is Layout of the values it drew: the engine's     *)
(* model, which is given such a layout, has left none of the loop out.     *)
THEOREM LoopMakesLayout == LayoutSpec => []IsLayout
<1>1. LayoutInv => IsLayout
  <2> SUFFICES ASSUME LayoutInv PROVE IsLayout OBVIOUS
  <2>1. size \in Nat \ {0} /\ Len(spans) \in Nat /\ Len(spans) >= 2
    BY SizesAssumption DEF LayoutInv
  <2>2. /\ Drawn \in Seq(DrawRange(size)) /\ Len(Drawn) = Len(spans) - 2
        /\ \A i \in 1..Len(Drawn) : Drawn[i] = spans[i + 2].start
    <3> DEFINE n == Len(spans) - 2
    <3>1. n \in Nat BY <2>1
    <3>2. \A i \in 1..n : spans[i + 2].start \in DrawRange(size)
      BY <2>1 DEF LayoutInv
    <3>3. Drawn \in [1..n -> DrawRange(size)] BY <3>2 DEF Drawn
    <3>4. Drawn \in Seq(DrawRange(size)) /\ Len(Drawn) = n BY <3>1, <3>3, ListedSeq
    <3> QED BY <3>4, <3>1 DEF Drawn
  <2> DEFINE W == [i \in 1..Len(Drawn) |-> WindowAt(size, Drawn[i])]
             T == [start : Nat, end : Nat]
  <2>3. /\ HeadTail(size) \in Seq(T) /\ Len(HeadTail(size)) = 2
        /\ HeadTail(size)[1] = spans[1] /\ HeadTail(size)[2] = spans[2]
    BY <2>1, HeadTailFacts DEF LayoutInv
  <2>4. ASSUME NEW i \in 1..Len(Drawn) PROVE W[i] = spans[2 + i] /\ spans[2 + i] \in T
    <3>1. i + 2 \in 3..Len(spans) /\ i + 2 \in 1..Len(spans) /\ i + 2 = 2 + i
      BY <2>1, <2>2
    <3>2. /\ spans \in Seq(T)
          /\ \A k \in 3..Len(spans) : spans[k] = WindowAt(size, spans[k].start)
      BY DEF LayoutInv
    <3> HIDE DEF T
    <3>3. spans[i + 2] = WindowAt(size, spans[i + 2].start) /\ spans[i + 2] \in T
      BY <3>1, <3>2
    <3> QED BY <2>2, <3>1, <3>3
  <2>5. W \in Seq(T) /\ Len(W) = Len(Drawn)
    <3>1. W \in [1..Len(Drawn) -> T] BY <2>4
    <3>2. Len(Drawn) \in Nat BY <2>2
    <3> HIDE DEF W, T
    <3> QED BY <3>1, <3>2, ListedSeq
  <2>6. spans = HeadTail(size) \o W
    <3>1. spans \in Seq(T) /\ Len(spans) = Len(HeadTail(size)) + Len(W)
      BY <2>1, <2>2, <2>3, <2>5 DEF LayoutInv
    <3>2. \A i \in 1..Len(W) : spans[Len(HeadTail(size)) + i] = W[i]
      BY <2>3, <2>4, <2>5
    <3>3. \A i \in 1..Len(HeadTail(size)) : spans[i] = HeadTail(size)[i]
      BY <2>3
    <3> HIDE DEF W, T
    <3> QED BY <2>3, <2>5, <3>1, <3>2, <3>3, JoinedSeq
  <2> QED BY <2>2, <2>6 DEF IsLayout, Layout
<1> QED BY <1>1, LayoutInvariant, PTL
-----------------------------------------------------------------------------
(* The byte stream.                                                        *)

(* Quotient and remainder, and what determines them.                       *)
LEMMA Division ==
    ASSUME NEW a \in Nat, NEW b \in Nat \ {0}
    PROVE  /\ a \div b \in Nat /\ a % b \in 0..(b - 1)
           /\ a = b * (a \div b) + (a % b)
OBVIOUS

LEMMA DivisionUnique ==
    ASSUME NEW b \in Nat \ {0}, NEW q \in Nat, NEW r \in 0..(b - 1)
    PROVE  (b * q + r) \div b = q /\ (b * q + r) % b = r
OBVIOUS

LEMMA MultiplesApart ==
    ASSUME NEW l \in Nat \ {0}, NEW x \in Nat, NEW y \in Nat, l * x < l * y
    PROVE  l * x + l <= l * y
<1>1. x < y OBVIOUS
<1>2. l * y = l * (x + 1) + l * (y - (x + 1)) /\ y - (x + 1) \in Nat BY <1>1
<1>3. l * (y - (x + 1)) \in Nat BY <1>2
<1>4. l * (x + 1) = l * x + l OBVIOUS
<1> QED BY <1>2, <1>3, <1>4

First == BlockOf(offset)
FirstCounter == First % CounterRange

(* The byte at index i of the buffer.                                      *)
ByteAt(i) ==
    [blocks |-> FirstCounter..(FirstCounter + (BlockOf(offset + i) - First)),
     at |-> (offset + i) % BlockLen]

(* The inductive invariant: the scratch block holds every block since the  *)
(* first, the loop stands at the beginning of the block its counter is at, *)
(* and what has been copied is right.                                      *)
FillInv ==
    /\ offset \in Offsets /\ bufLen \in BufLens /\ pos \in 0..bufLen
    /\ fillPc \in {"skip", "loop", "done", "panic"}
    /\ counter \in Nat /\ counter >= FirstCounter /\ counter <= CounterRange
    /\ blockBuf = FirstCounter..(counter - 1)
    /\ fillPc = "skip" => pos = 0 /\ counter = FirstCounter
    /\ fillPc \in {"loop", "panic"} /\ pos < bufLen =>
          offset + pos = BlockLen * (First + (counter - FirstCounter))
    /\ fillPc = "panic" => pos < bufLen /\ counter = CounterRange
    /\ fillPc = "done" => pos = bufLen
    /\ \A i \in 0..(pos - 1) : buf[i] = ByteAt(i)

LEMMA FillTypes ==
    ASSUME offset \in Offsets, bufLen \in BufLens
    PROVE  /\ offset \in Nat /\ bufLen \in Nat /\ BlockLen \in Nat \ {0}
           /\ CounterRange \in Nat \ {0}
           /\ First \in Nat /\ FirstCounter \in 0..(CounterRange - 1)
           /\ offset % BlockLen \in 0..(BlockLen - 1)
           /\ offset = BlockLen * First + (offset % BlockLen)
           /\ First = CounterRange * (First \div CounterRange) + FirstCounter
           /\ First \div CounterRange \in Nat
<1>1. offset \in Nat /\ bufLen \in Nat /\ BlockLen \in Nat \ {0} /\ CounterRange \in Nat \ {0}
  BY FillAssumption, BlockLenAssumption, CounterRangeAssumption
<1>2. First \in Nat /\ offset % BlockLen \in 0..(BlockLen - 1)
      /\ offset = BlockLen * First + (offset % BlockLen)
  BY <1>1, Division DEF First, BlockOf
<1> QED BY <1>1, <1>2, Division DEF FirstCounter

LEMMA FillInitInv == FillInit => FillInv
<1> SUFFICES ASSUME FillInit PROVE FillInv OBVIOUS
<1>1. offset \in Offsets /\ bufLen \in BufLens /\ pos = 0 /\ counter = FirstCounter
      /\ blockBuf = {} /\ fillPc = (IF offset % BlockLen > 0 THEN "skip" ELSE "loop")
  BY DEF FillInit, SetCounter, First, FirstCounter
<1>2. FirstCounter..(counter - 1) = {} /\ 0..(pos - 1) = {}
  BY <1>1, FillTypes
<1>3. fillPc = "loop" => offset = BlockLen * First
  BY <1>1, FillTypes
<1>4. fillPc = "loop" => offset + pos = BlockLen * (First + (counter - FirstCounter))
  <2>1. First + (counter - FirstCounter) = First /\ offset + pos = offset
    BY <1>1, FillTypes
  <2> QED BY <1>3, <2>1
<1> QED BY <1>1, <1>2, <1>4, FillTypes DEF FillInv

(* One call of the cipher and one copy, from byte "from" of the block the  *)
(* counter is at: what both turns of the loop do.                          *)
LEMMA CopyBlock ==
    ASSUME FillInv, NEW from \in 0..(BlockLen - 1), XORKeyStream, Copy(from),
           offset + pos = BlockLen * (First + (counter - FirstCounter)) + from,
           UNCHANGED <<offset, bufLen>>
    PROVE  /\ pos' \in 0..bufLen /\ counter' = counter + 1 /\ counter' <= CounterRange
           /\ blockBuf' = FirstCounter..(counter' - 1)
           /\ pos' < bufLen =>
                 offset + pos' = BlockLen * (First + (counter' - FirstCounter))
           /\ \A i \in 0..(pos' - 1) : buf'[i] = ByteAt(i)
<1> DEFINE k == counter - FirstCounter
           n == IF bufLen - pos < BlockLen - from THEN bufLen - pos ELSE BlockLen - from
<1>1. /\ offset \in Nat /\ bufLen \in Nat /\ BlockLen \in Nat \ {0} /\ CounterRange \in Nat
      /\ First \in Nat /\ FirstCounter \in Nat /\ counter \in Nat /\ pos \in 0..bufLen
      /\ k \in Nat /\ counter = FirstCounter + k
  <2>1. /\ offset \in Offsets /\ bufLen \in BufLens /\ pos \in 0..bufLen
        /\ counter \in Nat /\ counter >= FirstCounter
    BY DEF FillInv
  <2>2. /\ offset \in Nat /\ bufLen \in Nat /\ BlockLen \in Nat \ {0} /\ CounterRange \in Nat
        /\ First \in Nat /\ FirstCounter \in Nat
    BY <2>1, FillTypes
  <2> QED BY <2>1, <2>2
<1>2. /\ counter' = counter + 1 /\ counter < CounterRange
      /\ blockBuf' = FirstCounter..counter
  <2>1. blockBuf = FirstCounter..(counter - 1) BY DEF FillInv
  <2>2. Xor(blockBuf, {counter}) = FirstCounter..counter BY <1>1, <2>1 DEF Xor
  <2> QED BY <2>2 DEF XORKeyStream
<1>3. /\ n \in Nat /\ n <= bufLen - pos /\ n <= BlockLen - from /\ pos' = pos + n
      /\ n < bufLen - pos => n = BlockLen - from
      /\ buf' = [i \in 0..(bufLen - 1) |->
                    IF i \in pos..(pos + n - 1)
                    THEN [blocks |-> blockBuf', at |-> from + (i - pos)] ELSE buf[i]]
  BY <1>1 DEF Copy
<1> HIDE DEF n
<1>4. pos' < bufLen => offset + pos' = BlockLen * (First + (counter' - FirstCounter))
  <2>1. counter' - FirstCounter = k + 1 BY <1>1, <1>2
  <2>2. BlockLen * (First + (k + 1)) = BlockLen * (First + k) + BlockLen BY <1>1
  <2> DEFINE m == BlockLen * (First + k)
  <2>3. m \in Nat BY <1>1
  <2>4. offset + pos = m + from OBVIOUS
  <2> HIDE DEF m
  <2>5. pos' < bufLen => offset + pos' = m + BlockLen BY <1>1, <1>3, <2>3, <2>4
  <2> QED BY <2>1, <2>2, <2>5 DEF m
<1>5. ASSUME NEW i \in 0..(pos' - 1) PROVE buf'[i] = ByteAt(i)
  <2>1. i \in 0..(bufLen - 1) BY <1>1, <1>3
  <2>2. CASE i < pos
    <3>1. buf'[i] = buf[i] BY <1>1, <1>3, <2>1, <2>2
    <3>2. i \in 0..(pos - 1) BY <1>1, <2>2
    <3> QED BY <3>1, <3>2 DEF FillInv
  <2>3. CASE ~(i < pos)
    <3> DEFINE r == from + (i - pos)
    <3>1. i \in pos..(pos + n - 1) /\ r \in 0..(BlockLen - 1) BY <1>1, <1>3, <2>3
    <3>2. buf'[i] = [blocks |-> FirstCounter..counter, at |-> r]
      BY <1>2, <1>3, <2>1, <3>1
    <3>3. offset + i = BlockLen * (First + k) + r
      <4>1. BlockLen * (First + k) \in Nat BY <1>1
      <4> QED BY <1>1, <2>1, <4>1
    <3> HIDE DEF r, k
    <3>4. (offset + i) \div BlockLen = First + k /\ (offset + i) % BlockLen = r
      <4> DEFINE q == First + k
      <4>1. q \in Nat /\ BlockLen \in Nat \ {0} BY <1>1
      <4>2. offset + i = BlockLen * q + r BY <3>3
      <4> HIDE DEF q
      <4>3. (BlockLen * q + r) \div BlockLen = q /\ (BlockLen * q + r) % BlockLen = r
        BY <3>1, <4>1, DivisionUnique
      <4> QED BY <4>2, <4>3 DEF q
    <3>5. FirstCounter + (BlockOf(offset + i) - First) = counter
      BY <1>1, <3>4 DEF BlockOf
    <3> QED BY <3>2, <3>4, <3>5 DEF ByteAt
  <2> QED BY <1>1, <2>1, <2>2, <2>3
<1>6. pos' \in 0..bufLen BY <1>1, <1>3
<1>7. blockBuf' = FirstCounter..(counter' - 1) /\ counter' <= CounterRange BY <1>1, <1>2
<1> HIDE DEF k
<1> QED BY <1>2, <1>4, <1>5, <1>6, <1>7

LEMMA FillStepInv == FillInv /\ FillNext => FillInv'
<1> SUFFICES ASSUME FillInv, FillNext PROVE FillInv' OBVIOUS
<1>1. /\ offset \in Offsets /\ bufLen \in BufLens /\ pos \in 0..bufLen
      /\ offset' = offset /\ bufLen' = bufLen
      /\ First' = First /\ FirstCounter' = FirstCounter /\ \A i : ByteAt(i)' = ByteAt(i)
  BY DEF FillInv, FillNext, SkipHead, FillBlock, Overflow, FillReturn, First, FirstCounter, ByteAt
<1>t. /\ bufLen \in Nat /\ pos \in Nat /\ pos <= bufLen /\ counter \in Nat
      /\ counter >= FirstCounter /\ counter <= CounterRange
      /\ FirstCounter \in Nat /\ FirstCounter < CounterRange /\ CounterRange \in Nat
  <2>1. bufLen \in Nat /\ CounterRange \in Nat /\ FirstCounter \in 0..(CounterRange - 1)
    BY <1>1, FillTypes
  <2> QED BY <1>1, <2>1 DEF FillInv
<1>2. CASE SkipHead
  <2> DEFINE from == offset % BlockLen
  <2>1. /\ XORKeyStream /\ Copy(from) /\ fillPc' = "loop" /\ pos = 0
        /\ counter = FirstCounter /\ UNCHANGED <<offset, bufLen>>
    BY <1>2 DEF SkipHead, FillInv
  <2>2. from \in 0..(BlockLen - 1) /\ offset + pos = BlockLen * (First + (counter - FirstCounter)) + from
    <3>1. First + (counter - FirstCounter) = First BY <1>1, <2>1, FillTypes
    <3> QED BY <1>1, <2>1, <3>1, FillTypes
  <2> HIDE DEF from
  <2>3. /\ pos' \in 0..bufLen /\ counter' = counter + 1 /\ counter' <= CounterRange
        /\ blockBuf' = FirstCounter..(counter' - 1)
        /\ pos' < bufLen => offset + pos' = BlockLen * (First + (counter' - FirstCounter))
        /\ \A i \in 0..(pos' - 1) : buf'[i] = ByteAt(i)
    BY <2>1, <2>2, CopyBlock
  <2>4. /\ counter' \in Nat /\ counter' >= FirstCounter /\ counter' <= CounterRange
        /\ fillPc' \notin {"skip", "panic", "done"} /\ fillPc' \in {"loop"}
    BY <1>t, <2>1, <2>3
  <2> QED BY <1>1, <2>3, <2>4 DEF FillInv
<1>3. CASE FillBlock
  <2>1. /\ XORKeyStream /\ Copy(0) /\ fillPc = "loop" /\ fillPc' = "loop" /\ pos < bufLen
        /\ UNCHANGED <<offset, bufLen>>
    BY <1>3 DEF FillBlock
  <2>2. 0 \in 0..(BlockLen - 1) /\ offset + pos = BlockLen * (First + (counter - FirstCounter)) + 0
    <3>1. offset + pos = BlockLen * (First + (counter - FirstCounter))
      BY <2>1 DEF FillInv
    <3>2. offset + pos \in Nat BY <1>1, FillTypes
    <3> QED BY <1>1, <3>1, <3>2, FillTypes
  <2>3. /\ pos' \in 0..bufLen /\ counter' = counter + 1 /\ counter' <= CounterRange
        /\ blockBuf' = FirstCounter..(counter' - 1)
        /\ pos' < bufLen => offset + pos' = BlockLen * (First + (counter' - FirstCounter))
        /\ \A i \in 0..(pos' - 1) : buf'[i] = ByteAt(i)
    BY <2>1, <2>2, CopyBlock
  <2>4. /\ counter' \in Nat /\ counter' >= FirstCounter /\ counter' <= CounterRange
        /\ fillPc' \notin {"skip", "panic", "done"} /\ fillPc' \in {"loop"}
    BY <1>t, <2>1, <2>3
  <2> QED BY <1>1, <2>3, <2>4 DEF FillInv
<1>4. CASE Overflow
  <2>1. /\ UNCHANGED <<counter, blockBuf, pos, buf>> /\ fillPc' = "panic"
        /\ fillPc = "skip" \/ (fillPc = "loop" /\ pos < bufLen)
        /\ counter >= CounterRange
    BY <1>4 DEF Overflow
  <2>2. fillPc # "skip" BY <1>t, <2>1 DEF FillInv
  <2>3. counter = CounterRange BY <1>t, <2>1
  <2> QED BY <1>1, <2>1, <2>2, <2>3 DEF FillInv
<1>5. CASE FillReturn
  <2>1. /\ UNCHANGED <<counter, blockBuf, pos, buf>> /\ fillPc' = "done" /\ pos >= bufLen
    BY <1>5 DEF FillReturn
  <2>2. pos = bufLen BY <1>t, <2>1
  <2> QED BY <1>1, <2>1, <2>2 DEF FillInv
<1> QED BY <1>2, <1>3, <1>4, <1>5 DEF FillNext

THEOREM FillInvariant == FillSpec => []FillInv
<1>1. FillInv /\ UNCHANGED fillVars => FillInv'
  BY DEF FillInv, fillVars, First, FirstCounter, ByteAt
<1> QED BY <1>1, FillInitInv, FillStepInv, PTL DEF FillSpec

(* What streamAt's loop leaves in its buffer is StreamAt's byte at every   *)
(* position: the XOR of all keystream blocks since the chunk's first, for  *)
(* every block length, counter width, offset and buffer length.            *)
THEOREM BytesFromChunkStart == FillSpec => []BytesDependOnChunkStart
<1>1. FillInv => BytesDependOnChunkStart
  <2> SUFFICES ASSUME FillInv PROVE BytesDependOnChunkStart OBVIOUS
  <2>1. offset \in Offsets /\ bufLen \in BufLens /\ pos \in 0..bufLen BY DEF FillInv
  <2>2. ASSUME NEW i \in 0..(pos - 1)
        PROVE  StreamAt("random", 0, offset, offset + i) =
                  [pattern |-> "random", key |-> 0, blocks |-> buf[i].blocks, at |-> buf[i].at]
    <3> DEFINE m == BlockOf(offset + i) - First
    <3>1. buf[i] = ByteAt(i) BY DEF FillInv
    <3>2. m \in Int BY <2>1, FillTypes DEF BlockOf
    <3>3. Scratch(offset, m) = FirstCounter..(FirstCounter + m)
      <4> DEFINE S == {Counter(offset, j) : j \in 0..m}
      <4>1. \A j : Counter(offset, j) = FirstCounter + j BY DEF Counter, First, FirstCounter
      <4>2. FirstCounter \in Nat BY <2>1, FillTypes
      <4> HIDE DEF m
      <4>3. \A x \in S : x \in FirstCounter..(FirstCounter + m) BY <3>2, <4>1, <4>2
      <4>4. ASSUME NEW x \in FirstCounter..(FirstCounter + m) PROVE x \in S
        <5>1. x - FirstCounter \in 0..m /\ x = FirstCounter + (x - FirstCounter) BY <3>2, <4>2
        <5> QED BY <4>1, <5>1
      <4> QED BY <4>3, <4>4 DEF Scratch
    <3> QED BY <3>1, <3>3 DEF StreamAt, ByteAt, First
  <2> QED BY <2>2 DEF BytesDependOnChunkStart, FillInv
<1> QED BY <1>1, FillInvariant, PTL

(* A device tiled by chunks whose length divides the counter's period can  *)
(* be of any size: the cipher never panics.  A power of two up to 256 GiB, *)
(* as the default CHUNK_BYTES is, divides it.                              *)
THEOREM DividingChunksSafe == FillSpec => []DividingChunksNeverPanic
<1>1. FillInv => DividingChunksNeverPanic
  <2> SUFFICES ASSUME FillInv, bufLen > 0, (BlockLen * CounterRange) % bufLen = 0,
                      offset % bufLen = 0, fillPc = "panic"
               PROVE  FALSE
    BY DEF DividingChunksNeverPanic
  <2> DEFINE P == BlockLen * CounterRange
             q == First \div CounterRange
             x == offset \div bufLen
             y == P \div bufLen
  <2>1. /\ offset \in Nat /\ bufLen \in Nat \ {0} /\ BlockLen \in Nat \ {0}
        /\ CounterRange \in Nat \ {0} /\ First \in Nat /\ q \in Nat
        /\ FirstCounter \in 0..(CounterRange - 1) /\ First = CounterRange * q + FirstCounter
        /\ offset % BlockLen \in 0..(BlockLen - 1)
        /\ offset = BlockLen * First + (offset % BlockLen)
    BY FillTypes DEF FillInv
  <2>2. pos \in Nat /\ pos < bufLen
        /\ offset + pos = BlockLen * (First + (CounterRange - FirstCounter))
    BY <2>1 DEF FillInv
  <2>3. P \in Nat BY <2>1
  <2>4. x \in Nat /\ offset = bufLen * x /\ y \in Nat /\ P = bufLen * y
    <3>1. P % bufLen = 0 /\ offset % bufLen = 0 OBVIOUS
    <3> HIDE DEF P
    <3>2. offset \div bufLen \in Nat /\ offset = bufLen * (offset \div bufLen) + (offset % bufLen)
      BY <2>1, Division
    <3>3. P \div bufLen \in Nat /\ P = bufLen * (P \div bufLen) + (P % bufLen)
      BY <2>1, <2>3, Division
    <3>4. bufLen * (offset \div bufLen) \in Nat /\ bufLen * (P \div bufLen) \in Nat
      BY <2>1, <3>2, <3>3
    <3> QED BY <3>1, <3>2, <3>3, <3>4
  <2> HIDE DEF P, q, x, y
  <2>5. offset + pos = P * (q + 1)
    <3>1. First + (CounterRange - FirstCounter) = CounterRange * (q + 1) BY <2>1
    <3>2. BlockLen * (CounterRange * (q + 1)) = P * (q + 1) BY <2>1 DEF P
    <3> QED BY <2>2, <3>1, <3>2
  <2>6. P * (q + 1) = bufLen * (y * (q + 1)) /\ y * (q + 1) \in Nat BY <2>1, <2>4
  <2>7. offset < offset + pos
    <3>1. First + 1 <= First + (CounterRange - FirstCounter) BY <2>1
    <3>2. BlockLen * (First + 1) <= BlockLen * (First + (CounterRange - FirstCounter))
      <4> DEFINE d == CounterRange - FirstCounter - 1
      <4>1. d \in Nat /\ First + (CounterRange - FirstCounter) = (First + 1) + d BY <2>1
      <4> HIDE DEF d
      <4>2. BlockLen * ((First + 1) + d) = BlockLen * (First + 1) + BlockLen * d
            /\ BlockLen * d \in Nat /\ BlockLen * (First + 1) \in Nat
        BY <2>1, <4>1
      <4> QED BY <4>1, <4>2
    <3>3. BlockLen * (First + 1) = BlockLen * First + BlockLen BY <2>1
    <3>4. offset < BlockLen * (First + 1) BY <2>1, <3>3
    <3>5. BlockLen * (First + 1) \in Nat BY <2>1
    <3> QED BY <2>1, <2>2, <3>2, <3>4, <3>5
  <2>8. bufLen * x < bufLen * (y * (q + 1)) BY <2>4, <2>5, <2>6, <2>7
  <2>9. bufLen * x + bufLen <= bufLen * (y * (q + 1))
    BY <2>1, <2>4, <2>6, <2>8, MultiplesApart
  <2> QED BY <2>1, <2>2, <2>4, <2>5, <2>6, <2>9
<1> QED BY <1>1, FillInvariant, PTL
-----------------------------------------------------------------------------
(* The certificate number.                                                 *)

LessNat == {ss \in Nat \X Nat : ss[1] < ss[2]}

(* Every set of naturals has a least one: induction, in the one form the   *)
(* provers can use here.                                                   *)
LEMMA LeastNat ==
    ASSUME NEW T, T \subseteq Nat, T # {}
    PROVE  \E x \in T : \A y \in T : x <= y
<1>1. OpToRel(<, Nat) = LessNat BY DEF OpToRel, LessNat
<1>2. IsWellFoundedOn(LessNat, Nat) BY <1>1, NatLessThanWellFounded
<1>3. PICK x \in T : \A y \in T : ~(<<y, x>> \in LessNat) BY <1>2, WFMin
<1>4. ASSUME NEW y \in T PROVE x <= y
  <2>1. x \in Nat /\ y \in Nat OBVIOUS
  <2>2. ~(<<y, x>> \in LessNat) BY <1>3
  <2>3. y < x => <<y, x>> \in LessNat BY <2>1 DEF LessNat
  <2> QED BY <2>1, <2>2, <2>3
<1> QED BY <1>4

(* A finite set of positions has a k-th element.                           *)
LEMMA NthElement ==
    ASSUME NEW n \in Nat, NEW P \in SUBSET (1..n), NEW k \in 1..Cardinality(P)
    PROVE  \E i \in P : Cardinality({j \in P : j <= i}) = k
<1> DEFINE U(m) == {j \in P : j <= m}
           T == {m \in Nat : Cardinality(U(m)) >= k}
<1>0. \A j \in P : j \in Nat /\ 1 <= j /\ j <= n OBVIOUS
<1>1. IsFiniteSet(P) /\ Cardinality(P) \in Nat
  <2>1. IsFiniteSet(1..n) BY FS_Interval
  <2>2. IsFiniteSet(P) BY <2>1, FS_Subset
  <2> QED BY <2>2, FS_CardinalityType
<1>2. \A m \in Nat : IsFiniteSet(U(m)) /\ Cardinality(U(m)) \in Nat
  <2> TAKE m \in Nat
  <2>1. U(m) \in SUBSET P OBVIOUS
  <2> HIDE DEF U
  <2> QED BY <1>1, <2>1, FS_Subset, FS_CardinalityType
<1>3. n \in T
  <2>1. U(n) = P BY <1>0
  <2> QED BY <1>1, <2>1
<1>4. PICK m \in T : \A y \in T : m <= y
  <2>1. T \subseteq Nat /\ T # {} BY <1>3
  <2> HIDE DEF T
  <2> QED BY <2>1, LeastNat
<1>5. m # 0
  <2>0. m \in Nat /\ Cardinality(U(m)) >= k OBVIOUS
  <2>a. \A j \in P : ~(j <= 0) BY <1>0
  <2>1. U(0) = {} BY <2>a
  <2>2. Cardinality(U(0)) = 0 BY <2>1, FS_EmptySet
  <2> QED BY <2>0, <2>2
<1>6. m - 1 \in Nat /\ Cardinality(U(m - 1)) < k
  <2>1. m - 1 \in Nat BY <1>5
  <2>2. m - 1 \notin T
    <3>1. m \in Nat OBVIOUS
    <3> HIDE DEF T
    <3>2. m - 1 \in T => m <= m - 1 BY <1>4
    <3> QED BY <3>1, <3>2
  <2>3. Cardinality(U(m - 1)) \in Nat BY <1>2, <2>1
  <2> QED BY <2>1, <2>2, <2>3
<1>7. m \in P
  <2> SUFFICES ASSUME m \notin P PROVE FALSE OBVIOUS
  <2>1. \A j \in P : j <= m <=> j <= m - 1 BY <1>0
  <2>2. U(m) = U(m - 1) BY <2>1
  <2>3. Cardinality(U(m)) >= k /\ Cardinality(U(m - 1)) \in Nat BY <1>2, <1>6
  <2> HIDE DEF U
  <2> QED BY <1>6, <2>2, <2>3
<1>8. Cardinality(U(m)) = Cardinality(U(m - 1)) + 1
  <2>0. \A j \in P : j <= m <=> (j <= m - 1 \/ j = m) BY <1>0
  <2>a. m \in Nat /\ ~(m <= m - 1) OBVIOUS
  <2>b. U(m) = U(m - 1) \cup {m} BY <1>7, <2>0
  <2>1. U(m) = U(m - 1) \cup {m} /\ m \notin U(m - 1) BY <2>a, <2>b
  <2> HIDE DEF U
  <2> QED BY <1>2, <1>6, <2>1, FS_AddElement
<1>9. Cardinality(U(m)) = k
  <2>1. Cardinality(U(m)) >= k /\ Cardinality(U(m - 1)) \in Nat BY <1>2, <1>6
  <2> HIDE DEF U
  <2> QED BY <1>6, <1>8, <2>1
<1> QED BY <1>7, <1>9

LEMMA KeptFacts ==
    ASSUME NEW s \in Seq(Characters)
    PROVE  Kept(s) \in Seq(Alphanumerics)
<1> DEFINE at == {i \in 1..Len(s) : Alphanumeric(s[i])}
           n == Cardinality(at)
           c(k) == CHOOSE i \in at : Cardinality({j \in at : j <= i}) = k
<1>1. Len(s) \in Nat /\ at \in SUBSET (1..Len(s)) OBVIOUS
<1>2. n \in Nat
  <2> HIDE DEF at
  <2>1. IsFiniteSet(1..Len(s)) BY <1>1, FS_Interval
  <2>2. IsFiniteSet(at) BY <1>1, <2>1, FS_Subset
  <2> QED BY <2>2, FS_CardinalityType
<1>3. ASSUME NEW k \in 1..n PROVE c(k) \in at
  <2> HIDE DEF at
  <2>1. \E i \in at : Cardinality({j \in at : j <= i}) = k BY <1>1, NthElement
  <2> QED BY <2>1
<1>4. \A k \in 1..n : s[c(k)] \in Alphanumerics
  <2>1. \A i \in at : s[i] \in Alphanumerics BY DEF Alphanumeric
  <2> HIDE DEF at, c
  <2> QED BY <1>3, <2>1
<1>5. Kept(s) = [k \in 1..n |-> s[c(k)]] BY DEF Kept
<1> HIDE DEF n, c
<1>6. Kept(s) \in [1..n -> Alphanumerics] BY <1>4, <1>5
<1> QED BY <1>2, <1>6, ListedSeq

LEMMA SanitizeFacts ==
    ASSUME NEW s \in Seq(Characters)
    PROVE  sanitize(s) \in Seq(Alphanumerics)
<1>1. Kept(s) \in Seq(Alphanumerics) BY KeptFacts
<1>2. <<"X">> \in Seq(Alphanumerics) BY AlphanumericsAssumption
<1>3. ASSUME NEW m \in Nat, m <= Len(Kept(s))
      PROVE  SubSeq(Kept(s), 1, m) \in Seq(Alphanumerics)
  BY <1>1, <1>3
<1>4. FieldWidth \in Nat /\ Len(Kept(s)) \in Nat BY <1>1, WidthsAssumption
<1> QED BY <1>2, <1>3, <1>4 DEF sanitize

LEMMA ShortSerialFacts ==
    ASSUME NEW s \in Seq(Characters)
    PROVE  shortSerial(s) \in Seq(Characters)
<1>1. SerialTail \in Nat /\ Len(s) \in Nat BY WidthsAssumption
<1>2. Len(s) > SerialTail => SubSeq(s, Len(s) - SerialTail + 1, Len(s)) \in Seq(Characters)
  BY <1>1
<1> QED BY <1>2 DEF shortSerial

(* PowerOfTen is what its recursive definition says.  The library's        *)
(* theorem about such definitions is out of the provers' reach, so here is *)
(* the function itself, put together from its beginnings.                  *)
Beginning(n, g) ==
    /\ g \in [0..n -> Nat] /\ g[0] = 1
    /\ \A i \in 1..n : g[i] = 10 * g[i - 1]

LEMMA BeginningsExist == \A n \in Nat : \E g : Beginning(n, g)
<1> DEFINE T == {n \in Nat : ~\E g : Beginning(n, g)}
<1> SUFFICES ASSUME T # {} PROVE FALSE OBVIOUS
<1>1. PICK n \in T : \A y \in T : n <= y
  <2>1. T \subseteq Nat OBVIOUS
  <2> HIDE DEF T
  <2> QED BY <2>1, LeastNat
<1>2. n \in Nat /\ ~\E g : Beginning(n, g) OBVIOUS
<1>3. n # 0
  <2> DEFINE g == [i \in 0..0 |-> 1]
  <2>1. Beginning(0, g) BY DEF Beginning
  <2> QED BY <1>2, <2>1
<1>4. PICK g : Beginning(n - 1, g)
  <2>1. n - 1 \in Nat BY <1>2, <1>3
  <2>2. n - 1 \notin T
    <3> HIDE DEF T
    <3>1. n - 1 \in T => n <= n - 1 BY <1>1
    <3> QED BY <1>2, <3>1
  <2> QED BY <2>1, <2>2
<1> DEFINE h == [i \in 0..n |-> IF i = n THEN 10 * g[n - 1] ELSE g[i]]
<1>5. g[n - 1] \in Nat /\ \A i \in 0..(n - 1) : g[i] \in Nat BY <1>2, <1>3, <1>4 DEF Beginning
<1>6. h \in [0..n -> Nat] BY <1>2, <1>5
<1>7. h[0] = 1 BY <1>2, <1>3, <1>4 DEF Beginning
<1>8. ASSUME NEW i \in 1..n PROVE h[i] = 10 * h[i - 1]
  <2>1. h[i - 1] = g[i - 1] BY <1>2
  <2>2. CASE i = n BY <1>2, <2>1, <2>2
  <2>3. CASE i # n
    <3>1. i \in 1..(n - 1) BY <1>2, <2>3
    <3> QED BY <1>2, <1>4, <2>1, <2>3, <3>1 DEF Beginning
  <2> QED BY <2>2, <2>3
<1> HIDE DEF h
<1>9. Beginning(n, h) BY <1>6, <1>7, <1>8 DEF Beginning
<1> QED BY <1>2, <1>9

LEMMA BeginningsAgree ==
    ASSUME NEW n \in Nat, NEW m \in Nat, NEW g, NEW h, Beginning(n, g), Beginning(m, h)
    PROVE  \A i \in Nat : i <= n /\ i <= m => g[i] = h[i]
<1> DEFINE T == {i \in Nat : i <= n /\ i <= m /\ g[i] # h[i]}
<1> SUFFICES ASSUME T # {} PROVE FALSE OBVIOUS
<1>1. PICK i \in T : \A y \in T : i <= y
  <2>1. T \subseteq Nat OBVIOUS
  <2> HIDE DEF T
  <2> QED BY <2>1, LeastNat
<1>2. i \in Nat /\ i <= n /\ i <= m /\ g[i] # h[i] OBVIOUS
<1>3. i # 0 BY <1>2 DEF Beginning
<1>4. g[i - 1] = h[i - 1]
  <2>1. i - 1 \in Nat /\ i - 1 <= n /\ i - 1 <= m BY <1>2, <1>3
  <2>2. i - 1 \notin T
    <3> HIDE DEF T
    <3>1. i - 1 \in T => i <= i - 1 BY <1>1
    <3> QED BY <1>2, <3>1
  <2> QED BY <2>1, <2>2
<1>5. i \in 1..n /\ i \in 1..m BY <1>2, <1>3
<1> QED BY <1>2, <1>4, <1>5 DEF Beginning

LEMMA PowersOfTen ==
    /\ PowerOfTen[0] = 1
    /\ \A n \in Nat : PowerOfTen[n + 1] = 10 * PowerOfTen[n]
<1> DEFINE Body(f) == [k \in Nat |-> IF k = 0 THEN 1 ELSE 10 * f[k - 1]]
           b == [n \in Nat |-> CHOOSE g : Beginning(n, g)]
           p == [n \in Nat |-> b[n][n]]
<1>1. \A n \in Nat : Beginning(n, b[n])
  <2> TAKE n \in Nat
  <2>1. \E g : Beginning(n, g) BY BeginningsExist
  <2>2. Beginning(n, CHOOSE g : Beginning(n, g)) BY <2>1
  <2> QED BY <2>2
<1> HIDE DEF b
<1>2. b[0][0] = 1 BY <1>1 DEF Beginning
<1>3. ASSUME NEW n \in Nat, n # 0 PROVE b[n][n] = 10 * b[n - 1][n - 1]
  <2>1. n - 1 \in Nat /\ n \in 1..n /\ n - 1 <= n BY <1>3
  <2>2. Beginning(n, b[n]) /\ Beginning(n - 1, b[n - 1]) BY <1>1, <2>1
  <2>3. b[n][n - 1] = b[n - 1][n - 1] BY <2>1, <2>2, BeginningsAgree
  <2>4. b[n][n] = 10 * b[n][n - 1] BY <2>1, <2>2 DEF Beginning
  <2> QED BY <2>3, <2>4
<1>4. p = Body(p)
  <2>1. \A n \in Nat : p[n] = (IF n = 0 THEN 1 ELSE 10 * p[n - 1]) BY <1>2, <1>3
  <2> QED BY <2>1
<1>5. \E f : f = Body(f) BY <1>4
<1>6. PowerOfTen = CHOOSE f : f = Body(f) BY DEF PowerOfTen
<1> HIDE DEF Body
<1>7. PowerOfTen = Body(PowerOfTen) BY <1>5, <1>6
<1>8. PowerOfTen[0] = 1 BY <1>7 DEF Body
<1>9. ASSUME NEW n \in Nat PROVE PowerOfTen[n + 1] = 10 * PowerOfTen[n]
  <2>1. n + 1 \in Nat /\ n + 1 # 0 /\ (n + 1) - 1 = n OBVIOUS
  <2> QED BY <1>7, <2>1 DEF Body
<1> QED BY <1>8, <1>9

LEMMA TenFacts ==
    \A n \in Nat : PowerOfTen[n] \in Nat /\ n < PowerOfTen[n]
<1> DEFINE T == {n \in Nat : ~(PowerOfTen[n] \in Nat /\ n < PowerOfTen[n])}
<1> SUFFICES ASSUME T # {} PROVE FALSE OBVIOUS
<1>1. PICK n \in T : \A y \in T : n <= y
  <2>1. T \subseteq Nat OBVIOUS
  <2> HIDE DEF T
  <2> QED BY <2>1, LeastNat
<1>a. n \in Nat /\ ~(PowerOfTen[n] \in Nat /\ n < PowerOfTen[n]) OBVIOUS
<1>2. n # 0
  <2>1. n = 0 => PowerOfTen[n] = 1 BY PowersOfTen
  <2> QED BY <1>a, <2>1
<1>3. n - 1 \in Nat /\ n - 1 \notin T
  <2>1. n - 1 \in Nat BY <1>a, <1>2
  <2> HIDE DEF T
  <2>2. n - 1 \in T => n <= n - 1 BY <1>1
  <2> QED BY <1>a, <2>1, <2>2
<1>4. PowerOfTen[n - 1] \in Nat /\ n - 1 < PowerOfTen[n - 1] BY <1>3
<1>5. PowerOfTen[(n - 1) + 1] = 10 * PowerOfTen[n - 1] BY <1>3, PowersOfTen
<1>6. (n - 1) + 1 = n BY <1>3
<1>7. PowerOfTen[n] = 10 * PowerOfTen[n - 1] BY <1>5, <1>6
<1> QED BY <1>a, <1>3, <1>4, <1>7

LEMMA SmallQuotient ==
    ASSUME NEW p \in Nat \ {0}, NEW n \in Nat, n < p
    PROVE  n \div p = 0
OBVIOUS

LEMMA QuotientOfTen ==
    ASSUME NEW n \in Nat, NEW p \in Nat \ {0}
    PROVE  n \div p = 10 * (n \div (10 * p)) + ((n \div p) % 10)
<1> DEFINE d == n \div p
           q == d \div 10
           r == d % 10
           t == n % p
<1>1. d \in Nat /\ t \in 0..(p - 1) /\ n = p * d + t BY Division
<1>2. q \in Nat /\ r \in 0..9 /\ d = 10 * q + r BY <1>1, Division
<1> HIDE DEF d, q, r, t
<1>3. n = (10 * p) * q + (p * r + t)
  <2>1. p * (10 * q + r) = (10 * p) * q + p * r BY <1>2
  <2>2. p * r \in Nat /\ (10 * p) * q \in Nat BY <1>2
  <2> QED BY <1>1, <1>2, <2>1, <2>2
<1>4. p * r + t \in 0..(10 * p - 1)
  <2>1. p * r \in Nat /\ p * r <= p * 9 BY <1>2
  <2> QED BY <1>1, <2>1
<1>5. 10 * p \in Nat \ {0} OBVIOUS
<1>6. n \div (10 * p) = q
  <2> DEFINE b == 10 * p
             e == p * r + t
  <2>1. b \in Nat \ {0} /\ e \in 0..(b - 1) /\ n = b * q + e BY <1>3, <1>4, <1>5
  <2> HIDE DEF b, e
  <2>2. n \div b = q BY <1>2, <2>1, DivisionUnique
  <2> QED BY <2>2 DEF b
<1> QED BY <1>2, <1>6 DEF d, r

(* Numbers of one length with the same digits are the same.                *)
LEMMA DigitsDetermine ==
    ASSUME NEW n \in Nat, NEW m \in Nat, NEW l \in Nat, n < PowerOfTen[l], m < PowerOfTen[l],
           \A i \in 1..l : (n \div PowerOfTen[l - i]) % 10 = (m \div PowerOfTen[l - i]) % 10
    PROVE  n = m
<1> DEFINE T == {j \in Nat : j <= l /\ n \div PowerOfTen[l - j] # m \div PowerOfTen[l - j]}
<1>0. \A j \in Nat : PowerOfTen[j] \in Nat \ {0} BY TenFacts
<1>1. T = {}
  <2> SUFFICES ASSUME T # {} PROVE FALSE OBVIOUS
  <2>1. PICK j \in T : \A y \in T : j <= y
    <3>1. T \subseteq Nat OBVIOUS
    <3> HIDE DEF T
    <3> QED BY <3>1, LeastNat
  <2>2. j # 0
    <3> DEFINE p == PowerOfTen[l]
    <3>1. p \in Nat \ {0} /\ n < p /\ m < p BY <1>0
    <3> HIDE DEF p
    <3>2. n \div p = 0 /\ m \div p = 0 BY <3>1, SmallQuotient
    <3>3. l - 0 = l OBVIOUS
    <3>4. n \div PowerOfTen[l - 0] = m \div PowerOfTen[l - 0] BY <3>2, <3>3 DEF p
    <3>5. n \div PowerOfTen[l - j] # m \div PowerOfTen[l - j] OBVIOUS
    <3> QED BY <3>4, <3>5
  <2>a. j \in Nat /\ j <= l OBVIOUS
  <2>3. j - 1 \in Nat /\ j - 1 \notin T
    <3>1. j - 1 \in Nat BY <2>a, <2>2
    <3> HIDE DEF T
    <3>2. j - 1 \in T => j <= j - 1 BY <2>1
    <3> QED BY <2>a, <3>1, <3>2
  <2>4. l - j \in Nat /\ l - (j - 1) = (l - j) + 1 /\ j \in 1..l BY <2>1, <2>2
  <2> DEFINE p == PowerOfTen[l - j]
  <2>5. p \in Nat \ {0} /\ PowerOfTen[l - (j - 1)] = 10 * p BY <1>0, <2>4, PowersOfTen
  <2>6. n \div (10 * p) = m \div (10 * p)
    <3>1. n \div PowerOfTen[l - (j - 1)] = m \div PowerOfTen[l - (j - 1)] BY <2>1, <2>3
    <3> QED BY <2>5, <3>1
  <2>7. (n \div p) % 10 = (m \div p) % 10 BY <2>4
  <2>8. n \div p # m \div p BY <2>1
  <2> HIDE DEF p
  <2>9. /\ n \div p = 10 * (n \div (10 * p)) + ((n \div p) % 10)
        /\ m \div p = 10 * (m \div (10 * p)) + ((m \div p) % 10)
    BY <2>5, QuotientOfTen
  <2> QED BY <2>6, <2>7, <2>8, <2>9
<1>2. n \div PowerOfTen[l - l] = m \div PowerOfTen[l - l]
  <2>1. l \notin T BY <1>1
  <2> QED BY <2>1
<1>3. l - l = 0 OBVIOUS
<1>4. n \div 1 = m \div 1 BY <1>2, <1>3, PowersOfTen
<1> QED BY <1>4

(* The printed number: long enough, and made of its decimal digits.        *)
LEMMA PaddedFacts ==
    ASSUME NEW n \in Nat
    PROVE  \E l \in Nat :
              /\ n < PowerOfTen[l] /\ Padded(n) \in Seq(Characters) /\ Len(Padded(n)) = l
              /\ \A i \in 1..l : /\ (n \div PowerOfTen[l - i]) % 10 \in 0..9
                                /\ Padded(n)[i] = Digits[((n \div PowerOfTen[l - i]) % 10) + 1]
<1> DEFINE T == {l \in AttemptWidth..(AttemptWidth + n) : n < PowerOfTen[l]}
           D(l, i) == (n \div PowerOfTen[l - i]) % 10
           Fits(l) == n < PowerOfTen[l] /\ (l = AttemptWidth \/ n >= PowerOfTen[l - 1])
           length == CHOOSE l \in AttemptWidth..(AttemptWidth + n) : Fits(l)
<1>1. AttemptWidth \in Nat BY WidthsAssumption
<1>2. PICK l \in T : \A y \in T : l <= y
  <2>1. AttemptWidth + n \in T
    <3>1. AttemptWidth + n \in Nat /\ n <= AttemptWidth + n BY <1>1
    <3>2. PowerOfTen[AttemptWidth + n] \in Nat /\ AttemptWidth + n < PowerOfTen[AttemptWidth + n]
      BY <3>1, TenFacts
    <3>3. n < PowerOfTen[AttemptWidth + n] BY <3>1, <3>2
    <3> QED BY <1>1, <3>1, <3>3
  <2>2. T \subseteq Nat BY <1>1
  <2> HIDE DEF T
  <2> QED BY <2>1, <2>2, LeastNat
<1>3. Fits(l)
  <2>1. l \in AttemptWidth..(AttemptWidth + n) /\ n < PowerOfTen[l] OBVIOUS
  <2>2. CASE l = AttemptWidth BY <2>1, <2>2
  <2>3. CASE l # AttemptWidth
    <3>1. l - 1 \in AttemptWidth..(AttemptWidth + n) /\ l \in Nat BY <1>1, <2>1, <2>3
    <3>2. l - 1 \notin T
      <4> HIDE DEF T
      <4>1. l - 1 \in T => l <= l - 1 BY <1>2
      <4> QED BY <3>1, <4>1
    <3>3. ~(n < PowerOfTen[l - 1]) BY <3>1, <3>2
    <3>4. l - 1 \in Nat /\ PowerOfTen[l - 1] \in Nat BY <1>1, <3>1, TenFacts
    <3> QED BY <2>1, <3>3, <3>4
  <2> QED BY <2>2, <2>3
<1>4. length \in AttemptWidth..(AttemptWidth + n) /\ Fits(length)
  <2>1. \E y \in AttemptWidth..(AttemptWidth + n) : Fits(y) BY <1>2, <1>3
  <2> HIDE DEF Fits
  <2> QED BY <2>1
<1>5. Padded(n) = [i \in 1..length |-> Digits[D(length, i) + 1]] BY DEF Padded
<1>6. length \in Nat /\ n < PowerOfTen[length] BY <1>1, <1>4
<1> HIDE DEF length, Fits, T
<1>7. ASSUME NEW i \in 1..length PROVE D(length, i) \in 0..9
  <2>1. length - i \in Nat BY <1>6
  <2>2. PowerOfTen[length - i] \in Nat \ {0} BY <2>1, TenFacts
  <2> DEFINE p == PowerOfTen[length - i]
  <2>3. p \in Nat \ {0} BY <2>2
  <2> HIDE DEF p
  <2>4. n \div p \in Nat BY <2>3, Division
  <2>5. (n \div p) % 10 \in 0..9 BY <2>4
  <2> QED BY <2>5 DEF p
<1> HIDE DEF D
<1>8. \A d \in 0..9 : Digits[d + 1] \in Characters BY CharactersAssumption DEF Digits
<1>9. Padded(n) \in [1..length -> Characters] BY <1>5, <1>7, <1>8
<1>10. Padded(n) \in Seq(Characters) /\ Len(Padded(n)) = length BY <1>6, <1>9, ListedSeq
<1>11. \A i \in 1..length : D(length, i) \in 0..9 /\ Padded(n)[i] = Digits[D(length, i) + 1]
  BY <1>5, <1>7
<1> QED BY <1>6, <1>10, <1>11 DEF D

LEMMA PaddedInjective ==
    ASSUME NEW n \in Nat, NEW m \in Nat, Padded(n) = Padded(m)
    PROVE  n = m
<1>1. PICK l \in Nat :
              /\ n < PowerOfTen[l] /\ Padded(n) \in Seq(Characters) /\ Len(Padded(n)) = l
              /\ \A i \in 1..l : /\ (n \div PowerOfTen[l - i]) % 10 \in 0..9
                                /\ Padded(n)[i] = Digits[((n \div PowerOfTen[l - i]) % 10) + 1]
  BY PaddedFacts
<1>2. PICK k \in Nat :
              /\ m < PowerOfTen[k] /\ Padded(m) \in Seq(Characters) /\ Len(Padded(m)) = k
              /\ \A i \in 1..k : /\ (m \div PowerOfTen[k - i]) % 10 \in 0..9
                                /\ Padded(m)[i] = Digits[((m \div PowerOfTen[k - i]) % 10) + 1]
  BY PaddedFacts
<1>3. k = l BY <1>1, <1>2
<1>4. \A c, d \in 0..9 : Digits[c + 1] = Digits[d + 1] => c = d
  <2> SUFFICES ASSUME NEW c \in 0..9, NEW d \in 0..9, Digits[c + 1] = Digits[d + 1]
               PROVE  c = d
    OBVIOUS
  <2> QED BY DEF Digits
<1>5. ASSUME NEW i \in 1..l
      PROVE  (n \div PowerOfTen[l - i]) % 10 = (m \div PowerOfTen[l - i]) % 10
  <2> DEFINE c == (n \div PowerOfTen[l - i]) % 10
             d == (m \div PowerOfTen[l - i]) % 10
  <2>1. c \in 0..9 /\ d \in 0..9 /\ Padded(n)[i] = Digits[c + 1] /\ Padded(m)[i] = Digits[d + 1]
    BY <1>1, <1>2, <1>3
  <2> HIDE DEF c, d
  <2>2. c = d BY <1>4, <2>1
  <2> QED BY <2>2 DEF c, d
<1>6. n < PowerOfTen[l] /\ m < PowerOfTen[l] BY <1>1, <1>2, <1>3
<1> QED BY <1>5, <1>6, DigitsDetermine

Joined(a, b, c) == a \o <<"-">> \o b \o <<"-">> \o c

(* Where the characters of three fields joined by dashes are.              *)
Joins(s, a, b, c) ==
    /\ Len(s) = Len(a) + Len(b) + Len(c) + 2
    /\ \A i \in 1..Len(a) : s[i] = a[i]
    /\ s[Len(a) + 1] = "-"
    /\ \A i \in 1..Len(b) : s[Len(a) + 1 + i] = b[i]
    /\ s[Len(a) + 1 + Len(b) + 1] = "-"
    /\ \A i \in 1..Len(c) : s[Len(a) + 1 + Len(b) + 1 + i] = c[i]

LEMMA JoinedFields ==
    ASSUME NEW a \in Seq(Characters), NEW b \in Seq(Characters), NEW c \in Seq(Characters)
    PROVE  Joins(Joined(a, b, c), a, b, c)
<1> DEFINE C == Characters
           d == <<"-">>
           s1 == a \o d
           s2 == s1 \o b
           s3 == s2 \o d
           s == s3 \o c
<1>0. d \in Seq(C) /\ Len(d) = 1 /\ d[1] = "-" BY CharactersAssumption
<1>j. Joined(a, b, c) = s BY DEF Joined
<1> HIDE DEF d
<1>1. s1 \in Seq(C) /\ Concatenates(s1, a, d)
  BY <1>0, ConcatSeq
<1> HIDE DEF s1
<1>2. s2 \in Seq(C) /\ Concatenates(s2, s1, b)
  BY <1>1, ConcatSeq
<1> HIDE DEF s2
<1>3. s3 \in Seq(C) /\ Concatenates(s3, s2, d)
  BY <1>0, <1>2, ConcatSeq
<1> HIDE DEF s3
<1>4. Concatenates(s, s3, c)
  BY <1>3, ConcatSeq
<1> HIDE DEF s, C
<1> USE DEF Concatenates
<1>5. /\ Len(s1) = Len(a) + 1 /\ s1[Len(a) + 1] = "-"
      /\ Len(s2) = Len(a) + 1 + Len(b) /\ Len(s3) = Len(a) + 1 + Len(b) + 1
      /\ s3[Len(a) + 1 + Len(b) + 1] = "-"
  <2>1. 1 \in 1..Len(d) BY <1>0
  <2>2. s1[Len(a) + 1] = d[1] /\ s3[Len(s2) + 1] = d[1] BY <1>1, <1>3, <2>1
  <2>3. Len(s1) = Len(a) + 1 BY <1>0, <1>1
  <2>4. Len(s2) = Len(a) + 1 + Len(b) BY <1>2, <2>3
  <2>5. Len(s3) = Len(s2) + 1 BY <1>0, <1>3
  <2> QED BY <1>0, <2>2, <2>3, <2>4, <2>5
<1>6. Len(s) = Len(a) + Len(b) + Len(c) + 2 BY <1>1, <1>2, <1>4, <1>5
<1>7. \A i \in 1..Len(s1) : s[i] = s1[i]
  <2> TAKE i \in 1..Len(s1)
  <2>1. i \in 1..Len(s2) /\ i \in 1..Len(s3) BY <1>1, <1>2, <1>5
  <2> QED BY <1>2, <1>3, <1>4, <2>1
<1>8. s[Len(a) + 1] = "-" /\ \A i \in 1..Len(a) : s[i] = a[i]
  <2>1. Len(a) + 1 \in 1..Len(s1) /\ \A i \in 1..Len(a) : i \in 1..Len(s1) BY <1>1, <1>5
  <2> QED BY <1>1, <1>5, <1>7, <2>1
<1>9. \A i \in 1..Len(b) : s[Len(a) + 1 + i] = b[i]
  <2> TAKE i \in 1..Len(b)
  <2>1. Len(s1) + i \in 1..Len(s2) /\ Len(s1) + i \in 1..Len(s3) BY <1>1, <1>2, <1>5
  <2>2. s[Len(s1) + i] = b[i] BY <1>2, <1>3, <1>4, <2>1
  <2> QED BY <1>5, <2>2
<1>10. s[Len(a) + 1 + Len(b) + 1] = "-"
  <2>1. Len(s3) \in 1..Len(s3) BY <1>1, <1>2, <1>5
  <2> QED BY <1>4, <1>5, <2>1
<1>11. \A i \in 1..Len(c) : s[Len(a) + 1 + Len(b) + 1 + i] = c[i] BY <1>4, <1>5
<1> QED BY <1>j, <1>6, <1>8, <1>9, <1>10, <1>11 DEF Joins

(* Fields without dashes are read back from the joined text.               *)
LEMMA FieldsDetermined ==
    ASSUME NEW a \in Seq(Alphanumerics), NEW b \in Seq(Alphanumerics), NEW c \in Seq(Characters),
           NEW x \in Seq(Alphanumerics), NEW y \in Seq(Alphanumerics), NEW z \in Seq(Characters),
           Joined(a, b, c) = Joined(x, y, z)
    PROVE  a = x /\ b = y /\ c = z
<1> DEFINE s == Joined(a, b, c)
<1>1. /\ a \in Seq(Characters) /\ b \in Seq(Characters)
      /\ x \in Seq(Characters) /\ y \in Seq(Characters)
  BY CharactersAssumption
<1>2. Joins(s, a, b, c) BY <1>1, JoinedFields
<1>3. Joins(s, x, y, z) BY <1>1, JoinedFields
<1> HIDE DEF s
<1> USE DEF Joins
<1>4. /\ Len(a) \in Nat /\ Len(b) \in Nat /\ Len(c) \in Nat
      /\ Len(x) \in Nat /\ Len(y) \in Nat /\ Len(z) \in Nat
  OBVIOUS
<1>5. /\ \A i \in 1..Len(a) : a[i] # "-"
      /\ \A i \in 1..Len(b) : b[i] # "-"
      /\ \A i \in 1..Len(x) : x[i] # "-"
      /\ \A i \in 1..Len(y) : y[i] # "-"
  BY AlphanumericsAssumption
<1>6. Len(a) = Len(x)
  <2>1. ~(Len(a) < Len(x))
    <3>1. Len(a) < Len(x) => Len(a) + 1 \in 1..Len(x) BY <1>4
    <3> QED BY <1>2, <1>3, <1>5, <3>1
  <2>2. ~(Len(x) < Len(a))
    <3>1. Len(x) < Len(a) => Len(x) + 1 \in 1..Len(a) BY <1>4
    <3> QED BY <1>2, <1>3, <1>5, <3>1
  <2> QED BY <1>4, <2>1, <2>2
<1>7. Len(b) = Len(y)
  <2>1. ~(Len(b) < Len(y))
    <3> SUFFICES ASSUME Len(b) < Len(y) PROVE FALSE OBVIOUS
    <3>1. /\ Len(b) + 1 \in 1..Len(y)
          /\ Len(x) + 1 + (Len(b) + 1) = Len(a) + 1 + Len(b) + 1
      BY <1>4, <1>6
    <3>2. s[Len(x) + 1 + (Len(b) + 1)] = y[Len(b) + 1] BY <1>3, <3>1
    <3> QED BY <1>2, <1>5, <3>1, <3>2
  <2>2. ~(Len(y) < Len(b))
    <3> SUFFICES ASSUME Len(y) < Len(b) PROVE FALSE OBVIOUS
    <3>1. /\ Len(y) + 1 \in 1..Len(b)
          /\ Len(a) + 1 + (Len(y) + 1) = Len(x) + 1 + Len(y) + 1
      BY <1>4, <1>6
    <3>2. s[Len(a) + 1 + (Len(y) + 1)] = b[Len(y) + 1] BY <1>2, <3>1
    <3> QED BY <1>3, <1>5, <3>1, <3>2
  <2> QED BY <1>4, <2>1, <2>2
<1>8. Len(c) = Len(z) BY <1>2, <1>3, <1>4, <1>6, <1>7
<1>9. \A i \in 1..Len(a) : a[i] = x[i] BY <1>2, <1>3, <1>6
<1>10. \A i \in 1..Len(b) : b[i] = y[i] BY <1>2, <1>3, <1>6, <1>7
<1>11. \A i \in 1..Len(c) : c[i] = z[i] BY <1>2, <1>3, <1>6, <1>7, <1>8
<1>12. a = x BY <1>1, <1>6, <1>9, SameSeq
<1>13. b = y BY <1>1, <1>7, <1>10, SameSeq
<1>14. c = z BY <1>8, <1>11, SameSeq
<1> QED BY <1>12, <1>13, <1>14

(* The certificate number of a day determines what it keeps of the tag and *)
(* the serial, and the attempt: for all tags, serials, attempts and field  *)
(* widths.                                                                 *)
THEOREM NumberReadsBack == LabelSpec => []NumberDeterminesFields
<1> DEFINE Typed == label \in Labels
<1>1. LabelInit => Typed BY DEF LabelInit
<1>2. Typed /\ [UNCHANGED label]_label => Typed' OBVIOUS
<1>3. Typed => NumberDeterminesFields
  <2> SUFFICES ASSUME label \in Labels, NEW other \in Labels, Number(label) = Number(other)
               PROVE  /\ sanitize(label.tag) = sanitize(other.tag)
                      /\ sanitize(shortSerial(label.serial)) = sanitize(shortSerial(other.serial))
                      /\ label.attempt = other.attempt
    BY DEF NumberDeterminesFields
  <2>1. /\ label.tag \in Seq(Characters) /\ label.serial \in Seq(Characters) /\ label.attempt \in Nat
        /\ other.tag \in Seq(Characters) /\ other.serial \in Seq(Characters) /\ other.attempt \in Nat
    BY LabelsAssumption DEF Labels
  <2> DEFINE a == sanitize(label.tag)
             b == sanitize(shortSerial(label.serial))
             c == Padded(label.attempt + 1)
             x == sanitize(other.tag)
             y == sanitize(shortSerial(other.serial))
             z == Padded(other.attempt + 1)
  <2>2. /\ a \in Seq(Alphanumerics) /\ b \in Seq(Alphanumerics)
        /\ x \in Seq(Alphanumerics) /\ y \in Seq(Alphanumerics)
    BY <2>1, ShortSerialFacts, SanitizeFacts
  <2>3. c \in Seq(Characters) /\ z \in Seq(Characters)
    <3>1. label.attempt + 1 \in Nat /\ other.attempt + 1 \in Nat BY <2>1
    <3> QED BY <3>1, PaddedFacts
  <2>4. Joined(a, b, c) = Joined(x, y, z)
    BY DEF Number, certNumber, Joined
  <2> HIDE DEF a, b, c, x, y, z
  <2>5. a = x /\ b = y /\ c = z BY <2>2, <2>3, <2>4, FieldsDetermined
  <2>6. label.attempt = other.attempt
    <3>1. label.attempt + 1 \in Nat /\ other.attempt + 1 \in Nat BY <2>1
    <3>2. label.attempt + 1 = other.attempt + 1 BY <2>5, <3>1, PaddedInjective DEF c, z
    <3> QED BY <2>1, <3>2
  <2> QED BY <2>5, <2>6 DEF a, b, x, y
<1> QED BY <1>1, <1>2, <1>3, PTL DEF LabelSpec
=============================================================================
