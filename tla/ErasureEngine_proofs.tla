------------------------- MODULE ErasureEngine_proofs -------------------------
(***************************************************************************)
(* Proofs about ErasureEngine for every standard, disk size, chunk size,   *)
(* checkpoint interval, set of dead cells and number of power losses.      *)
(***************************************************************************)
EXTENDS ErasureEngine, TLAPS

(* What the assumptions say in the form the steps below use.               *)
LEMMA Constants ==
    /\ N \in Nat \ {0} /\ Last \in Nat /\ N = Last + 1
    /\ Size \in Nat \ {0}
    /\ ChunkSizes \subseteq Nat \ {0} /\ ChunkSizes # {}
    /\ Step \in Nat \ {0} /\ MaxMishaps \in Nat
BY EngineAssumption DEF Last

(* The spans verification reads lie on the disk and hold a cell each: of a *)
(* full verification, and of every layout of a sample.                     *)
LEMMA SpanBounds ==
    ASSUME NEW start \in 0..Size, NEW end \in 0..Size, start < end
    PROVE  S!Span(start, end) \in {r \in [start : 0..Size, end : 0..Size] : r.start < r.end}
BY DEF S!Span

OnDisk == {r \in [start : 0..Size, end : 0..Size] : r.start < r.end}

LEMMA SpansJoined ==
    ASSUME NEW D, NEW s \in Seq(D), NEW t \in Seq(D)
    PROVE  s \o t \in Seq(D) /\ Len(s \o t) = Len(s) + Len(t) /\ Len(t) \in Nat
OBVIOUS

LEMMA LayoutOnDisk == S!Layout(Size, Draws) \in Seq(OnDisk) /\ Len(S!Layout(Size, Draws)) > 0
<1> DEFINE W == [i \in 1..Len(Draws) |-> S!WindowAt(Size, Draws[i])]
<1>1. S!HeadTail(Size) \in Seq(OnDisk) /\ Len(S!HeadTail(Size)) = 2
  <2>1. S!Least(1, Size) = 1 /\ S!Most(0, Size - 1) = Size - 1
    BY Constants DEF S!Least, S!Most
  <2>2. S!Span(0, 1) \in OnDisk /\ S!Span(Size - 1, Size) \in OnDisk
    BY Constants, SpanBounds DEF OnDisk
  <2> HIDE DEF OnDisk
  <2> QED BY <2>1, <2>2 DEF S!HeadTail
<1>2. \A i \in 1..Len(Draws) : S!WindowAt(Size, Draws[i]) \in OnDisk
  <2>1. Draws \in Seq(S!DrawRange(Size)) BY EngineAssumption
  <2> TAKE i \in 1..Len(Draws)
  <2>2. Draws[i] \in S!DrawRange(Size) BY <2>1
  <2> DEFINE d == Draws[i]
  <2>3. d \in 0..(Size - 1)
    BY <2>2, Constants DEF S!DrawRange, S!Most
  <2> HIDE DEF d
  <2>4. S!Least(d + 1, Size) = d + 1 BY <2>3, Constants DEF S!Least
  <2>5. S!Span(d, d + 1) \in OnDisk BY <2>3, Constants, SpanBounds DEF OnDisk
  <2>6. S!WindowAt(Size, d) \in OnDisk BY <2>4, <2>5 DEF S!WindowAt
  <2> QED BY <2>6 DEF d
<1>3. Len(Draws) \in Nat BY EngineAssumption
<1>4. W \in Seq(OnDisk)
  <2> HIDE DEF OnDisk
  <2> QED BY <1>2, <1>3
<1> HIDE DEF W, OnDisk
<1>5. S!HeadTail(Size) \o W \in Seq(OnDisk) /\ Len(S!HeadTail(Size) \o W) = 2 + Len(W) /\ Len(W) \in Nat
  BY ONLY <1>1, <1>4, SpansJoined
<1>6. S!Layout(Size, Draws) = S!HeadTail(Size) \o W BY DEF S!Layout, W
<1> QED BY <1>5, <1>6

LEMMA RangeBounds ==
    /\ Len(Ranges) \in Nat /\ Len(Ranges) > 0
    /\ \A i \in 1..Len(Ranges) :
          /\ Ranges[i].start \in 0..Size /\ Ranges[i].end \in 0..Size
          /\ Ranges[i].start < Ranges[i].end
<1>1. Ranges \in Seq(OnDisk) /\ Len(Ranges) > 0
  <2>1. CASE VerifyMode = "full"
    <3>1. S!Span(0, Size) \in OnDisk BY Constants, SpanBounds DEF OnDisk
    <3> HIDE DEF OnDisk
    <3> QED BY <2>1, <3>1 DEF Ranges
  <2>2. CASE VerifyMode # "full"
    BY <2>2, LayoutOnDisk DEF Ranges
  <2> QED BY <2>1, <2>2
<1>2. \A t \in OnDisk : t.start \in 0..Size /\ t.end \in 0..Size /\ t.start < t.end
  BY DEF OnDisk
<1>3. Len(Ranges) \in Nat /\ \A i \in 1..Len(Ranges) : Ranges[i] \in OnDisk
  BY <1>1
<1>4. \A i \in 1..Len(Ranges) : /\ Ranges[i].start \in 0..Size /\ Ranges[i].end \in 0..Size
                                /\ Ranges[i].start < Ranges[i].end
  BY <1>2, <1>3
<1> QED BY <1>1, <1>3, <1>4

(* The cells a write can reach, and the stamps they hold.                  *)
LEMMA CellFacts ==
    ASSUME TypeOK
    PROVE  /\ dead \subseteq Cells /\ Live \subseteq Cells
           /\ \A c \in Cells : /\ c \in Nat /\ c < Size
                               /\ platter[c].pass \in -1..Last
                               /\ cache[c].pass \in -1..Last
<1>1. dead \subseteq Cells BY EngineAssumption DEF TypeOK
<1>2. \A c \in Cells : c \in Nat /\ c < Size BY Constants DEF Cells
<1>3. \A c \in Cells : platter[c] \in StampType /\ cache[c] \in StampType BY DEF TypeOK
<1>4. \A t \in StampType : t.pass \in -1..Last BY DEF StampType
<1> QED BY <1>1, <1>2, <1>3, <1>4 DEF Live

LEMMA CheckpointFacts ==
    ASSUME TypeOK, CheckpointShape
    PROVE  /\ cp.pass \in -1..Last /\ cp.offset \in 0..Size /\ Reach \in 0..N
           /\ Reach = IF cp.pass >= 0 /\ cp.offset < Size THEN cp.pass ELSE cp.pass + 1
           /\ ResumeAt.offset = IF cp.offset >= Size THEN 0 ELSE cp.offset
           /\ ResumeAt.offset \in 0..(Size - 1)
<1>1. cp \in [pass : -1..Last, offset : 0..Size] BY DEF TypeOK
<1>2. cp.pass = -1 <=> cp = NoCheckpoint
  BY <1>1, Constants DEF CheckpointShape, NoCheckpoint
<1>3. CASE cp = NoCheckpoint
  BY <1>1, <1>3, Constants DEF NoCheckpoint, ResumeAt, Reach
<1>4. CASE cp # NoCheckpoint
  BY <1>1, <1>2, <1>4, Constants DEF ResumeAt, Reach
<1> QED BY <1>3, <1>4

(* The end of the next chunk lies behind the current cell and within the   *)
(* limit.                                                                  *)
LEMMA ChunkEndBounds ==
    ASSUME TypeOK, NEW limit \in 0..Size, offset < limit
    PROVE  /\ ChunkEnd(limit) \in offset..limit
           /\ offset < ChunkEnd(limit) /\ ChunkEnd(limit) <= limit
           /\ ChunkEnd(limit) <= offset + chunk
BY Constants DEF TypeOK, ChunkEnd, S!Least

LEMMA InitInv == Init => EngineInv
<1> SUFFICES ASSUME Init PROVE EngineInv OBVIOUS
<1>1. TypeOK
  BY Constants, RangeBounds
     DEF Init, TypeOK, PcValues, StampType, Residue, NoCheckpoint, Unfinished, TrailValues
<1>2. \A c \in Live : cache[c].pass = -1 /\ platter[c].pass = -1 /\ cache[c] = platter[c]
                     /\ c \in Nat
  BY Constants DEF Init, Live, Residue, Cells
<1>3. CheckpointKept /\ CacheAhead /\ Flushed
  <2>1. cp.pass = -1 /\ cp.offset = 0 /\ Reach = 0
    BY DEF Init, NoCheckpoint, Reach, ResumeAt
  <2> QED BY <1>2, <2>1 DEF CheckpointKept, CacheAhead, Flushed, AtLeast, AtMostReach
<1>4. DeadUntouched
  BY Constants DEF Init, DeadUntouched
<1>5. TrailPlace BY DEF Init, TrailPlace
<1> QED
  BY <1>1, <1>3, <1>4, <1>5 DEF Init, EngineInv, OverwriteProgress, Overwriting, VerifyProgress,
     Verifying, ReadSoFar, CheckpointShape, NoCheckpoint, Outcome, Unfinished

(* What the invariant says of the cells a run may still write or read.     *)
LEMMA CellOrder ==
    ASSUME EngineInv
    PROVE  \A c \in Live :
              /\ platter[c].pass \in -1..Last /\ cache[c].pass \in -1..Last
              /\ c \in Nat /\ c < Size
              /\ AtMostReach(platter[c], c) /\ AtMostReach(cache[c], c)
              /\ AtLeast(platter[c], cp.pass - 1) /\ AtLeast(cache[c], cp.pass - 1)
              /\ c < cp.offset => AtLeast(platter[c], cp.pass) /\ AtLeast(cache[c], cp.pass)
<1>1. TypeOK BY DEF EngineInv
<1> QED BY <1>1, CellFacts DEF EngineInv, CheckpointKept, CacheAhead

(* The beginning of a run at pass k from cell o on, over a device that     *)
(* holds what such a run counts on.                                        *)
LEMMA RunBegins ==
    ASSUME EngineInv, ProcessStarts, NEW k \in 0..N, NEW o \in 0..(Size - 1),
           EnterPass(k, o), mishaps' \in 0..MaxMishaps, trail' \in TrailValues,
           k = Reach \/ (Stale' /\ k = 0),
           Stale => Stale', Lost => Lost', trail = "broken" => trail' = "broken",
           TrailPlace',
           \A c \in Live : AtLeast(platter[c], k - 1) /\ AtLeast(cache[c], k - 1),
           \A c \in Live : c < o => AtLeast(cache[c], k) /\ cache[c].pass <= k
    PROVE  EngineInv'
<1>a. TypeOK /\ CheckpointShape BY DEF EngineInv
<1>1. /\ UNCHANGED <<cp, cache, platter, dead>> /\ pc' \in {"write", "verify"}
      /\ Live' = Live /\ Reach' = Reach /\ range' = 1 /\ job' = "running"
  BY DEF ProcessStarts, device, EnterPass, Live, Reach, ResumeAt
<1>b. \A t, n : AtLeast(t, n) => AtLeast(t, n)' BY DEF AtLeast
<1>2. TypeOK'
  BY <1>a, <1>1, Constants, RangeBounds
     DEF TypeOK, ProcessStarts, EnterPass, PcValues, Unfinished
<1>3. CheckpointKept' /\ CheckpointShape' /\ DeadUntouched'
  BY <1>1, <1>b DEF EngineInv, CheckpointKept, CheckpointShape, DeadUntouched, AtLeast
<1>4. CacheAhead'
  BY <1>1 DEF EngineInv, CacheAhead, AtMostReach
<1>5. OverwriteProgress'
  <2> SUFFICES ASSUME Overwriting' PROVE OverwriteProgress' BY DEF OverwriteProgress
  <2>1. pc' = "write" /\ k <= Last /\ pass' = k /\ offset' = o
    BY <1>1 DEF EnterPass, Overwriting
  <2>2. \A c \in Live : /\ AtLeast(platter[c], k - 1)' /\ AtLeast(cache[c], k - 1)'
                        /\ c < o => AtLeast(cache[c], k)' /\ cache[c].pass <= k
    BY <1>1, <1>b DEF AtLeast
  <2> QED BY <2>1, <2>2, <1>1, Constants DEF OverwriteProgress, AtLeast
<1>6. VerifyProgress'
  <2> SUFFICES ASSUME Verifying' PROVE VerifyProgress' BY DEF VerifyProgress
  <2>1. k = N /\ pass' = k
    BY <1>1, Constants DEF EnterPass, Verifying
  <2>2. \A c \in Live : AtLeast(platter[c], Last)' /\ AtLeast(cache[c], Last)'
    BY <2>1, <1>1, <1>b, Constants DEF AtLeast
  <2>3. pc' = "verify" => offset' = Ranges[1].start BY <1>1 DEF EnterPass
  <2> QED BY <2>1, <2>2, <2>3, <1>1, RangeBounds DEF VerifyProgress, AtLeast
<1>7. Flushed'
  <2>1. Verifying' => Reach = N
    BY <1>1, Constants DEF EnterPass, Verifying
  <2> QED BY <2>1, <1>1 DEF EngineInv, Flushed
<1>8. ReadSoFar'
  <2>1. pc' = "verify" => offset' = Ranges[1].start BY DEF EnterPass
  <2> QED BY <2>1, <1>1, RangeBounds DEF ReadSoFar, Verifying
<1>9. Outcome' BY <1>1 DEF Outcome, Unfinished
<1> QED BY <1>2, <1>3, <1>4, <1>5, <1>6, <1>7, <1>8, <1>9 DEF EngineInv

LEMMA StartInv == EngineInv /\ Start => EngineInv'
<1> SUFFICES ASSUME EngineInv, Start PROVE EngineInv' OBVIOUS
<1> DEFINE k == ResumeAt.pass
           o == ResumeAt.offset
<1>a. TypeOK /\ CheckpointShape BY DEF EngineInv
<1>b. /\ k = Reach /\ k \in 0..N /\ o \in 0..(Size - 1)
      /\ k = IF cp.pass >= 0 /\ cp.offset < Size THEN cp.pass ELSE cp.pass + 1
      /\ o = IF cp.offset >= Size THEN 0 ELSE cp.offset
      /\ cp.pass \in -1..Last /\ cp.offset \in 0..Size
      /\ cp.pass = -1 => cp.offset = 0
  BY <1>a, CheckpointFacts DEF Reach, CheckpointShape
<1>1. /\ ProcessStarts /\ EnterPass(k, o) /\ mishaps' = mishaps /\ trail' = trail
      /\ pc = "down" /\ pc' \in {"write", "verify"} /\ ResumeAt' = ResumeAt
  BY DEF Start, ProcessStarts, EnterPass, ResumeAt
<1> HIDE DEF k, o
<1>2. \A c \in Live : /\ AtLeast(platter[c], k - 1) /\ AtLeast(cache[c], k - 1)
                      /\ c < o => AtLeast(cache[c], k) /\ cache[c].pass <= k
  BY <1>b, CellOrder, Constants DEF AtLeast, AtMostReach
<1>3. TrailPlace'
  <2>1. trail # "unread" /\ (trail = "restarting" => Reach = 0)
    BY <1>1 DEF EngineInv, TrailPlace
  <2>2. trail = "restarting" => pc' = "write" /\ pass' = 0
    BY <2>1, <1>1, <1>b, Constants DEF EnterPass
  <2> QED BY <2>1, <2>2, <1>1 DEF TrailPlace, Reach
<1>4. Stale' = Stale /\ Lost' = Lost BY <1>1 DEF Stale, Lost
<1> QED BY <1>a, <1>b, <1>1, <1>2, <1>3, <1>4, RunBegins DEF TypeOK

LEMMA StartUnreadInv == EngineInv /\ StartUnread => EngineInv'
<1> SUFFICES ASSUME EngineInv, StartUnread PROVE EngineInv' OBVIOUS
<1>a. TypeOK /\ CheckpointShape BY DEF EngineInv
<1>1. /\ ProcessStarts /\ EnterPass(0, 0) /\ pc' = "write" /\ pass' = 0
      /\ mishaps' = mishaps + 1 /\ mishaps < MaxMishaps
      /\ trail' \in {"unread", "broken"} /\ (trail = "broken" => trail' = "broken")
  BY Constants DEF StartUnread, EnterPass
<1>2. Stale' /\ Lost' /\ TrailPlace' BY <1>1 DEF Stale, Lost, TrailPlace
<1>3. \A c \in Live : AtLeast(platter[c], 0 - 1) /\ AtLeast(cache[c], 0 - 1)
  BY CellOrder, Constants DEF AtLeast
<1>4. \A c \in Live : ~(c < 0) BY CellOrder
<1>5. mishaps' \in 0..MaxMishaps /\ trail' \in TrailValues
  BY <1>1, <1>a, Constants DEF TypeOK, TrailValues
<1>6. 0 \in 0..N /\ 0 \in 0..(Size - 1) BY Constants
<1> QED BY <1>1, <1>2, <1>3, <1>4, <1>5, <1>6, RunBegins

LEMMA WriteChunkInv == EngineInv /\ WriteChunk => EngineInv'
<1> SUFFICES ASSUME EngineInv, WriteChunk PROVE EngineInv' OBVIOUS
<1> DEFINE end == ChunkEnd(Size)
<1>a. TypeOK /\ CheckpointShape /\ pc = "write" BY DEF EngineInv, WriteChunk
<1>b. /\ offset < Size /\ range = 1 /\ pass \in 0..Last /\ offset \in 0..Size
      /\ pass = Reach \/ (Stale /\ pass = 0)
      /\ chunk \in Nat \ {0} /\ mark \in 0..Size
      /\ \A c \in Live : /\ AtLeast(platter[c], pass - 1) /\ AtLeast(cache[c], pass - 1)
                         /\ c < offset => AtLeast(cache[c], pass) /\ cache[c].pass <= pass
  BY <1>a, Constants DEF EngineInv, TypeOK, OverwriteProgress, Overwriting
<1>c. end \in 0..Size /\ offset < end /\ end <= Size
  BY <1>a, <1>b, ChunkEndBounds, Constants
<1>d. Reach \in 0..N /\ cp.pass \in -1..Last /\ cp.offset \in 0..Size
      /\ (Reach = IF cp.pass >= 0 /\ cp.offset < Size THEN cp.pass ELSE cp.pass + 1)
  BY <1>a, CheckpointFacts
<1>1. /\ UNCHANGED <<chunk, pass, mark, range, unreported, clean, cp, job,
                     platter, dead, mishaps, trail>>
      /\ offset' = end /\ pc' \in {"sync", "write"} /\ (end >= Size => pc' = "sync")
      /\ cache' = [c \in Cells |-> IF c \in offset..(end - 1) /\ c \notin dead
                                  THEN Stamp(pass, offset) ELSE cache[c]]
  BY <1>a DEF WriteChunk, durable
<1>2. \A c \in Live : IF c \in offset..(end - 1) THEN cache'[c].pass = pass
                                                  ELSE cache'[c] = cache[c]
  <2> HIDE DEF end
  <2> QED BY <1>1 DEF Live, Stamp
<1>3. /\ Reach' = Reach /\ Live' = Live /\ Stale' = Stale /\ Lost' = Lost
  BY <1>1 DEF Live, Reach, ResumeAt, Stale, Lost
<1>e. \A t, n : (AtLeast(t, n)' <=> AtLeast(t', n'))
  BY <1>3 DEF AtLeast
<1> HIDE DEF end
<1>4. TypeOK'
  <2>1. Stamp(pass, offset) \in StampType
    BY <1>b, Constants DEF Stamp, StampType, Cells
  <2>2. cache' \in [Cells -> StampType] BY <1>1, <1>a, <2>1 DEF TypeOK
  <2> QED BY <2>2, <1>1, <1>a, <1>c DEF TypeOK, PcValues
<1>5. CheckpointKept' /\ CheckpointShape'
  <2>1. \A c \in Live : /\ cache'[c].pass >= cp.pass - 1 \/ (Stale /\ cache'[c].pass = 0)
                        /\ c < cp.offset => cache'[c].pass >= cp.pass \/ (Stale /\ cache'[c].pass = 0)
    <3>1. pass >= cp.pass \/ (Stale /\ pass = 0) BY <1>b, <1>d, Constants
    <3> QED BY <3>1, <1>2, <1>b, <1>d, CellOrder, Constants DEF AtLeast
  <2> QED BY <2>1, <1>1, <1>3 DEF EngineInv, CheckpointKept, CheckpointShape, AtLeast
<1>6. CacheAhead'
  <2>1. ASSUME NEW c \in Live
        PROVE  /\ \/ trail = "broken"
                  \/ (Lost /\ cache'[c].pass = 0)
                  \/ cache'[c].pass \in {platter[c].pass, platter[c].pass + 1}
               /\ cache'[c].pass <= Reach \/ (Lost /\ Reach = 0 /\ c >= cp.offset)
    <3>1. CASE c \notin offset..(end - 1)
      BY <3>1, <1>2 DEF EngineInv, CacheAhead, AtMostReach
    <3>2. CASE c \in offset..(end - 1)
      <4>1. cache'[c].pass = pass /\ pass <= Reach BY <3>2, <1>2, <1>b, <1>d
      <4>2. CASE Lost /\ pass = 0 BY <4>1, <4>2
      <4>3. CASE ~(Lost /\ pass = 0) /\ trail # "broken"
        <5>1. ~Stale /\ ~(Lost /\ Reach = 0) /\ pass = Reach
          BY <4>3, <1>a, <1>b DEF Stale, Lost, EngineInv, TrailPlace
        <5>2. platter[c].pass <= pass /\ platter[c].pass >= pass - 1
          BY <5>1, <1>b, CellOrder DEF AtLeast, AtMostReach
        <5>3. platter[c].pass \in -1..Last BY CellOrder
        <5> QED BY <4>1, <5>2, <5>3, <1>b, Constants
      <4> QED BY <4>1, <4>2, <4>3
    <3> QED BY <3>1, <3>2
  <2> QED BY <2>1, <1>1, <1>3 DEF EngineInv, CacheAhead, AtMostReach
<1>7. OverwriteProgress'
  <2>1. \A c \in Live : /\ cache'[c].pass >= pass - 1 \/ (Stale /\ cache'[c].pass = 0)
                        /\ c < end => /\ cache'[c].pass >= pass \/ (Stale /\ cache'[c].pass = 0)
                                      /\ cache'[c].pass <= pass
    BY <1>2, <1>b, <1>c, CellOrder, Constants DEF AtLeast
  <2>2. pc' = "write" => end < Size BY <1>1, <1>c, Constants
  <2> QED BY <2>1, <2>2, <1>1, <1>3, <1>b, <1>c, Constants DEF OverwriteProgress, AtLeast
<1>8. VerifyProgress' /\ ReadSoFar'
  BY <1>1 DEF VerifyProgress, ReadSoFar, Verifying
<1>9. Flushed'
  <2> SUFFICES ASSUME Reach = N PROVE \A c \in Live : cache'[c] = platter[c] \/ cache'[c].pass = 0
    BY <1>1, <1>3 DEF Flushed, Verifying
  <2>1. pass = 0 BY <1>b, Constants
  <2> QED BY <2>1, <1>2 DEF EngineInv, Flushed
<1>10. DeadUntouched'
  <2>1. \A c \in dead : c \in Cells /\ cache[c] = platter[c]
    BY <1>a, CellFacts DEF EngineInv, DeadUntouched
  <2> QED BY <2>1, <1>1 DEF DeadUntouched
<1>11. TrailPlace' /\ Outcome'
  BY <1>a, <1>1, <1>3 DEF EngineInv, TrailPlace, Outcome, Unfinished
<1> QED BY <1>4, <1>5, <1>6, <1>7, <1>8, <1>9, <1>10, <1>11 DEF EngineInv

(* A sync outside verification: what was written so far becomes stable.    *)
LEMMA SyncChunkInv == EngineInv /\ SyncChunk => EngineInv'
<1> SUFFICES ASSUME EngineInv, SyncChunk PROVE EngineInv' OBVIOUS
<1>a. TypeOK /\ pc = "sync" BY DEF EngineInv, SyncChunk
<1>1. /\ UNCHANGED <<chunk, pass, offset, mark, range, unreported, clean, cp, job,
                     cache, dead, mishaps, trail>>
      /\ platter' = cache /\ pc' = "save"
      /\ Reach' = Reach /\ Live' = Live /\ Stale' = Stale /\ Lost' = Lost
  BY DEF SyncChunk, durable, local, Reach, ResumeAt, Live, Stale, Lost
<1>2. TypeOK' BY <1>1, <1>a DEF TypeOK, PcValues
<1>3. CheckpointKept' /\ CacheAhead' /\ CheckpointShape' /\ DeadUntouched' /\ Flushed'
  BY <1>1 DEF EngineInv, CheckpointKept, CacheAhead, CheckpointShape, DeadUntouched, Flushed,
     AtLeast, AtMostReach
<1>4. OverwriteProgress'
  BY <1>a, <1>1 DEF EngineInv, OverwriteProgress, Overwriting, AtLeast
<1>5. VerifyProgress' /\ ReadSoFar' BY <1>1 DEF VerifyProgress, ReadSoFar, Verifying
<1>6. Outcome' /\ TrailPlace' BY <1>a, <1>1 DEF EngineInv, Outcome, Unfinished, TrailPlace
<1> QED BY <1>2, <1>3, <1>4, <1>5, <1>6 DEF EngineInv

LEMMA SaveCheckpointInv == EngineInv /\ SaveCheckpoint => EngineInv'
<1> SUFFICES ASSUME EngineInv, SaveCheckpoint PROVE EngineInv' OBVIOUS
<1>a. TypeOK /\ pc = "save" BY DEF EngineInv, SaveCheckpoint
<1>1. /\ UNCHANGED <<chunk, pass, offset, range, unreported, clean,
                     cache, platter, dead, mishaps>>
      /\ cp' = [pass |-> pass, offset |-> offset] /\ mark' = offset /\ job' = "running"
      /\ pc' = (IF offset < Size THEN "write" ELSE "endpass") /\ Live' = Live
      /\ trail' = IF trail \in {"unread", "restarting"}
                  THEN IF offset < Size THEN "restarting" ELSE "restarted"
                  ELSE trail
  BY DEF SaveCheckpoint, device, Live
<1>2. /\ pass \in 0..Last /\ offset \in 0..Size /\ offset > 0 /\ cache = platter
      /\ range = 1
      /\ pass = Reach \/ (Stale /\ pass = 0)
      /\ \A c \in Live : /\ AtLeast(platter[c], pass - 1)
                         /\ c < offset => AtLeast(cache[c], pass) /\ cache[c].pass <= pass
  BY <1>a, Constants DEF EngineInv, TypeOK, OverwriteProgress, Overwriting
<1>b. trail \in {"unread", "restarting"} => pass = 0
  BY <1>a DEF EngineInv, TrailPlace
<1>c. Stale' => Stale
  BY <1>1 DEF Stale
<1>d. Stale /\ ~Stale' => pass = 0 BY <1>1, <1>b DEF Stale
<1>3. TypeOK'
  BY <1>1, <1>2, <1>a DEF TypeOK, PcValues, Unfinished, TrailValues
<1>4. CheckpointShape' BY <1>1, <1>2 DEF CheckpointShape
<1>5. /\ cp'.pass = pass /\ cp'.offset = offset
      /\ Reach' = IF offset < Size THEN pass ELSE pass + 1
  <2>1. cp' # NoCheckpoint BY <1>1, <1>2, Constants DEF NoCheckpoint
  <2> QED BY <2>1, <1>1, <1>2, Constants DEF Reach, ResumeAt
<1>6. \A c \in Live : /\ platter[c].pass \in -1..Last /\ c \in Nat /\ c < Size
                      /\ platter[c].pass >= pass - 1 \/ (Stale' /\ platter[c].pass = 0)
                      /\ c < offset => /\ platter[c].pass >= pass \/ (Stale' /\ platter[c].pass = 0)
                                       /\ platter[c].pass <= pass
  BY <1>2, <1>d, CellOrder, Constants DEF AtLeast
<1>7. CheckpointKept'
  BY <1>1, <1>2, <1>5, <1>6 DEF CheckpointKept, AtLeast
<1>8. \A c \in Live : platter[c].pass <= Reach' \/ (Lost' /\ Reach' = 0 /\ c >= offset)
  <2> TAKE c \in Live
  <2>1. CASE c < offset BY <2>1, <1>2, <1>5, <1>6
  <2>2. CASE ~(c < offset) /\ pass = 0 /\ Lost
    <3>0. offset < Size
      <4>1. c \in Nat /\ c < Size BY <1>6
      <4> QED BY <4>1, <2>2, <1>2, Constants
    <3>1. Lost' /\ Reach' = 0
      BY <2>2, <3>0, <1>1, <1>5 DEF Lost, Stale
    <3> QED BY <2>2, <3>1, <1>2, <1>6
  <2>3. CASE ~(pass = 0 /\ Lost)
    <3>1. pass = Reach /\ ~(Lost /\ Reach = 0) BY <2>3, <1>2 DEF Lost
    <3>2. platter[c].pass <= pass BY <3>1, CellOrder DEF AtMostReach
    <3> QED BY <3>2, <1>2, <1>5, <1>6
  <2> QED BY <2>1, <2>2, <2>3
<1>9. CacheAhead'
  BY <1>1, <1>2, <1>5, <1>8 DEF CacheAhead, AtMostReach
<1>10. OverwriteProgress'
  BY <1>1, <1>2, <1>5, <1>6, Constants DEF OverwriteProgress, AtLeast
<1>11. VerifyProgress' /\ ReadSoFar' BY <1>1 DEF VerifyProgress, ReadSoFar, Verifying
<1>12. Flushed' BY <1>1, <1>2 DEF Flushed
<1>13. TrailPlace'
  BY <1>1, <1>2, <1>5, <1>b, Constants DEF TrailPlace
<1>14. DeadUntouched' /\ Outcome'
  BY <1>1 DEF EngineInv, DeadUntouched, Outcome, Unfinished
<1> QED BY <1>3, <1>4, <1>7, <1>9, <1>10, <1>11, <1>12, <1>13, <1>14 DEF EngineInv

LEMMA EndPassInv == EngineInv /\ EndPass => EngineInv'
<1> SUFFICES ASSUME EngineInv, EndPass PROVE EngineInv' OBVIOUS
<1>a. TypeOK /\ CheckpointShape /\ pc = "endpass" BY DEF EngineInv, EndPass
<1>1. /\ UNCHANGED <<chunk, range, unreported, clean, cp, job, cache, dead, mishaps, trail>>
      /\ platter' = cache /\ EnterPass(pass + 1, 0)
      /\ Live' = Live /\ Reach' = Reach /\ Stale' = Stale /\ Lost' = Lost
  BY DEF EndPass, durable, Live, Reach, ResumeAt, Stale, Lost
<1>2. /\ pass \in 0..Last /\ cp = [pass |-> pass, offset |-> Size] /\ cache = platter
      /\ range = 1
      /\ \A c \in Live : c < Size => AtLeast(cache[c], pass) /\ cache[c].pass <= pass
  BY <1>a, Constants DEF EngineInv, TypeOK, OverwriteProgress, Overwriting
<1>3. \A c \in Live : AtLeast(cache[c], pass) /\ c \in Nat
  BY <1>2, CellOrder
<1>4. Reach = pass + 1 BY <1>a, <1>2, CheckpointFacts, Constants
<1>5. TypeOK'
  BY <1>1, <1>2, <1>a, Constants, RangeBounds DEF TypeOK, PcValues, EnterPass
<1>6. CheckpointKept' /\ CacheAhead' /\ CheckpointShape' /\ DeadUntouched' /\ Flushed'
  BY <1>1, <1>2 DEF EngineInv, CheckpointKept, CacheAhead, CheckpointShape, DeadUntouched,
     Flushed, AtLeast, AtMostReach
<1>7. OverwriteProgress'
  <2> SUFFICES ASSUME Overwriting' PROVE OverwriteProgress' BY DEF OverwriteProgress
  <2>1. /\ pc' = "write" /\ pass' = pass + 1 /\ pass + 1 <= Last /\ offset' = 0
    BY <1>1 DEF EnterPass, Overwriting
  <2>2. \A c \in Live : cache[c].pass >= (pass + 1) - 1 \/ (Stale /\ cache[c].pass = 0)
    BY <1>2, <1>3 DEF AtLeast
  <2>3. \A c \in Live : ~(c < 0) BY <1>3
  <2> QED BY <2>1, <2>2, <2>3, <1>1, <1>2, <1>4, Constants DEF OverwriteProgress, AtLeast
<1>8. VerifyProgress'
  <2> SUFFICES ASSUME Verifying' PROVE VerifyProgress' BY DEF VerifyProgress
  <2>1. pass' = pass + 1 /\ ~(pass + 1 <= Last) /\ offset' = Ranges[1].start
    BY <1>1 DEF EnterPass, Verifying
  <2>2. pass = Last BY <2>1, <1>2, Constants
  <2> QED BY <2>1, <2>2, <1>1, <1>2, <1>3, Constants, RangeBounds DEF VerifyProgress, AtLeast
<1>9. ReadSoFar'
  <2> SUFFICES ASSUME Verifying' PROVE ReadSoFar' BY DEF ReadSoFar
  <2>1. range' = 1 /\ offset' = Ranges[1].start
    BY <1>1, <1>2 DEF EnterPass, Verifying
  <2> QED BY <2>1, RangeBounds DEF ReadSoFar
<1>10. Outcome' BY <1>a, <1>1 DEF EngineInv, Outcome, EnterPass, Unfinished
<1>11. TrailPlace' BY <1>a, <1>1 DEF EngineInv, TrailPlace, EnterPass
<1> QED BY <1>5, <1>6, <1>7, <1>8, <1>9, <1>10, <1>11 DEF EngineInv

(* The bytes verification expects, and those of a cell that took its last  *)
(* write in the final pass, are bytes of the final pattern.                *)
LEMMA FinalPattern ==
    /\ \A s, c : Expected(s, c).pattern = Passes[N]
    /\ \A t, c : t.pass = Last => Bytes(t, c).pattern = Passes[N]
<1>1. \A pat, key, s, c : K!StreamAt(pat, key, s, c).pattern = pat
  BY DEF K!StreamAt
<1>2. \A t : t.pass = Last => t # Residue /\ t.pass + 1 = N
  BY Constants DEF Residue
<1> QED BY <1>1, <1>2 DEF Expected, Bytes

LEMMA FirstPattern ==
    ASSUME NEW t, NEW u, NEW c, t.pass = 0, u.pass = 0
    PROVE  Bytes(t, c).pattern = Bytes(u, c).pattern
<1>1. t # Residue /\ u # Residue BY DEF Residue
<1> QED BY <1>1 DEF Bytes, K!StreamAt

LEMMA VerifyChunkInv == EngineInv /\ VerifyChunk => EngineInv'
<1> SUFFICES ASSUME EngineInv, VerifyChunk PROVE EngineInv' OBVIOUS
<1> DEFINE limit == Ranges[range].end
           end == ChunkEnd(limit)
<1>a. TypeOK /\ pc = "verify" BY DEF EngineInv, VerifyChunk
<1>b. /\ offset < limit /\ limit \in 0..Size /\ offset \in 0..Size /\ pass = N
      /\ range \in 1..Len(Ranges) /\ unreported \in Nat /\ clean \in BOOLEAN
      /\ \A c \in Live : AtLeast(platter[c], Last) /\ AtLeast(cache[c], Last)
  BY <1>a, RangeBounds DEF EngineInv, TypeOK, VerifyProgress, Verifying
<1>c. end \in 0..Size /\ offset < end /\ end <= limit
  BY <1>a, <1>b, ChunkEndBounds, Constants
<1>1. /\ UNCHANGED <<chunk, pass, mark, range, cp, job, cache, platter, dead, mishaps, trail>>
      /\ offset' = end /\ unreported' = unreported + (end - offset)
      /\ clean' = (clean /\ \A c \in offset..(end - 1) :
                               Bytes(cache[c], c) = Expected(offset, c))
      /\ pc' \in {"verify", "report"} /\ (end >= limit => pc' = "report")
      /\ Live' = Live /\ Reach' = Reach /\ Stale' = Stale /\ Lost' = Lost
  BY <1>a DEF VerifyChunk, durable, device, Live, Reach, ResumeAt, Stale, Lost
<1> HIDE DEF end
<1>2. TypeOK'
  <2>1. unreported + (end - offset) \in Nat BY <1>b, <1>c, Constants
  <2>2. clean' \in BOOLEAN BY <1>1
  <2> QED BY <2>1, <2>2, <1>1, <1>a, <1>c, Constants DEF TypeOK, PcValues
<1>3. CheckpointKept' /\ CacheAhead' /\ CheckpointShape' /\ DeadUntouched' /\ Flushed'
  BY <1>1, <1>a DEF EngineInv, CheckpointKept, CacheAhead, CheckpointShape, DeadUntouched,
     Flushed, Verifying, AtLeast, AtMostReach
<1>4. OverwriteProgress' /\ TrailPlace'
  BY <1>1, <1>a DEF EngineInv, OverwriteProgress, Overwriting, TrailPlace
<1>5. VerifyProgress' BY <1>1, <1>b, <1>c, Constants DEF VerifyProgress, AtLeast
<1>6. ReadSoFar'
  <2> SUFFICES ASSUME clean', NEW i \in 1..Len(Ranges),
                      NEW c \in Ranges[i].start..(Ranges[i].end - 1),
                      i < range \/ (i = range /\ c < end)
               PROVE  Compared(c)
    BY <1>1 DEF ReadSoFar, Compared
  <2>1. clean /\ \A x \in offset..(end - 1) : Bytes(cache[x], x) = Expected(offset, x)
    BY <1>1
  <2>2. CASE i < range \/ c < offset
    BY <2>1, <2>2, <1>a DEF EngineInv, ReadSoFar, Verifying
  <2>3. CASE i = range /\ ~(c < offset)
    <3>1. c \in offset..(end - 1) BY <2>3, <1>b, <1>c, RangeBounds
    <3> QED BY <3>1, <2>1, FinalPattern DEF Compared
  <2> QED BY <2>2, <2>3
<1>7. Outcome' BY <1>a, <1>1 DEF EngineInv, Outcome, Unfinished
<1> QED BY <1>2, <1>3, <1>4, <1>5, <1>6, <1>7 DEF EngineInv

LEMMA ReportVerifyInv == EngineInv /\ ReportVerify => EngineInv'
<1> SUFFICES ASSUME EngineInv, ReportVerify PROVE EngineInv' OBVIOUS
<1>a. TypeOK /\ pc = "report" BY DEF EngineInv, ReportVerify
<1>b. /\ offset \in 0..Size /\ pass = N /\ range \in 1..Len(Ranges)
      /\ \A c \in Live : AtLeast(platter[c], Last) /\ AtLeast(cache[c], Last)
  BY <1>a DEF EngineInv, TypeOK, VerifyProgress, Verifying
<1>1. /\ UNCHANGED <<chunk, pass, mark, clean, cache, platter, dead, mishaps, trail>>
      /\ cp' = [pass |-> Last, offset |-> offset] /\ job' = "verifying"
      /\ unreported' = 0 /\ Live' = Live /\ Stale' = Stale /\ Lost' = Lost
  BY DEF ReportVerify, device, Live, Stale, Lost
<1>2. \/ /\ offset < Ranges[range].end /\ pc' = "verify"
         /\ offset' = offset /\ range' = range
      \/ /\ offset >= Ranges[range].end /\ range < Len(Ranges) /\ pc' = "verify"
         /\ range' = range + 1 /\ offset' = Ranges[range + 1].start
      \/ /\ offset >= Ranges[range].end /\ range = Len(Ranges) /\ pc' = "checked"
         /\ offset' = offset /\ range' = range
  BY DEF ReportVerify
<1>3. /\ offset' \in 0..Size /\ range' \in 1..Len(Ranges)
      /\ pc' \in {"verify", "checked"} /\ (pc' = "verify" => offset' < Ranges[range'].end)
  BY <1>2, <1>b, RangeBounds
<1>4. TypeOK'
  BY <1>1, <1>3, <1>a, <1>b, Constants DEF TypeOK, PcValues, Unfinished
<1>5. CheckpointShape' /\ cp'.pass = Last /\ cp'.offset = offset
  BY <1>1, <1>b, Constants DEF CheckpointShape
<1>6. Reach' >= Last /\ Reach' \in Int
  <2>1. cp' # NoCheckpoint BY <1>5, Constants DEF NoCheckpoint
  <2>2. Reach' = IF offset >= Size THEN Last + 1 ELSE Last
    BY <2>1, <1>1, <1>5 DEF Reach, ResumeAt
  <2> QED BY <2>2, <1>b, Constants
<1>7. CheckpointKept' /\ CacheAhead' /\ Flushed'
  <2>1. \A c \in Live : /\ AtLeast(platter[c], Last) /\ AtLeast(cache[c], Last)
                        /\ platter[c].pass \in -1..Last /\ cache[c].pass \in -1..Last
    BY <1>b, CellOrder
  <2>2. CheckpointKept' BY <2>1, <1>1, <1>5, Constants DEF CheckpointKept, AtLeast
  <2>3. CacheAhead'
    BY <2>1, <1>1, <1>6, Constants DEF EngineInv, CacheAhead, AtMostReach
  <2>4. Flushed' BY <1>a, <1>1 DEF EngineInv, Flushed, Verifying
  <2> QED BY <2>2, <2>3, <2>4
<1>8. OverwriteProgress' /\ TrailPlace'
  BY <1>a, <1>1, <1>3 DEF EngineInv, OverwriteProgress, Overwriting, TrailPlace
<1>9. VerifyProgress' BY <1>1, <1>3, <1>b DEF VerifyProgress, AtLeast
<1>10. ReadSoFar'
  <2> SUFFICES ASSUME clean, NEW i \in 1..Len(Ranges),
                      NEW c \in Ranges[i].start..(Ranges[i].end - 1),
                      i < range' \/ (i = range' /\ c < offset')
               PROVE  Compared(c)
    BY <1>1 DEF ReadSoFar, Compared
  <2>1. i < range \/ (i = range /\ c < offset) BY <1>2, <1>b, RangeBounds
  <2> QED BY <2>1, <1>a DEF EngineInv, ReadSoFar, Verifying
<1>11. DeadUntouched' BY <1>1 DEF EngineInv, DeadUntouched
<1>12. Outcome' BY <1>1, <1>2 DEF Outcome, Unfinished
<1> QED BY <1>4, <1>5, <1>7, <1>8, <1>9, <1>10, <1>11, <1>12 DEF EngineInv

LEMMA ConcludeInv == EngineInv /\ Conclude => EngineInv'
<1> SUFFICES ASSUME EngineInv, Conclude PROVE EngineInv' OBVIOUS
<1>a. TypeOK /\ pc = "checked" BY DEF EngineInv, Conclude
<1>1. /\ UNCHANGED <<chunk, pass, offset, mark, range, unreported, clean,
                     cache, platter, dead, mishaps, trail>>
      /\ pc' = "end" /\ Live' = Live /\ Stale' = Stale /\ Lost' = Lost
      /\ \/ clean /\ job' = "verified"
         \/ job' = "failed"
      /\ cp' = cp \/ cp' = [pass |-> Last, offset |-> Size]
  BY DEF Conclude, local, device, Live, Stale, Lost
<1>2. \A c \in Live : /\ AtLeast(platter[c], Last) /\ AtLeast(cache[c], Last)
                      /\ platter[c].pass \in -1..Last /\ cache[c].pass \in -1..Last
                      /\ cache[c] = platter[c] \/ cache[c].pass = 0
  BY <1>a, CellOrder DEF EngineInv, VerifyProgress, Verifying, Flushed
<1>3. TypeOK' BY <1>1, <1>a, Constants DEF TypeOK, PcValues
<1>4. CheckpointKept' /\ CacheAhead' /\ CheckpointShape' /\ Flushed'
  <2>1. CASE cp' = cp
    BY <2>1, <1>1, <1>2 DEF EngineInv, CheckpointKept, CacheAhead, CheckpointShape, Flushed,
       Reach, ResumeAt, AtLeast, AtMostReach
  <2>2. CASE cp' = [pass |-> Last, offset |-> Size]
    <3>1. CheckpointShape' /\ cp'.pass = Last /\ cp'.offset = Size /\ Reach' = Last + 1
      BY <2>2, Constants DEF Reach, ResumeAt, CheckpointShape, NoCheckpoint
    <3>2. CheckpointKept' BY <3>1, <1>1, <1>2, Constants DEF CheckpointKept, AtLeast
    <3>3. CacheAhead'
      BY <3>1, <1>1, <1>2, Constants DEF EngineInv, CacheAhead, AtMostReach
    <3>4. Flushed' BY <1>1, <1>2 DEF Flushed
    <3> QED BY <3>1, <3>2, <3>3, <3>4
  <2> QED BY <2>1, <2>2, <1>1
<1>5. OverwriteProgress' /\ VerifyProgress' /\ ReadSoFar' /\ DeadUntouched' /\ TrailPlace'
  BY <1>a, <1>1 DEF EngineInv, OverwriteProgress, Overwriting, VerifyProgress, Verifying,
     ReadSoFar, DeadUntouched, TrailPlace
<1>6. Outcome'
  <2> SUFFICES ASSUME job' = "verified", NEW c \in Sampled
               PROVE  Bytes(platter[c], c).pattern = Passes[N]
    BY <1>1 DEF Outcome
  <2>1. PICK i \in 1..Len(Ranges) : c \in Ranges[i].start..(Ranges[i].end - 1)
    BY DEF Sampled
  <2>2. clean /\ range = Len(Ranges) /\ offset >= Ranges[range].end /\ offset \in 0..Size
    BY <1>1, <1>a DEF EngineInv, Outcome, TypeOK
  <2>3. Compared(c) /\ c \in Cells
    <3>1. i < range \/ (i = range /\ c < offset) BY <2>1, <2>2, RangeBounds
    <3>2. Compared(c) BY <3>1, <2>1, <2>2, <1>a DEF EngineInv, ReadSoFar, Verifying
    <3> QED BY <3>2, <2>1, RangeBounds, Constants DEF Cells
  <2>4. CASE c \in dead
    BY <2>3, <2>4 DEF EngineInv, DeadUntouched, Compared
  <2>5. CASE c \in Live /\ cache[c] = platter[c]
    BY <2>3, <2>5 DEF Compared
  <2>6. CASE c \in Live /\ cache[c].pass = 0
    <3>1. CASE platter[c].pass = Last BY <3>1, FinalPattern
    <3>2. CASE platter[c].pass = 0
      BY <2>3, <2>6, <3>2, FirstPattern DEF Compared
    <3> QED BY <2>6, <3>1, <3>2, <1>2, Constants DEF AtLeast
  <2> QED BY <2>3, <2>4, <2>5, <2>6, <1>2 DEF Live
<1> QED BY <1>3, <1>4, <1>5, <1>6 DEF EngineInv

(* Losing the process: only what is durable is left.                       *)
LEMMA ForgetInv ==
    ASSUME EngineInv, Forget, UNCHANGED <<cp, job, dead>>, mishaps' \in 0..MaxMishaps,
           job \in Unfinished,
           \/ UNCHANGED <<cache, platter>>
           \/ /\ platter' = cache' /\ cache' \in [Cells -> StampType]
              /\ \A c \in Cells : cache'[c] \in {cache[c], platter[c]}
    PROVE  EngineInv'
<1>a. TypeOK BY DEF EngineInv
<1>1. /\ pc' = "down" /\ Live' = Live /\ Reach' = Reach /\ cp' = cp
      /\ trail' = IF trail = "unread" THEN "broken" ELSE trail
      /\ Stale' = Stale /\ Lost' = Lost
  BY DEF Forget, Live, Reach, ResumeAt, Stale, Lost
<1>2. TypeOK' BY <1>a, <1>1, Constants, RangeBounds DEF TypeOK, Forget, PcValues, TrailValues
<1>3. /\ CheckpointKept' /\ CacheAhead' /\ CheckpointShape' /\ DeadUntouched' /\ Flushed'
  <2>1. CASE UNCHANGED <<cache, platter>>
    BY <2>1, <1>1 DEF EngineInv, CheckpointKept, CacheAhead, CheckpointShape, DeadUntouched,
       Flushed, Verifying, AtLeast, AtMostReach
  <2>2. CASE /\ platter' = cache'
             /\ \A c \in Cells : cache'[c] \in {cache[c], platter[c]}
    <3>1. \A c \in Live : /\ AtMostReach(platter[c], c) /\ AtMostReach(cache[c], c)
                          /\ AtLeast(platter[c], cp.pass - 1) /\ AtLeast(cache[c], cp.pass - 1)
                          /\ c < cp.offset => AtLeast(platter[c], cp.pass) /\ AtLeast(cache[c], cp.pass)
                          /\ cache'[c] = cache[c] \/ cache'[c] = platter[c]
      BY <2>2, CellOrder DEF Live
    <3>2. \A c \in Live : /\ AtMostReach(cache'[c], c)
                          /\ AtLeast(cache'[c], cp.pass - 1)
                          /\ c < cp.offset => AtLeast(cache'[c], cp.pass)
      BY <3>1
    <3>3. CheckpointKept' /\ CacheAhead'
      BY <3>2, <2>2, <1>1 DEF CheckpointKept, CacheAhead, AtLeast, AtMostReach
    <3>4. Flushed' BY <2>2 DEF Flushed
    <3> QED BY <3>3, <3>4, <2>2, <1>1 DEF EngineInv, CheckpointShape, DeadUntouched
  <2> QED BY <2>1, <2>2
<1>4. OverwriteProgress' /\ VerifyProgress' /\ ReadSoFar' /\ Outcome'
  BY <1>1 DEF OverwriteProgress, Overwriting, VerifyProgress, Verifying, ReadSoFar, Outcome,
     Unfinished
<1>5. TrailPlace' BY <1>1 DEF EngineInv, TrailPlace, Forget
<1> QED BY <1>2, <1>3, <1>4, <1>5 DEF EngineInv

LEMMA FaultInv == EngineInv /\ Fault => EngineInv'
<1> SUFFICES ASSUME EngineInv, Fault PROVE EngineInv' OBVIOUS
<1>1. /\ UNCHANGED <<chunk, pass, offset, mark, range, unreported, clean, cp,
                     cache, platter, dead, mishaps, trail>>
      /\ pc' = "end" /\ job' = "failed" /\ Live' = Live
      /\ Reach' = Reach /\ Stale' = Stale /\ Lost' = Lost
  BY DEF Fault, local, device, Live, Reach, ResumeAt, Stale, Lost
<1>2. TypeOK' BY <1>1 DEF EngineInv, TypeOK, PcValues
<1>3. CheckpointKept' /\ CacheAhead' /\ Flushed' /\ TrailPlace'
  BY <1>1 DEF EngineInv, CheckpointKept, CacheAhead, Flushed, Verifying, TrailPlace,
     AtLeast, AtMostReach
<1> QED
  BY <1>1, <1>2, <1>3 DEF EngineInv, CheckpointShape, DeadUntouched,
     OverwriteProgress, Overwriting, VerifyProgress, Verifying, ReadSoFar, Outcome

LEMMA StutterInv == EngineInv /\ UNCHANGED vars => EngineInv'
<1> SUFFICES ASSUME EngineInv, UNCHANGED vars PROVE EngineInv' OBVIOUS
<1>1. UNCHANGED <<pc, chunk, pass, offset, mark, range, unreported, clean, cp, job,
                  cache, platter, dead, mishaps, trail>>
  BY DEF vars, local, durable, device
<1>2. Live' = Live /\ Reach' = Reach /\ Stale' = Stale /\ Lost' = Lost
  BY <1>1 DEF Live, Reach, ResumeAt, Stale, Lost
<1>3. TypeOK' BY <1>1 DEF EngineInv, TypeOK
<1>4. CheckpointKept' /\ CacheAhead' /\ Flushed' /\ TrailPlace'
  BY <1>1, <1>2 DEF EngineInv, CheckpointKept, CacheAhead, Flushed, Verifying, TrailPlace,
     AtLeast, AtMostReach
<1>5. OverwriteProgress' /\ VerifyProgress'
  BY <1>1, <1>2 DEF EngineInv, OverwriteProgress, Overwriting, VerifyProgress, Verifying, AtLeast
<1> QED
  BY <1>1, <1>2, <1>3, <1>4, <1>5 DEF EngineInv, CheckpointShape, DeadUntouched, ReadSoFar,
     Verifying, Compared, Outcome

LEMMA NextInv == EngineInv /\ [Next]_vars => EngineInv'
<1> SUFFICES ASSUME EngineInv, [Next]_vars PROVE EngineInv' OBVIOUS
<1>a. TypeOK /\ MaxMishaps \in Nat /\ (Running => job \in Unfinished)
  BY Constants DEF EngineInv, Outcome, Running
<1>1. CASE Start BY <1>1, StartInv
<1>0. CASE StartUnread BY <1>0, StartUnreadInv
<1>2. CASE WriteChunk BY <1>2, WriteChunkInv
<1>3. CASE SyncChunk BY <1>3, SyncChunkInv
<1>4. CASE SaveCheckpoint BY <1>4, SaveCheckpointInv
<1>5. CASE EndPass BY <1>5, EndPassInv
<1>6. CASE VerifyChunk BY <1>6, VerifyChunkInv
<1>7. CASE ReportVerify BY <1>7, ReportVerifyInv
<1>8. CASE Conclude BY <1>8, ConcludeInv
<1>9. CASE Interrupt
  <2>1. /\ Forget /\ UNCHANGED <<cp, job, dead, cache, platter>> /\ Running
        /\ mishaps < MaxMishaps /\ mishaps' = mishaps + 1
    BY <1>9 DEF Interrupt, durable, device, Running
  <2>2. mishaps' \in 0..MaxMishaps BY <2>1, <1>a DEF TypeOK
  <2> QED BY <2>1, <2>2, <1>a, ForgetInv
<1>10. CASE PowerLoss
  <2>1. /\ Forget /\ UNCHANGED <<cp, job, dead>> /\ Running /\ platter' = cache'
        /\ mishaps < MaxMishaps /\ mishaps' = mishaps + 1
    BY <1>10 DEF PowerLoss, durable
  <2>2. mishaps' \in 0..MaxMishaps BY <2>1, <1>a DEF TypeOK
  <2>3. PICK lost \in SUBSET {c \in Cells : cache[c] # platter[c]} :
            cache' = [c \in Cells |-> IF c \in lost THEN platter[c] ELSE cache[c]]
    BY <1>10 DEF PowerLoss
  <2>4. /\ cache' \in [Cells -> StampType]
        /\ \A c \in Cells : cache'[c] \in {cache[c], platter[c]}
    BY <2>3, <1>a DEF TypeOK
  <2> QED BY <2>1, <2>2, <2>4, <1>a, ForgetInv
<1>11. CASE Fault BY <1>11, FaultInv
<1>12. CASE FaultUnrecorded
  <2>1. /\ Forget /\ UNCHANGED <<cp, job, dead, cache, platter>> /\ Running
        /\ mishaps < MaxMishaps /\ mishaps' = mishaps + 1
    BY <1>12 DEF FaultUnrecorded, durable, device
  <2>2. mishaps' \in 0..MaxMishaps BY <2>1, <1>a DEF TypeOK
  <2> QED BY <2>1, <2>2, <1>a, ForgetInv
<1>13. CASE Finished \/ UNCHANGED vars BY <1>13, StutterInv DEF Finished
<1> QED
  BY <1>0, <1>1, <1>2, <1>3, <1>4, <1>5, <1>6, <1>7, <1>8, <1>9, <1>10, <1>11, <1>12, <1>13
     DEF Next, Work

THEOREM EngineInvariant == Spec => []EngineInv
<1> QED BY InitInv, NextInv, PTL DEF Spec

(* Type correctness, for every disk, standard and number of power losses.  *)
THEOREM EngineTypeCorrect == Spec => []TypeOK
<1>1. EngineInv => TypeOK BY DEF EngineInv
<1> QED BY <1>1, EngineInvariant, PTL

(* A resumed run never skips a cell whose pass is not on stable storage,   *)
(* as long as the runs read the row, and again once a run that could not   *)
(* has saved its own.                                                      *)
THEOREM CheckpointAlwaysDurable == Spec => []CheckpointDurable
<1>1. EngineInv => CheckpointDurable
  BY DEF EngineInv, CheckpointKept, AtLeast, CheckpointDurable
<1> QED BY <1>1, EngineInvariant, PTL

(* A verified job means an erased disk.                                    *)
THEOREM VerifiedAlwaysErased == Spec => []VerifiedMeansErased
<1>1. EngineInv => VerifiedMeansErased BY DEF EngineInv, Outcome, VerifiedMeansErased
<1> QED BY <1>1, EngineInvariant, PTL

(* What no step takes back: the dead cells stay dead, and a trail that has *)
(* left the checkpoint, or broken, stays so.                               *)
LEMMA TrailStep ==
    ASSUME [Next]_vars
    PROVE  /\ dead' = dead
           /\ trail # "kept" => trail' # "kept"
           /\ trail = "broken" => trail' = "broken"
BY DEF Next, Work, Start, StartUnread, ProcessStarts, WriteChunk, SyncChunk, SaveCheckpoint,
   EndPass, VerifyChunk, ReportVerify, Conclude, Interrupt, PowerLoss, Fault, FaultUnrecorded,
   Forget, Finished, vars, device

(* What is stable on a cell moves through the passes one by one, or is the *)
(* first pass that a run which could not read the row has begun again.     *)
LEMMA StableStep ==
    ASSUME EngineInv, [Next]_vars, trail # "broken"
    PROVE  \A c \in Live : \/ platter'[c].pass \in {platter[c].pass, platter[c].pass + 1}
                           \/ (Lost /\ platter'[c].pass = 0)
<1> SUFFICES ASSUME NEW c \in Live
             PROVE  \/ platter'[c].pass \in {platter[c].pass, platter[c].pass + 1}
                    \/ (Lost /\ platter'[c].pass = 0)
  OBVIOUS
<1>1. /\ c \in Cells
      /\ \/ cache[c].pass \in {platter[c].pass, platter[c].pass + 1}
         \/ (Lost /\ cache[c].pass = 0)
  BY CellFacts DEF EngineInv, CacheAhead
<1>2. \/ platter' = platter \/ platter' = cache
      \/ PowerLoss
  BY DEF Next, Work, Start, StartUnread, ProcessStarts, WriteChunk, SyncChunk, SaveCheckpoint,
     EndPass, VerifyChunk, ReportVerify, Conclude, Interrupt, Fault, FaultUnrecorded, Finished,
     vars, device
<1>3. PowerLoss => platter'[c] \in {platter[c], cache[c]}
  BY <1>1 DEF PowerLoss
<1> QED BY <1>1, <1>2, <1>3

(* Every pass reaches every live cell of the disk in its order.  Only a    *)
(* run that cannot read its row takes a cell back, and to the first pass.  *)
THEOREM PassesAlwaysInOrder == Spec => PassesInOrder
<1>1. EngineInv /\ [Next]_vars
        => [trail # "broken" =>
              \A c \in Live : \/ platter'[c].pass \in {platter[c].pass, platter[c].pass + 1}
                              \/ (Lost /\ platter'[c].pass = 0)]_vars
  BY StableStep
<1> QED BY <1>1, EngineInvariant, PTL DEF Spec, PassesInOrder

-----------------------------------------------------------------------------
(* How much work a power loss costs.                                       *)

LEMMA SumPositive ==
    ASSUME NEW a \in Nat \ {0}, NEW b \in Nat \ {0}
    PROVE  0 < a /\ 0 < a + b
OBVIOUS

LEMMA ReworkStep == EngineInv /\ EngineInv' /\ ReworkInv /\ [Next]_vars => ReworkInv'
<1> SUFFICES ASSUME EngineInv, EngineInv', ReworkInv, [Next]_vars PROVE ReworkInv' OBVIOUS
<1>a. /\ TypeOK /\ CheckpointShape
      /\ Step \in Nat \ {0} /\ chunk \in Nat \ {0} /\ offset \in Nat /\ mark \in Nat
  <2>1. TypeOK /\ CheckpointShape BY DEF EngineInv
  <2> QED BY <2>1, Constants DEF TypeOK
<1>b. chunk' \in Nat \ {0}
  <2>1. TypeOK' BY DEF EngineInv
  <2> QED BY <2>1, Constants DEF TypeOK
<1>1. CASE Start
  <2>1. /\ EnterPass(ResumeAt.pass, ResumeAt.offset) /\ ResumeAt' = ResumeAt /\ Reach' = Reach
    BY <1>1 DEF Start, ProcessStarts, ResumeAt, Reach
  <2>2. ResumeAt.offset \in Nat /\ Reach \in Int BY <1>a, CheckpointFacts, Constants
  <2>3. \/ pc' = "write" /\ offset' = ResumeAt.offset /\ mark' = ResumeAt.offset
        \/ pc' = "verify" /\ ~(Reach <= Last)
    BY <2>1 DEF EnterPass, Reach
  <2> QED BY <2>1, <2>2, <2>3, <1>b, Constants DEF ReworkInv, Verifying
<1>2. CASE StartUnread
  <2>1. EnterPass(0, 0) /\ Stale' BY <1>2 DEF StartUnread, Stale
  <2>2. pc' = "write" /\ offset' = 0 /\ mark' = 0 BY <2>1, Constants DEF EnterPass
  <2>3. offset' - mark' < Step /\ offset' - mark' < Step + chunk'
    <3>1. offset' - mark' = 0 BY <2>2
    <3>2. 0 < Step /\ 0 < Step + chunk' BY <1>a, <1>b, SumPositive
    <3> QED BY <3>1, <3>2
  <2> QED BY <2>1, <2>2, <2>3 DEF ReworkInv, Verifying
<1>3. CASE WriteChunk
  <2> DEFINE end == ChunkEnd(Size)
  <2>1. offset < Size
    BY <1>3 DEF WriteChunk, EngineInv, OverwriteProgress, Overwriting
  <2>2. end \in Nat /\ end <= offset + chunk
    BY <2>1, <1>a, ChunkEndBounds, Constants
  <2>3. /\ UNCHANGED <<chunk, mark>> /\ offset' = end /\ offset - mark < Step
        /\ pc' \in {"write", "sync"} /\ (pc' = "write" => ~(end - mark >= Step))
        /\ Stale' = Stale /\ ResumeAt' = ResumeAt /\ (~Stale => mark = ResumeAt.offset)
    BY <1>3 DEF WriteChunk, durable, ReworkInv, Stale, ResumeAt
  <2> HIDE DEF end
  <2> QED BY <2>2, <2>3, <1>a DEF ReworkInv, Verifying
<1>4. CASE SyncChunk
  <2>1. /\ UNCHANGED <<chunk, mark, offset>> /\ pc' = "save" /\ pc = "sync"
        /\ Stale' = Stale /\ ResumeAt' = ResumeAt
    BY <1>4 DEF SyncChunk, local, durable, Stale, ResumeAt
  <2> QED BY <2>1, <1>a DEF ReworkInv, Verifying
<1>5. CASE SaveCheckpoint
  <2>1. /\ mark' = offset /\ offset' = offset /\ chunk' = chunk
        /\ cp' = [pass |-> pass, offset |-> offset] /\ pass \in 0..N
        /\ pc' = (IF offset < Size THEN "write" ELSE "endpass")
    BY <1>5, <1>a DEF SaveCheckpoint, TypeOK
  <2>2. cp' # NoCheckpoint /\ cp'.offset = offset BY <2>1, Constants DEF NoCheckpoint
  <2>3. offset < Size => ~(offset >= Size) BY <1>a, Constants
  <2>4. pc' = "write" => ResumeAt'.offset = offset BY <2>1, <2>2, <2>3 DEF ResumeAt
  <2> QED BY <2>1, <2>4, <1>a DEF ReworkInv, Verifying
<1>6. CASE EndPass
  <2>1. /\ EnterPass(pass + 1, 0) /\ cp = [pass |-> pass, offset |-> Size] /\ pass \in 0..N
        /\ Reach' = Reach /\ ResumeAt' = ResumeAt
    BY <1>6, <1>a DEF EndPass, durable, TypeOK, EngineInv, OverwriteProgress, Overwriting,
       Reach, ResumeAt
  <2>2. Reach = pass + 1 /\ ResumeAt.offset = 0
    BY <2>1, <1>a, CheckpointFacts, Constants
  <2>3. \/ pc' = "write" /\ mark' = 0 /\ offset' = 0
        \/ pc' = "verify" /\ ~(pass + 1 <= Last)
    BY <2>1 DEF EnterPass
  <2> QED BY <2>1, <2>2, <2>3, <1>a, <1>b, Constants DEF ReworkInv, Verifying
<1>7. CASE VerifyChunk
  <2>1. /\ pc = "verify" /\ pc' \in {"verify", "report"} /\ Reach' = Reach /\ Stale' = Stale
    BY <1>7 DEF VerifyChunk, durable, Reach, ResumeAt, Stale
  <2> QED BY <2>1 DEF ReworkInv, Verifying
<1>8. CASE ReportVerify
  <2>1. /\ pc' \in {"verify", "checked"} /\ cp' = [pass |-> Last, offset |-> offset]
    BY <1>8 DEF ReportVerify
  <2>2. cp'.pass = Last /\ cp' # NoCheckpoint BY <2>1, Constants DEF NoCheckpoint
  <2>3. Reach' \in {Last, Last + 1} BY <2>1, <2>2 DEF Reach, ResumeAt
  <2> QED BY <2>1, <2>3, Constants DEF ReworkInv, Verifying
<1>9. CASE UNCHANGED vars \/ Finished
  <2>1. /\ UNCHANGED <<pc, chunk, mark, offset>>
        /\ Reach' = Reach /\ ResumeAt' = ResumeAt /\ Stale' = Stale
    BY <1>9 DEF Finished, vars, local, durable, Reach, ResumeAt, Stale
  <2> QED BY <2>1 DEF ReworkInv, Verifying
<1>10. CASE Conclude \/ Interrupt \/ PowerLoss \/ Fault \/ FaultUnrecorded
  <2>1. pc' \in {"down", "end"}
    BY <1>10 DEF Conclude, Interrupt, PowerLoss, Fault, FaultUnrecorded, Forget
  <2> QED BY <2>1 DEF ReworkInv, Verifying
<1> QED BY <1>1, <1>2, <1>3, <1>4, <1>5, <1>6, <1>7, <1>8, <1>9, <1>10 DEF Next, Work

(* For every chunk size and interval: while the disk is overwritten, a     *)
(* loss costs less than one checkpoint interval and one chunk of the pass  *)
(* at hand, and nothing of a pass that is recorded.  A loss during         *)
(* verification costs the whole verification and at most the final pass.   *)
THEOREM ReworkAlwaysBounded == Spec => []BoundedRework
<1>1. Init => ReworkInv BY Constants DEF Init, ReworkInv, Verifying
<1>2. EngineInv /\ ReworkInv => BoundedRework
  <2> SUFFICES ASSUME EngineInv, ReworkInv, ~Stale PROVE BoundedRework BY DEF BoundedRework
  <2>1. pc \in {"write", "sync", "save"} =>
            ResumeAt.pass = pass /\ offset - ResumeAt.offset < Step + chunk
    BY DEF EngineInv, OverwriteProgress, Overwriting, Reach, ReworkInv
  <2>2. ASSUME pc = "endpass" PROVE ResumeAt = [pass |-> pass + 1, offset |-> 0]
    <3>1. cp = [pass |-> pass, offset |-> Size] BY <2>2 DEF EngineInv, OverwriteProgress, Overwriting
    <3>2. cp # NoCheckpoint BY <3>1, Constants DEF NoCheckpoint
    <3> QED BY <3>1, <3>2, Constants DEF ResumeAt
  <2>3. pc \in {"verify", "report", "checked"} => ResumeAt.pass >= Last
    BY DEF ReworkInv, Verifying, Reach
  <2> QED BY <2>1, <2>2, <2>3 DEF BoundedRework
<1> QED BY <1>1, <1>2, ReworkStep, EngineInvariant, PTL DEF Spec
-----------------------------------------------------------------------------
(* A fixed final pattern is recognised wherever a run was cut.             *)

LEMMA ReadsLast ==
    ASSUME EngineInv, pc = "verify", trail # "broken", NEW c \in Live
    PROVE  cache[c].pass = Last
<1>1. TypeOK /\ Verifying /\ ~Stale
  BY DEF EngineInv, Verifying, TrailPlace, Stale
<1>2. cache[c].pass >= Last BY <1>1 DEF EngineInv, VerifyProgress, AtLeast
<1>3. cache[c].pass \in -1..Last BY <1>1, CellFacts
<1> QED BY <1>2, <1>3, Constants

LEMMA CleanStep == EngineInv /\ CleanInv /\ [Next]_vars => CleanInv'
<1> SUFFICES ASSUME EngineInv, CleanInv, [Next]_vars, dead' = {}, trail' # "broken",
                    Passes[N] # "random"
             PROVE  clean'
  BY DEF CleanInv
<1>1. dead = {} /\ trail # "broken" BY TrailStep
<1>2. clean BY <1>1 DEF CleanInv
<1>3. CASE VerifyChunk
  <2> DEFINE end == ChunkEnd(Ranges[range].end)
  <2>1. /\ TypeOK /\ offset < Ranges[range].end /\ range \in 1..Len(Ranges)
        /\ Ranges[range].end \in 0..Size /\ offset \in 0..Size
    BY <1>3, RangeBounds DEF VerifyChunk, EngineInv, TypeOK, VerifyProgress, Verifying
  <2>2. end \in 0..Size BY <2>1, ChunkEndBounds, Constants
  <2> HIDE DEF end
  <2>3. ASSUME NEW c \in offset..(end - 1)
        PROVE  Bytes(cache[c], c) = Expected(offset, c)
    <3>1. c \in Cells /\ c \in Live
      BY <2>1, <2>2, <1>1, Constants DEF Cells, Live
    <3>2. cache[c].pass = Last BY <3>1, <1>1, <1>3, ReadsLast DEF VerifyChunk
    <3>3. cache[c] # Residue /\ cache[c].pass + 1 = N
      BY <3>2, Constants DEF Residue
    <3> QED BY <3>3 DEF Bytes, Expected, K!StreamAt
  <2>4. clean' = (clean /\ \A c \in offset..(end - 1) :
                              Bytes(cache[c], c) = Expected(offset, c))
    BY <1>3 DEF VerifyChunk, end
  <2> QED BY <2>3, <2>4, <1>2
<1> QED
  BY <1>2, <1>3 DEF Next, Work, Start, StartUnread, ProcessStarts, WriteChunk, SyncChunk,
     SaveCheckpoint, EndPass, ReportVerify, Conclude, Interrupt, PowerLoss, Fault,
     FaultUnrecorded, Forget, Finished, vars, local

(* Verification never fails a disk that took every write, for a standard   *)
(* that ends with a fixed pattern, whatever the chunk size of each run,    *)
(* unless a run over an unread row was cut before its first save.          *)
THEOREM NeverFalseAlarm == ASSUME Passes[N] # "random" PROVE Spec => []NoFalseAlarm
<1>1. Init => CleanInv BY DEF Init, CleanInv
<1>2. CleanInv => NoFalseAlarm BY DEF CleanInv, NoFalseAlarm
<1> QED BY <1>1, <1>2, CleanStep, EngineInvariant, PTL DEF Spec
-----------------------------------------------------------------------------
(* A random final pass is recognised when every run cuts the disk into the *)
(* same chunks.                                                            *)

LEMMA Division ==
    ASSUME NEW a \in Nat, NEW b \in Nat \ {0}
    PROVE  a \div b \in Nat /\ a = b * (a \div b) + (a % b)
OBVIOUS

LEMMA MultipleRemainder ==
    ASSUME NEW b \in Nat \ {0}, NEW q \in Nat
    PROVE  (b * q) % b = 0
OBVIOUS

LEMMA MultiplesApart ==
    ASSUME NEW b \in Nat \ {0}, NEW x \in Nat, NEW y \in Nat, b * x < b * y
    PROVE  b * x + b <= b * y
<1>1. x < y OBVIOUS
<1>2. b * y = b * (x + 1) + b * (y - (x + 1)) /\ y - (x + 1) \in Nat BY <1>1
<1>3. b * (y - (x + 1)) \in Nat BY <1>2
<1>4. b * (x + 1) = b * x + b OBVIOUS
<1> QED BY <1>2, <1>3, <1>4

(* The places where a chunk begins are a whole chunk apart.                *)
LEMMA GridFacts ==
    ASSUME OneChunkSize
    PROVE  /\ SoleChunk \in Nat \ {0} /\ 0 \in Grid
           /\ \A s \in Grid : s \in 0..Size
           /\ \A s \in Grid : s + SoleChunk <= Size => s + SoleChunk \in Grid
           /\ \A s, t \in Grid : s < t => s + SoleChunk <= t
<1> DEFINE n == SoleChunk
<1>1. n \in Nat \ {0} BY Constants DEF OneChunkSize
<1> HIDE DEF n
<1>2. \A s \in Grid : s \in 0..Size /\ s \in Nat /\ s % n = 0 BY Constants DEF Grid, n
<1>3. \A s \in Grid : s \div n \in Nat /\ s = n * (s \div n)
  <2> TAKE s \in Grid
  <2>1. s \div n \in Nat /\ s = n * (s \div n) + (s % n) BY <1>1, <1>2, Division
  <2> QED BY <1>1, <1>2, <2>1
<1>4. 0 \in Grid BY <1>1, Constants DEF Grid, n
<1>5. ASSUME NEW s \in Grid, s + n <= Size PROVE s + n \in Grid
  <2>1. s \div n + 1 \in Nat /\ s + n = n * (s \div n + 1) BY <1>1, <1>3
  <2>2. (n * (s \div n + 1)) % n = 0 BY <1>1, <2>1, MultipleRemainder
  <2>3. s + n \in 0..Size BY <1>1, <1>2, <1>5, Constants
  <2> QED BY <2>1, <2>2, <2>3 DEF Grid, n
<1>6. ASSUME NEW s \in Grid, NEW t \in Grid, s < t PROVE s + n <= t
  <2> DEFINE x == s \div n
             y == t \div n
  <2>1. x \in Nat /\ y \in Nat /\ s = n * x /\ t = n * y BY <1>3
  <2> HIDE DEF x, y
  <2> QED BY <1>1, <1>6, <2>1, MultiplesApart
<1> QED BY <1>1, <1>2, <1>4, <1>5, <1>6 DEF n

(* A cell belongs to one chunk.                                            *)
LEMMA OneChunkOfCell ==
    ASSUME OneChunkSize, NEW s \in Grid, NEW t \in Grid,
           NEW c \in s..(s + SoleChunk - 1), c \in t..(t + SoleChunk - 1)
    PROVE  s = t
<1> DEFINE n == SoleChunk
<1>1. n \in Nat \ {0} /\ s \in Nat /\ t \in Nat BY GridFacts, Constants
<1>2. s < t => s + n <= t BY GridFacts
<1>3. t < s => t + n <= s BY GridFacts
<1>4. c \in s..(s + n - 1) /\ c \in t..(t + n - 1) OBVIOUS
<1> HIDE DEF n
<1> QED BY <1>1, <1>2, <1>3, <1>4

(* The chunk that begins on the grid ends on it, or at the end of the disk. *)
LEMMA ChunkOnGrid ==
    ASSUME OneChunkSize, TypeOK, offset \in Grid \cup {Size}, offset < Size
    PROVE  /\ offset \in Grid /\ chunk = SoleChunk
           /\ ChunkEnd(Size) \in Grid \cup {Size}
           /\ \A c \in offset..(ChunkEnd(Size) - 1) : c \in offset..(offset + SoleChunk - 1)
<1>1. chunk = SoleChunk /\ chunk \in Nat \ {0} BY Constants DEF TypeOK, OneChunkSize
<1>2. offset \in Grid /\ offset \in 0..Size BY Constants DEF TypeOK
<1>3. offset + SoleChunk <= Size => offset + SoleChunk \in Grid BY <1>2, GridFacts
<1>4. ChunkEnd(Size) = (IF offset + chunk < Size THEN offset + chunk ELSE Size)
  BY DEF ChunkEnd, S!Least
<1>5. ChunkEnd(Size) \in Grid \cup {Size} BY <1>1, <1>2, <1>3, <1>4, Constants
<1>6. ChunkEnd(Size) <= offset + SoleChunk /\ ChunkEnd(Size) \in Nat
  BY <1>1, <1>2, <1>4, Constants
<1> QED BY <1>1, <1>2, <1>5, <1>6, Constants

LEMMA InitAligned == Init => AlignedInv
<1> SUFFICES ASSUME Init, OneChunkSize PROVE AlignedInv BY DEF AlignedInv
<1>1. 0 \in Grid BY GridFacts
<1> QED BY <1>1 DEF Init, AlignedInv, OfItsChunk, NoCheckpoint

(* What a step that writes nothing and moves the loop to a chunk's start   *)
(* keeps.                                                                  *)
LEMMA AlignedKept ==
    ASSUME AlignedInv, OneChunkSize,
           \A c \in Cells : cache'[c] \in {cache[c], platter[c]}
                            /\ platter'[c] \in {cache[c], platter[c]},
           offset' \in Grid \cup {Size}, cp'.offset \in Grid \cup {Size},
           dead' = dead, trail = "broken" => trail' = "broken", clean' = clean \/ clean' = TRUE
    PROVE  AlignedInv'
<1>1. \A c \in Cells : OfItsChunk(cache[c], c) /\ OfItsChunk(platter[c], c) BY DEF AlignedInv
<1>2. \A c \in Cells : OfItsChunk(cache'[c], c) /\ OfItsChunk(platter'[c], c) BY <1>1
<1>3. dead' = {} /\ trail' # "broken" => clean' BY DEF AlignedInv
<1> QED BY <1>2, <1>3 DEF AlignedInv, OfItsChunk

LEMMA AlignedStep == EngineInv /\ AlignedInv /\ [Next]_vars => AlignedInv'
<1> SUFFICES ASSUME EngineInv, AlignedInv, [Next]_vars, OneChunkSize PROVE AlignedInv'
  BY DEF AlignedInv, OneChunkSize
<1>a. /\ TypeOK /\ offset \in Grid \cup {Size} /\ cp.offset \in Grid \cup {Size}
      /\ \A c \in Cells : OfItsChunk(cache[c], c) /\ OfItsChunk(platter[c], c)
      /\ dead = {} /\ trail # "broken" => clean
  BY DEF EngineInv, AlignedInv
<1>b. 0 \in Grid BY GridFacts
<1>c. Len(Ranges) = 1 /\ Ranges[1].start = 0 /\ Ranges[1].end = Size
  BY DEF OneChunkSize, Ranges, S!Span
<1>d. \A c \in Cells : c \in 0..(Size - 1) BY DEF Cells
<1>e. trail = "broken" => trail' = "broken" BY TrailStep
<1>1. CASE Start \/ StartUnread
  <2>1. cache' = cache /\ platter' = platter /\ dead' = dead /\ cp' = cp /\ clean' = TRUE
    BY <1>1 DEF Start, StartUnread, ProcessStarts, device
  <2>2. offset' \in Grid \cup {Size}
    <3>1. ResumeAt.offset \in {0, cp.offset} BY DEF ResumeAt
    <3>2. offset' \in {ResumeAt.offset, 0, Ranges[1].start}
      BY <1>1 DEF Start, StartUnread, EnterPass
    <3> QED BY <3>1, <3>2, <1>a, <1>b, <1>c
  <2> QED BY <2>1, <2>2, <1>a, <1>e, AlignedKept
<1>2. CASE WriteChunk
  <2> DEFINE end == ChunkEnd(Size)
  <2>1. offset < Size BY <1>2 DEF WriteChunk, EngineInv, OverwriteProgress, Overwriting
  <2>2. /\ offset \in Grid /\ end \in Grid \cup {Size}
        /\ \A c \in offset..(end - 1) : c \in offset..(offset + SoleChunk - 1)
    BY <2>1, <1>a, ChunkOnGrid
  <2>3. /\ cache' = [c \in Cells |-> IF c \in offset..(end - 1) /\ c \notin dead
                                     THEN Stamp(pass, offset) ELSE cache[c]]
        /\ offset' = end /\ cp' = cp /\ platter' = platter /\ dead' = dead /\ clean' = clean
        /\ trail' = trail
    BY <1>2 DEF WriteChunk, durable
  <2> HIDE DEF end
  <2>4. ASSUME NEW c \in Cells PROVE OfItsChunk(cache'[c], c)
    <3>1. CASE c \in offset..(end - 1) /\ c \notin dead
      <4>1. cache'[c].start = offset BY <3>1, <2>3 DEF Stamp
      <4> QED BY <4>1, <3>1, <2>2 DEF OfItsChunk
    <3>2. CASE ~(c \in offset..(end - 1) /\ c \notin dead)
      <4>1. cache'[c] = cache[c] BY <3>2, <2>3
      <4> QED BY <4>1, <1>a
    <3> QED BY <3>1, <3>2
  <2> QED BY <2>2, <2>3, <2>4, <1>a DEF AlignedInv, OfItsChunk
<1>3. CASE SyncChunk
  BY <1>3, <1>a, <1>e, AlignedKept DEF SyncChunk, local, durable
<1>4. CASE SaveCheckpoint
  BY <1>4, <1>a, <1>e, AlignedKept DEF SaveCheckpoint, device
<1>5. CASE EndPass
  <2>1. /\ cache' = cache /\ platter' = cache /\ dead' = dead /\ cp' = cp /\ clean' = clean
        /\ offset' = 0
    BY <1>5, <1>c DEF EndPass, EnterPass, durable
  <2> QED BY <2>1, <1>a, <1>b, <1>e, AlignedKept
<1>6. CASE VerifyChunk
  <2> DEFINE end == ChunkEnd(Size)
  <2>1. /\ range = 1 /\ offset < Size
    BY <1>6, <1>a, <1>c DEF VerifyChunk, EngineInv, TypeOK, VerifyProgress, Verifying
  <2>2. /\ offset \in Grid /\ end \in Grid \cup {Size}
        /\ \A c \in offset..(end - 1) : c \in offset..(offset + SoleChunk - 1)
    BY <2>1, <1>a, ChunkOnGrid
  <2>3. /\ offset' = end /\ cp' = cp /\ cache' = cache /\ platter' = platter /\ dead' = dead
        /\ clean' = (clean /\ \A c \in offset..(end - 1) :
                                 Bytes(cache[c], c) = Expected(offset, c))
    BY <1>6, <2>1, <1>c DEF VerifyChunk, durable, device
  <2>e. end \in 0..Size /\ offset \in 0..Size
    BY <1>a, <2>1, ChunkEndBounds, Constants DEF TypeOK
  <2> HIDE DEF end
  <2>4. ASSUME dead = {}, trail # "broken", NEW c \in offset..(end - 1)
        PROVE  Bytes(cache[c], c) = Expected(offset, c)
    <3>1. c \in Cells /\ c \in Live BY <2>4, <2>e, Constants DEF Cells, Live
    <3>2. cache[c].pass = Last BY <3>1, <2>4, <1>6, ReadsLast DEF VerifyChunk
    <3>3. cache[c] # Residue /\ cache[c].pass + 1 = N BY <3>2, Constants DEF Residue
    <3>4. cache[c].start \in Grid /\ c \in cache[c].start..(cache[c].start + SoleChunk - 1)
      BY <3>1, <3>3, <1>a DEF OfItsChunk
    <3>5. c \in offset..(offset + SoleChunk - 1) BY <2>2
    <3>6. cache[c].start = offset BY <3>4, <3>5, <2>2, OneChunkOfCell
    <3> QED BY <3>2, <3>3, <3>6 DEF Bytes, Expected
  <2>5. dead' = {} /\ trail' # "broken" => clean' BY <2>3, <2>4, <1>a, <1>e
  <2> QED BY <2>2, <2>3, <2>5, <1>a DEF AlignedInv, OfItsChunk
<1>7. CASE ReportVerify
  <2>1. offset' = offset
    BY <1>7, <1>a, <1>c, Constants DEF ReportVerify, TypeOK
  <2>2. cp'.offset = offset /\ cache' = cache /\ platter' = platter /\ dead' = dead /\ clean' = clean
    BY <1>7 DEF ReportVerify, device
  <2> QED BY <2>1, <2>2, <1>a, <1>e, AlignedKept
<1>8. CASE Conclude
  <2>1. cp'.offset \in {Size, cp.offset} BY <1>8 DEF Conclude
  <2>2. offset' = offset /\ cache' = cache /\ platter' = platter /\ dead' = dead /\ clean' = clean
    BY <1>8 DEF Conclude, device, local
  <2> QED BY <2>1, <2>2, <1>a, <1>e, AlignedKept
<1>9. CASE Interrupt \/ FaultUnrecorded
  <2>1. /\ offset' = 0 /\ clean' = TRUE /\ cp' = cp
        /\ cache' = cache /\ platter' = platter /\ dead' = dead
    BY <1>9 DEF Interrupt, FaultUnrecorded, Forget, durable, device
  <2> QED BY <2>1, <1>a, <1>b, <1>e, AlignedKept
<1>10. CASE PowerLoss
  <2>1. /\ offset' = 0 /\ clean' = TRUE /\ cp' = cp /\ dead' = dead
        /\ \A c \in Cells : cache'[c] \in {cache[c], platter[c]}
        /\ platter' = cache'
    BY <1>10 DEF PowerLoss, Forget, durable
  <2> QED BY <2>1, <1>a, <1>b, <1>e, AlignedKept
<1>11. CASE Fault \/ Finished \/ UNCHANGED vars
  <2>1. /\ offset' = offset /\ clean' = clean /\ cp' = cp
        /\ cache' = cache /\ platter' = platter /\ dead' = dead
    BY <1>11 DEF Fault, Finished, vars, local, durable, device
  <2> QED BY <2>1, <1>a, <1>e, AlignedKept
<1> QED BY <1>1, <1>2, <1>3, <1>4, <1>5, <1>6, <1>7, <1>8, <1>9, <1>10, <1>11 DEF Next, Work

(* Verification never fails a disk that took every write, whatever its     *)
(* last pattern, when the whole disk is verified and every run of the job  *)
(* has the same chunk size, over any number of restarts and power losses,  *)
(* unless a run over an unread row was cut before its first save.          *)
THEOREM SteadyChunksNeverFalseAlarm == ASSUME OneChunkSize PROVE Spec => []NoFalseAlarm
<1>1. AlignedInv => NoFalseAlarm BY DEF AlignedInv, NoFalseAlarm
<1> QED BY <1>1, InitAligned, AlignedStep, EngineInvariant, PTL DEF Spec
-----------------------------------------------------------------------------
(* A pass once recorded stays behind the checkpoint, the final one apart.  *)

LEMMA RecordedStep ==
    ASSUME NEW k \in 0..(Last - 1), EngineInv, Recorded(k), [Next]_vars
    PROVE  Recorded(k)'
<1>a. k \in Nat /\ k < Last BY Constants
<1>b. trail # "kept" => trail' # "kept" BY TrailStep
<1> SUFFICES ASSUME trail = "kept", cp.pass > k \/ (cp.pass = k /\ cp.offset = Size)
             PROVE  Recorded(k)'
  BY <1>b DEF Recorded
<1>1. CASE SaveCheckpoint
  <2>1. pass = Reach /\ cp'.pass = pass
    BY <1>1 DEF SaveCheckpoint, EngineInv, OverwriteProgress, Overwriting, Stale
  <2>2. Reach > k
    <3>1. TypeOK /\ CheckpointShape BY DEF EngineInv
    <3> QED BY <3>1, <1>a, CheckpointFacts, Constants
  <2> QED BY <2>1, <2>2 DEF Recorded
<1>2. CASE ReportVerify \/ Conclude
  <2>1. cp'.pass = Last \/ cp' = cp BY <1>2 DEF ReportVerify, Conclude
  <2> QED BY <2>1, <1>a DEF Recorded
<1>3. CASE ~SaveCheckpoint /\ ~ReportVerify /\ ~Conclude
  <2>1. cp' = cp
    BY <1>3 DEF Next, Work, Start, StartUnread, ProcessStarts, WriteChunk, SyncChunk, EndPass,
       VerifyChunk, Interrupt, PowerLoss, Fault, FaultUnrecorded, Finished, vars, durable
  <2> QED BY <2>1 DEF Recorded
<1> QED BY <1>1, <1>2, <1>3

(* Whatever is lost, a pass other than the final one is never written      *)
(* again once the checkpoint has it at the end of the disk, as long as     *)
(* every run has read the row.                                             *)
THEOREM EarlierPassesStayWritten == Spec => EarlierPassesNotRewritten
<1> SUFFICES ASSUME NEW k \in 0..(Last - 1) PROVE Spec => NotRewrittenOnceRecorded(k)
  BY DEF EarlierPassesNotRewritten
<1>1. EngineInv /\ Recorded(k) /\ [Next]_vars => Recorded(k)' BY RecordedStep
<1>2. (cp = [pass |-> k, offset |-> Size]) => Recorded(k) BY DEF Recorded
<1>3. EngineInv /\ Recorded(k) => (pc = "write" /\ pass = k => trail # "kept")
  <2> SUFFICES ASSUME EngineInv, Recorded(k), pc = "write", trail = "kept" PROVE pass # k
    OBVIOUS
  <2>1. pass = Reach BY DEF EngineInv, OverwriteProgress, Overwriting, Stale
  <2>2. TypeOK /\ CheckpointShape BY DEF EngineInv
  <2> QED BY <2>1, <2>2, CheckpointFacts, Constants DEF Recorded
<1> QED BY <1>1, <1>2, <1>3, EngineInvariant, PTL DEF Spec, NotRewrittenOnceRecorded

-----------------------------------------------------------------------------
(* Termination.                                                            *)

LEMMA Product ==
    ASSUME NEW a \in Nat, NEW x \in Nat
    PROVE  x * a \in Nat /\ (x + 1) * a = x * a + a
OBVIOUS

LEMMA Shift ==
    ASSUME NEW x \in Int, NEW y \in Int, NEW z \in Int, x < y
    PROVE  z + x < z + y /\ 2 * x + 1 < 2 * y + 2
OBVIOUS

(* What is left of a run, at each place of the program.                    *)
LEMMA LeftAt ==
    /\ pc = "end" => LeftOfRun = 0
    /\ pc = "checked" => LeftOfRun = 1
    /\ pc = "verify" => LeftOfRun = 2 * ToVerify + 1
    /\ pc = "report" => LeftOfRun = 2 * ToVerify + 2
    /\ pc = "endpass" => LeftOfRun = VerifySteps + 4 * ToWrite
    /\ pc = "write" => LeftOfRun = VerifySteps + 4 * ToWrite + 1
    /\ pc = "save" => LeftOfRun = VerifySteps + 4 * ToWrite + 2
    /\ pc = "sync" => LeftOfRun = VerifySteps + 4 * ToWrite + 3
    /\ pc = "down" => LeftOfRun = RunSteps
BY DEF LeftOfRun

LEMMA LeftAtNext ==
    /\ pc' = "end" => LeftOfRun' = 0
    /\ pc' = "checked" => LeftOfRun' = 1
    /\ pc' = "verify" => LeftOfRun' = 2 * ToVerify' + 1
    /\ pc' = "report" => LeftOfRun' = 2 * ToVerify' + 2
    /\ pc' = "endpass" => LeftOfRun' = VerifySteps + 4 * ToWrite'
    /\ pc' = "write" => LeftOfRun' = VerifySteps + 4 * ToWrite' + 1
    /\ pc' = "save" => LeftOfRun' = VerifySteps + 4 * ToWrite' + 2
    /\ pc' = "sync" => LeftOfRun' = VerifySteps + 4 * ToWrite' + 3
    /\ pc' = "down" => LeftOfRun' = RunSteps
<1>1. (/\ pc = "end" => LeftOfRun = 0
       /\ pc = "checked" => LeftOfRun = 1
       /\ pc = "verify" => LeftOfRun = 2 * ToVerify + 1
       /\ pc = "report" => LeftOfRun = 2 * ToVerify + 2
       /\ pc = "endpass" => LeftOfRun = VerifySteps + 4 * ToWrite
       /\ pc = "write" => LeftOfRun = VerifySteps + 4 * ToWrite + 1
       /\ pc = "save" => LeftOfRun = VerifySteps + 4 * ToWrite + 2
       /\ pc = "sync" => LeftOfRun = VerifySteps + 4 * ToWrite + 3
       /\ pc = "down" => LeftOfRun = RunSteps)'
  BY LeftAt, PTL
<1>2. VerifySteps' = VerifySteps /\ RunSteps' = RunSteps BY DEF VerifySteps, RunSteps
<1> QED BY <1>1, <1>2

LEMMA CountsAreNat ==
    ASSUME EngineInv
    PROVE  /\ VerifySteps \in Nat /\ VerifySteps >= 2 /\ RunSteps \in Nat
           /\ RunSteps = VerifySteps + 4 * (N * (Size + 1)) + 2
           /\ ToVerify \in Nat /\ N * (Size + 1) \in Nat
           /\ Overwriting => ToWrite \in Nat /\ ToWrite >= 1
<1>a. TypeOK BY DEF EngineInv
<1>1. Len(Ranges) \in Nat /\ Len(Ranges) > 0 /\ range \in 1..Len(Ranges)
  BY <1>a, RangeBounds DEF TypeOK
<1>2. Len(Ranges) * (Size + 1) \in Nat /\ Len(Ranges) * (Size + 1) >= 1
  <2>1. (Len(Ranges) - 1) \in Nat BY <1>1
  <2>2. /\ (Len(Ranges) - 1) * (Size + 1) \in Nat
        /\ ((Len(Ranges) - 1) + 1) * (Size + 1) = (Len(Ranges) - 1) * (Size + 1) + (Size + 1)
    BY <2>1, Constants, Product
  <2>3. (Len(Ranges) - 1) + 1 = Len(Ranges) BY <1>1
  <2> QED BY <2>2, <2>3, Constants
<1>3. VerifySteps \in Nat /\ VerifySteps >= 2 BY <1>2 DEF VerifySteps
<1>4. N * (Size + 1) \in Nat BY Constants, Product
<1>5. RunSteps \in Nat BY <1>3, <1>4 DEF RunSteps
<1>6. ToVerify \in Nat
  <2>1. Len(Ranges) - range \in Nat BY <1>1
  <2>2. (Len(Ranges) - range) * (Size + 1) \in Nat BY <2>1, Constants, Product
  <2>3. Ranges[range].end - offset \in Int
    BY <1>a, <1>1, RangeBounds, Constants DEF TypeOK
  <2>4. S!Most(0, Ranges[range].end - offset) \in Nat BY <2>3 DEF S!Most
  <2> QED BY <2>2, <2>4 DEF ToVerify
<1>7. ASSUME Overwriting PROVE ToWrite \in Nat /\ ToWrite >= 1
  <2>1. pass \in 0..Last /\ offset \in 0..Size
    BY <1>7, <1>a, Constants DEF EngineInv, OverwriteProgress, TypeOK
  <2>2. Last - pass \in Nat /\ N - pass = (Last - pass) + 1 BY <2>1, Constants
  <2>3. /\ (Last - pass) * (Size + 1) \in Nat
        /\ ((Last - pass) + 1) * (Size + 1) = (Last - pass) * (Size + 1) + (Size + 1)
    BY <2>2, Constants, Product
  <2> DEFINE y == (Last - pass) * (Size + 1)
  <2>4. (N - pass) * (Size + 1) = y + (Size + 1) BY <2>2, <2>3
  <2>5. ToWrite = (y + (Size + 1)) - offset BY <2>4 DEF ToWrite
  <2>6. y \in Nat BY <2>3
  <2> HIDE DEF y
  <2> QED BY <2>1, <2>5, <2>6, Constants
<1> QED BY <1>3, <1>4, <1>5, <1>6, <1>7 DEF RunSteps

LEMMA LeftIsNat == EngineInv => LeftOfRun \in Nat /\ (pc # "end" => LeftOfRun > 0)
<1> SUFFICES ASSUME EngineInv
             PROVE  LeftOfRun \in Nat /\ (pc # "end" => LeftOfRun > 0)
  OBVIOUS
<1>1. pc \in PcValues BY DEF EngineInv, TypeOK
<1>2. CASE pc \in {"write", "sync", "save", "endpass"}
  <2>1. Overwriting BY <1>2 DEF Overwriting
  <2> QED BY <1>2, <2>1, LeftAt, CountsAreNat
<1>3. CASE pc \notin {"write", "sync", "save", "endpass"}
  BY <1>1, <1>3, LeftAt, CountsAreNat DEF PcValues
<1> QED BY <1>2, <1>3

(* Entering a pass, or verification, from a state with more left.          *)
LEMMA EnterPassLeft ==
    ASSUME EngineInv, EngineInv', NEW k \in 0..N, NEW o \in 0..Size, EnterPass(k, o),
           range' = 1, NEW bound \in Nat,
           bound > VerifySteps + 4 * ((N - k) * (Size + 1)) + 1
    PROVE  LeftOfRun' < bound
<1> DEFINE w == (N - k) * (Size + 1)
<1>0. N - k \in Nat BY Constants
<1>1. w \in Nat BY <1>0, Constants, Product
<1>2. CASE k <= Last
  <2>1. pc' = "write" /\ pass' = k /\ offset' = o BY <1>2 DEF EnterPass
  <2>2. LeftOfRun' = VerifySteps + 4 * (w - o) + 1
    <3>1. LeftOfRun' = VerifySteps + 4 * ToWrite' + 1 BY <2>1, LeftAtNext
    <3>2. ToWrite' = w - o BY <2>1 DEF ToWrite
    <3> QED BY <3>1, <3>2
  <2> HIDE DEF w
  <2> QED BY <2>2, <1>1, CountsAreNat DEF w
<1>3. CASE k > Last
  <2>1. pc' = "verify" /\ offset' = Ranges[1].start BY <1>3, Constants DEF EnterPass
  <2>2. LeftOfRun' = 2 * ToVerify' + 1 BY <2>1, LeftAtNext
  <2>3. 2 * ToVerify' + 1 < VerifySteps
    <3> DEFINE L == Len(Ranges)
    <3>1. L \in Nat /\ L > 0 /\ Ranges[1].end - Ranges[1].start \in 0..Size
      BY RangeBounds, Constants
    <3>2. ToVerify' = (L - 1) * (Size + 1) + S!Most(0, Ranges[1].end - Ranges[1].start)
      BY <2>1 DEF ToVerify
    <3>3. S!Most(0, Ranges[1].end - Ranges[1].start) \in 0..Size
      BY <3>1, Constants DEF S!Most
    <3>4. (L - 1) * (Size + 1) \in Nat /\ ((L - 1) + 1) * (Size + 1) = (L - 1) * (Size + 1) + (Size + 1)
      BY <3>1, Constants, Product
    <3>5. (L - 1) + 1 = L BY <3>1
    <3>6. VerifySteps = 2 * ((L - 1) * (Size + 1) + (Size + 1))
      BY <3>4, <3>5 DEF VerifySteps
    <3> HIDE DEF L
    <3> QED BY <3>2, <3>3, <3>4, <3>6, Constants
  <2> HIDE DEF w
  <2> QED BY <2>2, <2>3, <1>1, CountsAreNat DEF w
<1> QED BY <1>2, <1>3, Constants

(* A run that has just begun has less left than a run can have.            *)
LEMMA FreshRunLeft ==
    ASSUME EngineInv, EngineInv', NEW k \in 0..N, NEW o \in 0..Size, EnterPass(k, o), range' = 1
    PROVE  LeftOfRun' < RunSteps
<1>a. /\ VerifySteps \in Nat /\ RunSteps \in Nat
      /\ RunSteps = VerifySteps + 4 * (N * (Size + 1)) + 2 /\ N * (Size + 1) \in Nat
  BY CountsAreNat
<1>1. (N - k) * (Size + 1) <= N * (Size + 1)
  <2>1. N - k \in Nat /\ k \in Nat BY Constants
  <2>2. N * (Size + 1) = (N - k) * (Size + 1) + k * (Size + 1) BY Constants
  <2>3. k * (Size + 1) \in Nat /\ (N - k) * (Size + 1) \in Nat BY <2>1, Constants, Product
  <2> QED BY <2>2, <2>3
<1>2. RunSteps > VerifySteps + 4 * ((N - k) * (Size + 1)) + 1
  <2> DEFINE u == (N - k) * (Size + 1)
             v == N * (Size + 1)
  <2>1. u \in Int /\ u <= v BY <1>1, Constants
  <2>2. v \in Nat /\ RunSteps = VerifySteps + 4 * v + 2 BY <1>a
  <2> HIDE DEF u, v
  <2>3. RunSteps > VerifySteps + 4 * u + 1 BY <2>1, <2>2, <1>a
  <2> QED BY <2>3 DEF u
<1> QED BY <1>2, <1>a, EnterPassLeft

LEMMA WorkLeft ==
    ASSUME EngineInv, EngineInv', Work \/ Fault
    PROVE  LeftOfRun' < LeftOfRun /\ mishaps' = mishaps
<1>0. /\ TypeOK /\ TypeOK' /\ VerifySteps' = VerifySteps
  BY DEF EngineInv, VerifySteps
<1>a. /\ VerifySteps \in Nat /\ VerifySteps >= 2 /\ RunSteps \in Nat
      /\ RunSteps = VerifySteps + 4 * (N * (Size + 1)) + 2 /\ N * (Size + 1) \in Nat
      /\ ToVerify \in Nat /\ (Overwriting => ToWrite \in Nat /\ ToWrite >= 1)
  BY CountsAreNat
<1>1. CASE Start
  <2>1. /\ EnterPass(Reach, ResumeAt.offset) /\ range' = 1 /\ mishaps' = mishaps /\ pc = "down"
    BY <1>1 DEF Start, ProcessStarts, Reach
  <2>2. Reach \in 0..N /\ ResumeAt.offset \in 0..Size
    BY <1>0, CheckpointFacts, Constants DEF EngineInv
  <2>3. LeftOfRun = RunSteps BY <2>1, LeftAt
  <2> QED BY <2>1, <2>2, <2>3, FreshRunLeft
<1>2. CASE WriteChunk
  <2>1. offset < Size /\ Overwriting /\ offset \in 0..Size
    BY <1>2, <1>0 DEF WriteChunk, EngineInv, OverwriteProgress, Overwriting, TypeOK
  <2>2. offset < ChunkEnd(Size) /\ ChunkEnd(Size) \in 0..Size
    BY <2>1, <1>0, ChunkEndBounds, Constants
  <2>3. /\ pc = "write" /\ pc' \in {"sync", "write"} /\ pass' = pass
        /\ offset' = ChunkEnd(Size) /\ mishaps' = mishaps
    BY <1>2 DEF WriteChunk
  <2> DEFINE w == (N - pass) * (Size + 1)
  <2>4. ToWrite = w - offset /\ ToWrite' = w - ChunkEnd(Size) BY <2>3 DEF ToWrite
  <2>5. w \in Int BY <1>0, Constants DEF TypeOK
  <2> HIDE DEF w
  <2> QED BY <2>1, <2>2, <2>3, <2>4, <2>5, <1>a, LeftAtNext, LeftAt
<1>3. CASE SyncChunk
  <2>1. pc = "sync" /\ pc' = "save" /\ ToWrite' = ToWrite /\ mishaps' = mishaps /\ Overwriting
    BY <1>3 DEF SyncChunk, ToWrite, local, Overwriting
  <2> QED BY <2>1, <1>a, LeftAtNext, LeftAt
<1>4. CASE SaveCheckpoint
  <2>1. /\ pc = "save" /\ pc' \in {"write", "endpass"} /\ ToWrite' = ToWrite
        /\ mishaps' = mishaps /\ Overwriting
    BY <1>4 DEF SaveCheckpoint, ToWrite, Overwriting
  <2> QED BY <2>1, <1>a, LeftAtNext, LeftAt
<1>5. CASE EndPass
  <2>1. /\ pc = "endpass" /\ EnterPass(pass + 1, 0) /\ range' = range /\ mishaps' = mishaps
        /\ Overwriting
    BY <1>5 DEF EndPass, Overwriting
  <2>2. pass \in 0..Last /\ range = 1 /\ offset = Size
    BY <2>1, <1>0, Constants DEF EngineInv, OverwriteProgress, TypeOK
  <2>3. /\ (N - (pass + 1)) * (Size + 1) \in Nat
        /\ ((N - (pass + 1)) + 1) * (Size + 1) = (N - (pass + 1)) * (Size + 1) + (Size + 1)
    <3>1. N - (pass + 1) \in Nat BY <2>2, Constants
    <3> QED BY <3>1, Constants, Product
  <2>4. (N - (pass + 1)) + 1 = N - pass BY <2>2, Constants
  <2>5. ToWrite = (N - (pass + 1)) * (Size + 1) + 1
    BY <2>2, <2>3, <2>4, Constants DEF ToWrite
  <2>6. LeftOfRun = VerifySteps + 4 * ToWrite BY <2>1, LeftAt
  <2> DEFINE w == (N - (pass + 1)) * (Size + 1)
  <2>7. LeftOfRun \in Nat /\ LeftOfRun > VerifySteps + 4 * w + 1
    <3>1. w \in Nat /\ ToWrite = w + 1 BY <2>3, <2>5
    <3> HIDE DEF w
    <3> QED BY <3>1, <2>6, <1>a
  <2>8. pass + 1 \in 0..N /\ 0 \in 0..Size /\ range' = 1 BY <2>1, <2>2, Constants
  <2>9. LeftOfRun' < LeftOfRun BY <2>1, <2>7, <2>8, EnterPassLeft
  <2> QED BY <2>1, <2>9
<1>6. CASE VerifyChunk
  <2> DEFINE limit == Ranges[range].end
  <2>1. /\ pc = "verify" /\ offset < limit /\ limit \in 0..Size /\ offset \in 0..Size
        /\ range \in 1..Len(Ranges)
    BY <1>6, <1>0, RangeBounds DEF VerifyChunk, EngineInv, VerifyProgress, Verifying, TypeOK
  <2>2. offset < ChunkEnd(limit) /\ ChunkEnd(limit) <= limit /\ ChunkEnd(limit) \in Int
    <3>1. ChunkEnd(limit) \in offset..limit BY <2>1, <1>0, ChunkEndBounds
    <3> QED BY <3>1, <2>1, <1>0, ChunkEndBounds, Constants
  <2>3. /\ pc' \in {"verify", "report"} /\ range' = range /\ offset' = ChunkEnd(limit)
        /\ mishaps' = mishaps
    BY <1>6 DEF VerifyChunk
  <2> DEFINE w == (Len(Ranges) - range) * (Size + 1)
  <2>4. /\ ToVerify = w + S!Most(0, limit - offset)
        /\ ToVerify' = w + S!Most(0, limit - ChunkEnd(limit))
    BY <2>3 DEF ToVerify
  <2>5. w \in Int BY <2>1, RangeBounds, Constants
  <2> HIDE DEF w, limit
  <2>6. /\ S!Most(0, limit - offset) = limit - offset
        /\ S!Most(0, limit - ChunkEnd(limit)) = limit - ChunkEnd(limit)
    BY <2>1, <2>2 DEF S!Most
  <2>7. ToVerify' < ToVerify /\ ToVerify' \in Int /\ ToVerify \in Int
    BY <2>1, <2>2, <2>4, <2>5, <2>6, Constants
  <2>8. LeftOfRun = 2 * ToVerify + 1 BY <2>1, LeftAt
  <2>9. LeftOfRun' = 2 * ToVerify' + 1 \/ LeftOfRun' = 2 * ToVerify' + 2 BY <2>3, LeftAtNext
  <2> QED BY <2>3, <2>7, <2>8, <2>9
<1>7. CASE ReportVerify
  <2>1. pc = "report" /\ mishaps' = mishaps BY <1>7 DEF ReportVerify
  <2>2. LeftOfRun = 2 * ToVerify + 2 BY <2>1, LeftAt
  <2>3. CASE pc' = "checked" BY <2>1, <2>2, <2>3, <1>a, LeftAtNext
  <2>4. CASE pc' = "verify" /\ offset' = offset /\ range' = range
    <3>1. ToVerify' = ToVerify BY <2>4 DEF ToVerify
    <3> QED BY <2>1, <2>2, <2>4, <3>1, <1>a, LeftAtNext
  <2>5. CASE /\ pc' = "verify" /\ range < Len(Ranges) /\ range' = range + 1
             /\ offset' = Ranges[range'].start
    <3> DEFINE next == range + 1
               w == (Len(Ranges) - next) * (Size + 1)
    <3>1. /\ next \in 1..Len(Ranges) /\ range \in 1..Len(Ranges)
          /\ Ranges[next].end - Ranges[next].start \in 0..Size
      <4>1. Len(Ranges) \in Nat /\ range \in 1..Len(Ranges) BY <1>0, RangeBounds DEF TypeOK
      <4>2. next \in 1..Len(Ranges) BY <4>1, <2>5
      <4>3. /\ Ranges[next].start \in 0..Size /\ Ranges[next].end \in 0..Size
            /\ Ranges[next].start < Ranges[next].end
        BY <4>2, RangeBounds
      <4>4. Ranges[next].end - Ranges[next].start \in 0..Size BY <4>3, Constants
      <4> QED BY <4>1, <4>2, <4>4
    <3>2. ToVerify' = w + S!Most(0, Ranges[next].end - Ranges[next].start)
      BY <2>5 DEF ToVerify
    <3>3. S!Most(0, Ranges[next].end - Ranges[next].start) \in 0..Size
      BY <3>1, Constants DEF S!Most
    <3>4. w \in Nat /\ (Len(Ranges) - range) * (Size + 1) = w + (Size + 1)
      <4>1. Len(Ranges) - next \in Nat BY <3>1, RangeBounds
      <4>2. w \in Nat /\ ((Len(Ranges) - next) + 1) * (Size + 1) = w + (Size + 1)
        BY <4>1, Constants, Product
      <4>3. (Len(Ranges) - next) + 1 = Len(Ranges) - range BY <3>1, RangeBounds
      <4> QED BY <4>2, <4>3
    <3>5. S!Most(0, Ranges[range].end - offset) \in Nat
      <4>1. Ranges[range].end \in 0..Size /\ offset \in 0..Size
        BY <3>1, <1>0, RangeBounds DEF TypeOK
      <4>2. Ranges[range].end - offset \in Int BY <4>1, Constants
      <4> QED BY <4>2 DEF S!Most
    <3>6. ToVerify = w + (Size + 1) + S!Most(0, Ranges[range].end - offset)
      BY <3>4 DEF ToVerify
    <3> HIDE DEF w
    <3>7. ToVerify' < ToVerify /\ ToVerify' \in Int
      BY <3>2, <3>3, <3>4, <3>5, <3>6, Constants
    <3>8. LeftOfRun' = 2 * ToVerify' + 1 /\ ToVerify \in Nat BY <2>5, <1>a, LeftAtNext
    <3>9. 2 * ToVerify' + 1 < 2 * ToVerify + 2
      <4>1. ToVerify \in Int BY <3>8
      <4> QED BY <4>1, <3>7, Shift
    <3> QED BY <2>1, <2>2, <3>8, <3>9
  <2> QED BY <1>7, <2>3, <2>4, <2>5 DEF ReportVerify
<1>8. CASE Conclude
  <2>1. pc = "checked" /\ pc' = "end" /\ mishaps' = mishaps BY <1>8 DEF Conclude
  <2> QED BY <2>1, LeftAtNext, LeftAt
<1>9. CASE Fault
  <2>1. pc # "end" /\ pc' = "end" /\ mishaps' = mishaps BY <1>9 DEF Fault, Running
  <2> QED BY <2>1, LeftAtNext, LeftIsNat
<1> QED BY <1>1, <1>2, <1>3, <1>4, <1>5, <1>6, <1>7, <1>8, <1>9 DEF Work

LEMMA NewRunLess ==
    ASSUME NEW z \in Nat, NEW r \in Nat, NEW l \in Nat, NEW m \in Nat, m <= r
    PROVE  z + m < z + (r + 1) + l
OBVIOUS

LEMMA StepsLeftFalls ==
    ASSUME EngineInv, EngineInv', Next, vars' # vars
    PROVE  StepsLeft' < StepsLeft
<1> DEFINE k == MaxMishaps - mishaps
           a == RunSteps + 1
<1>1. /\ a \in Nat /\ a > 0 /\ LeftOfRun \in Nat /\ LeftOfRun' \in Nat
      /\ k \in Nat /\ mishaps \in Nat
  <2>1. LeftOfRun \in Nat BY LeftIsNat
  <2>2. LeftOfRun' \in Nat
    <3>1. (EngineInv => LeftOfRun \in Nat /\ (pc # "end" => LeftOfRun > 0))' BY LeftIsNat, PTL
    <3> QED BY <3>1
  <2>3. mishaps \in 0..MaxMishaps BY DEF EngineInv, TypeOK
  <2> QED BY <2>1, <2>2, <2>3, CountsAreNat, Constants
<1>2. StepsLeft = k * a + LeftOfRun /\ StepsLeft' = (MaxMishaps - mishaps') * a + LeftOfRun'
  BY DEF StepsLeft, RunSteps, VerifySteps
<1>3. CASE Work \/ Fault
  <2>1. LeftOfRun' < LeftOfRun /\ mishaps' = mishaps BY <1>3, WorkLeft
  <2>2. k * a \in Nat /\ StepsLeft' = k * a + LeftOfRun' BY <1>1, <1>2, <2>1, Product
  <2> DEFINE z == k * a
  <2>3. z \in Nat /\ StepsLeft = z + LeftOfRun /\ StepsLeft' = z + LeftOfRun' BY <1>2, <2>2
  <2> HIDE DEF z, k, a
  <2>4. LeftOfRun \in Int /\ LeftOfRun' \in Int BY <1>1
  <2>5. z + LeftOfRun' < z + LeftOfRun
    <3>1. z \in Int BY <2>3
    <3> QED BY <3>1, <2>1, <2>4, Shift
  <2> QED BY <2>3, <2>5
<1>4. CASE StartUnread \/ Interrupt \/ PowerLoss \/ FaultUnrecorded
  <2>1. mishaps' = mishaps + 1 /\ mishaps < MaxMishaps
    BY <1>4 DEF StartUnread, Interrupt, PowerLoss, FaultUnrecorded
  <2>2. LeftOfRun' <= RunSteps
    <3>1. CASE StartUnread
      <4>1. EnterPass(0, 0) /\ range' = 1 BY <3>1 DEF StartUnread, ProcessStarts
      <4>2. LeftOfRun' < RunSteps BY <4>1, Constants, FreshRunLeft
      <4> QED BY <4>2, <1>1, CountsAreNat
    <3>2. CASE ~StartUnread
      <4>1. pc' = "down" BY <1>4, <3>2 DEF Interrupt, PowerLoss, FaultUnrecorded, Forget
      <4> QED BY <4>1, LeftAtNext, CountsAreNat
    <3> QED BY <3>1, <3>2
  <2>3. k - 1 \in Nat /\ MaxMishaps - mishaps' = k - 1 BY <1>1, <2>1, Constants
  <2>4. (k - 1) * a \in Nat /\ ((k - 1) + 1) * a = (k - 1) * a + a BY <1>1, <2>3, Product
  <2>5. (k - 1) + 1 = k BY <1>1
  <2>6. StepsLeft = (k - 1) * a + a + LeftOfRun BY <1>2, <2>4, <2>5
  <2>7. StepsLeft' = (k - 1) * a + LeftOfRun' BY <1>2, <2>3
  <2>8. RunSteps \in Nat BY CountsAreNat
  <2> DEFINE z == (k - 1) * a
  <2>9. z \in Nat /\ StepsLeft = z + (RunSteps + 1) + LeftOfRun /\ StepsLeft' = z + LeftOfRun'
    BY <2>4, <2>6, <2>7
  <2> HIDE DEF z, k, a
  <2>10. z + LeftOfRun' < z + (RunSteps + 1) + LeftOfRun BY <1>1, <2>2, <2>8, <2>9, NewRunLess
  <2> QED BY <2>9, <2>10
<1> QED BY <1>3, <1>4 DEF Next, Finished

(* A job has a bounded number of steps before it, whatever its standard,   *)
(* disk, chunk sizes and mishaps: every step of the engine uses one up.    *)
THEOREM EngineStepsAreBounded == Spec => [](StepsLeft \in Nat) /\ EveryStepCounts
<1>1. EngineInv => StepsLeft \in Nat
  <2> SUFFICES ASSUME EngineInv PROVE StepsLeft \in Nat OBVIOUS
  <2>1. /\ MaxMishaps - mishaps \in Nat /\ RunSteps + 1 \in Nat /\ LeftOfRun \in Nat
    <3>1. mishaps \in 0..MaxMishaps BY DEF EngineInv, TypeOK
    <3>2. RunSteps \in Nat BY CountsAreNat
    <3> QED BY <3>1, <3>2, LeftIsNat, Constants
  <2>2. (MaxMishaps - mishaps) * (RunSteps + 1) \in Nat BY <2>1, Product
  <2> QED BY <2>1, <2>2 DEF StepsLeft
<1>2. EngineInv /\ EngineInv' /\ [Next]_vars => [StepsLeft' < StepsLeft]_vars
  BY StepsLeftFalls
<1> QED BY <1>1, <1>2, EngineInvariant, PTL DEF Spec, EveryStepCounts
-----------------------------------------------------------------------------
(* The refinement of Wipe.  Layers is well defined: the checkpoint leaves  *)
(* only two candidates, so no induction over the passes is needed.         *)
IsLayers(n) ==
    /\ n \in 0..N
    /\ \A c \in Live : platter[c].pass >= n - 1
    /\ n = N \/ \E c \in Live : platter[c].pass < n

LEMMA LiveNonempty == ASSUME TypeOK PROVE \E c \in Live : TRUE
<1>1. dead \in (SUBSET Cells) \ {Cells} BY EngineAssumption DEF TypeOK
<1>2. dead \subseteq Cells /\ dead # Cells BY <1>1
<1>3. \E c : c \in Cells /\ c \notin dead BY <1>2
<1> QED BY <1>3 DEF Live

LEMMA LayersUnique ==
    ASSUME TypeOK, NEW m, NEW n, IsLayers(m), IsLayers(n)
    PROVE  m = n
BY Constants, CellFacts DEF IsLayers

LEMMA OneCount == \A m, n : TypeOK /\ IsLayers(m) /\ IsLayers(n) => m = n
BY LayersUnique

LEMMA LayersDefined == EngineInv /\ ~Lost => IsLayers(Layers)
<1> SUFFICES ASSUME EngineInv, ~Lost PROVE IsLayers(Layers) OBVIOUS
<1>1. /\ TypeOK /\ Reach \in 0..N
      /\ Reach = IF cp.pass >= 0 /\ cp.offset < Size THEN cp.pass ELSE cp.pass + 1
      /\ cp.pass \in -1..Last /\ cp.offset \in 0..Size
  BY CheckpointFacts DEF EngineInv
<1>2. \A c \in Live : /\ platter[c].pass \in -1..Last
                      /\ platter[c].pass >= Reach - 1 /\ platter[c].pass <= Reach
  <2>1. \A c \in Live : /\ platter[c].pass >= cp.pass - 1
                        /\ c < cp.offset => platter[c].pass >= cp.pass
                        /\ platter[c].pass <= Reach
    BY DEF EngineInv, CheckpointKept, CacheAhead, AtLeast, AtMostReach, Lost
  <2>2. \A c \in Live : c \in Nat /\ c < Size /\ platter[c].pass \in -1..Last
    BY <1>1, CellFacts
  <2>3. cp.pass = -1 => cp.offset = 0 BY DEF EngineInv, CheckpointShape
  <2> QED BY <2>1, <2>2, <2>3, <1>1, Constants
<1>3. \E n : IsLayers(n)
  <2>1. CASE Reach = N BY <2>1, <1>1, <1>2, Constants DEF IsLayers
  <2>2. CASE Reach < N /\ \E c \in Live : platter[c].pass < Reach
    BY <2>2, <1>1, <1>2, Constants DEF IsLayers
  <2>3. CASE Reach < N /\ \A c \in Live : platter[c].pass >= Reach
    <3>1. CASE Reach + 1 = N
      BY <3>1, <2>3, <1>1, Constants DEF IsLayers
    <3>2. CASE Reach + 1 < N
      <4>1. PICK c \in Live : TRUE BY <1>1, LiveNonempty
      <4>2. platter[c].pass < Reach + 1 BY <4>1, <1>1, <1>2, Constants
      <4>3. IsLayers(Reach + 1)
        BY <4>1, <4>2, <3>2, <2>3, <1>1, Constants DEF IsLayers
      <4> QED BY <4>3
    <3> QED BY <3>1, <3>2, <2>3, <1>1, Constants
  <2> QED BY <2>1, <2>2, <2>3, <1>1, <1>2, Constants
<1> QED BY <1>3 DEF Layers, IsLayers

LEMMA AbstractInit == Init => Abstract!Init
<1> SUFFICES ASSUME Init PROVE ~Lost /\ Layers = 0 /\ Verdict = "none"
  BY DEF Abstract!Init
<1>0. ~Lost BY DEF Init, Lost, Stale
<1>1. TypeOK /\ IsLayers(Layers) BY <1>0, InitInv, LayersDefined DEF EngineInv
<1>2. IsLayers(0)
  <2>1. \A c \in Live : platter[c].pass = -1 BY DEF Init, Live, Residue
  <2> QED BY <2>1, <1>1, LiveNonempty, Constants DEF IsLayers
<1> QED BY <1>0, <1>1, <1>2, LayersUnique DEF Init, Verdict, Unfinished

(* A step of runs that have read the row lays at most one pass, and leaves *)
(* the layers alone whenever what is stable does not change.               *)
LEMMA LayersStep ==
    ASSUME EngineInv, EngineInv', [Next]_vars, ~Lost, ~Lost'
    PROVE  /\ Layers \in 0..N /\ Layers' \in {Layers, Layers + 1} /\ Layers' \in 0..N
           /\ platter' = platter => Layers' = Layers
<1>1. /\ TypeOK /\ TypeOK' BY DEF EngineInv
<1>2. IsLayers(Layers) BY LayersDefined
<1>3. IsLayers(Layers)'
  <2>1. (EngineInv /\ ~Lost => IsLayers(Layers))' BY LayersDefined, PTL
  <2> QED BY <2>1
<1>4. Live' = Live BY TrailStep DEF Live
<1>5. \A c \in Live : /\ platter'[c].pass \in {platter[c].pass, platter[c].pass + 1}
                      /\ platter[c].pass \in -1..Last
  BY <1>1, StableStep, CellFacts DEF Lost, Stale
<1> DEFINE m == Layers
           n == Layers'
<1>6. /\ m \in 0..N /\ n \in 0..N
      /\ \A c \in Live : platter[c].pass >= m - 1 /\ platter'[c].pass >= n - 1
      /\ m = N \/ \E c \in Live : platter[c].pass < m
      /\ n = N \/ \E c \in Live : platter'[c].pass < n
  BY <1>2, <1>3, <1>4 DEF IsLayers
<1> HIDE DEF m, n
<1>7. n \in {m, m + 1} /\ (platter' = platter => n = m)
  BY <1>5, <1>6, Constants
<1> QED BY <1>6, <1>7 DEF m, n

(* The order of the passes is lost by a run that cannot read the row, and  *)
(* found again by the save that ends its first pass.                       *)
LEMMA LostStep ==
    ASSUME EngineInv, EngineInv', [Next]_vars, Lost # Lost'
    PROVE  /\ pc # "end" /\ pc' # "end"
           /\ ~Lost' => Layers' = 1
<1>1. CASE Lost'
  <2>1. StartUnread
    BY <1>1 DEF Next, Work, Start, WriteChunk, SyncChunk, SaveCheckpoint, EndPass, VerifyChunk,
       ReportVerify, Conclude, Interrupt, PowerLoss, Fault, FaultUnrecorded, Forget, Finished,
       vars, Lost, Stale
  <2>2. pc = "down" /\ EnterPass(0, 0) BY <2>1 DEF StartUnread, ProcessStarts
  <2> QED BY <2>2, <1>1 DEF EnterPass
<1>2. CASE ~Lost'
  <2>1. SaveCheckpoint
    BY <1>2 DEF Next, Work, Start, StartUnread, WriteChunk, SyncChunk, EndPass, VerifyChunk,
       ReportVerify, Conclude, Interrupt, PowerLoss, Fault, FaultUnrecorded, Forget, Finished,
       vars, Lost, Stale
  <2>2. /\ ~(offset < Size) /\ trail \in {"unread", "restarting"} /\ pc = "save"
        /\ pc' \in {"write", "endpass"} /\ platter' = platter /\ Live' = Live
    BY <1>2, <2>1 DEF SaveCheckpoint, Lost, Stale, device, Live
  <2>3. TypeOK /\ TypeOK' BY DEF EngineInv
  <2>4. pass = 0 /\ \A c \in Live : c < Size /\ platter[c].pass >= 0 /\ platter[c].pass <= 0
    <3>1. pass = 0 BY <2>2 DEF EngineInv, TrailPlace
    <3>2. cache = platter /\ offset \in 0..Size
          /\ \A c \in Live : c < offset => AtLeast(cache[c], 0) /\ cache[c].pass <= 0
      BY <2>2, <2>3, <3>1 DEF EngineInv, OverwriteProgress, Overwriting, TypeOK
    <3>3. offset = Size BY <3>2, <2>2, Constants
    <3>4. \A c \in Live : c < Size /\ platter[c].pass \in -1..Last BY <2>3, CellFacts
    <3> QED BY <3>1, <3>2, <3>3, <3>4, Constants DEF AtLeast
  <2>5. IsLayers(1)'
    <3>1. \E c \in Live : platter[c].pass < 1
      <4>1. PICK c \in Live : TRUE BY <2>3, LiveNonempty
      <4>2. platter[c].pass \in -1..Last BY <4>1, <2>3, CellFacts
      <4> QED BY <4>1, <4>2, <2>4, Constants
    <3>2. \A c \in Live : platter[c].pass >= 1 - 1 BY <2>4
    <3> QED BY <3>1, <3>2, <2>2, Constants DEF IsLayers
  <2>6. IsLayers(Layers)'
    <3>1. (EngineInv /\ ~Lost => IsLayers(Layers))' BY LayersDefined, PTL
    <3> QED BY <3>1, <1>2
  <2>7. Layers' = 1
    <3>1. (\A m, n : TypeOK /\ IsLayers(m) /\ IsLayers(n) => m = n)' BY OneCount, PTL
    <3> QED BY <3>1, <2>3, <2>5, <2>6
  <2> QED BY <2>2, <2>7
<1> QED BY <1>1, <1>2

LEMMA AbstractStep ==
    EngineInv /\ EngineInv' /\ [Next]_vars => [Abstract!Next]_(Abstract!vars)
<1> DEFINE known == IF Lost THEN 0 ELSE Layers
<1> SUFFICES ASSUME EngineInv, EngineInv', [Next]_vars
             PROVE  Abstract!Next \/ (known' = known /\ Lost' = Lost /\ Verdict' = Verdict)
  BY DEF Abstract!vars
<1>0. Lost \in BOOLEAN /\ Lost' \in BOOLEAN BY DEF Lost, Stale
<1>2. /\ pc # "end" => Verdict = "none"
      /\ pc' # "end" => Verdict' = "none"
  BY DEF EngineInv, Outcome, Verdict
<1>3. CASE Lost # Lost'
  <2>1. Verdict = "none" /\ Verdict' = "none" /\ (~Lost' => Layers' = 1)
    BY <1>3, <1>2, LostStep
  <2>2. CASE Lost
    <3>1. ~Lost' /\ known' = 1 BY <2>1, <2>2, <1>0, <1>3
    <3> QED BY <2>1, <2>2, <3>1 DEF Abstract!Next, Abstract!LayAnew
  <2>3. CASE ~Lost
    <3>1. Lost' /\ known' = 0 BY <2>3, <1>0, <1>3
    <3> QED BY <2>1, <2>3, <3>1 DEF Abstract!Next, Abstract!LoseCount
  <2> QED BY <2>2, <2>3
<1> SUFFICES ASSUME Lost' = Lost
             PROVE  Abstract!Next \/ (known' = known /\ Verdict' = Verdict)
  BY <1>3
<1>4. /\ platter' = platter => known' = known
      /\ \/ known' = known
         \/ ~Lost /\ Layers \in 0..N /\ Layers' = Layers + 1 /\ Layers' \in 0..N
  BY LayersStep
<1>5. CASE pc' # "end" /\ pc # "end"
  <2>1. CASE known' = known BY <2>1, <1>5, <1>2
  <2>2. CASE ~Lost /\ Layers \in 0..N /\ Layers' = Layers + 1 /\ Layers' \in 0..N
    <3>1. Layers < N BY <2>2, Constants
    <3> QED BY <3>1, <2>2, <1>5, <1>2 DEF Abstract!Next, Abstract!LayPass
  <2> QED BY <2>1, <2>2, <1>4
<1>6. CASE Conclude
  <2>1. /\ platter' = platter /\ job' \in {"verified", "failed"} /\ Verdict = "none"
        /\ pc = "checked"
    BY <1>6, <1>2 DEF Conclude, device
  <2>2. Verdict' \in {"verified", "failed"} BY <2>1 DEF Verdict, Unfinished
  <2>3. Lost \/ known = N
    <3> SUFFICES ASSUME ~Lost PROVE Layers = N OBVIOUS
    <3>1. TypeOK /\ \A c \in Live : platter[c].pass >= Last
      BY <2>1 DEF EngineInv, VerifyProgress, Verifying, AtLeast, Lost
    <3>2. IsLayers(N) BY <3>1, Constants DEF IsLayers
    <3> QED BY <3>1, <3>2, LayersDefined, LayersUnique
  <2> QED BY <2>1, <2>2, <2>3, <1>4 DEF Abstract!Next, Abstract!Verify, Abstract!Fail
<1>7. CASE Fault
  <2>1. platter' = platter /\ Verdict = "none" /\ job' = "failed"
    BY <1>7, <1>2 DEF Fault, Running, device
  <2>2. Verdict' = "failed" BY <2>1 DEF Verdict, Unfinished
  <2> QED BY <2>1, <2>2, <1>4 DEF Abstract!Next, Abstract!Fail
<1>8. CASE UNCHANGED vars
  BY <1>8, <1>4 DEF vars, device, durable, Verdict
<1>9. pc = "end" => UNCHANGED vars
  BY DEF Next, Work, Start, StartUnread, ProcessStarts, WriteChunk, SyncChunk, SaveCheckpoint,
     EndPass, VerifyChunk, ReportVerify, Conclude, Interrupt, PowerLoss, Fault, FaultUnrecorded,
     Finished, Running
<1>10. pc' = "end" => Conclude \/ Fault \/ UNCHANGED vars
  BY DEF Next, Work, Start, StartUnread, ProcessStarts, WriteChunk, SyncChunk, SaveCheckpoint,
     EndPass, EnterPass, VerifyChunk, ReportVerify, Interrupt, PowerLoss, FaultUnrecorded,
     Forget, Finished
<1> QED BY <1>5, <1>6, <1>7, <1>8, <1>9, <1>10

(* The engine implements the safety part of Wipe: passes become durable    *)
(* one after the other, their count is lost only with a row that cannot be *)
(* read, and only a disk they all cover, or whose count is lost, is        *)
(* verified (VerifiedAlwaysErased speaks of the second).                   *)
THEOREM EngineImplementsWipe ==
    Spec => Abstract!Init /\ [][Abstract!Next]_(Abstract!vars)
<1> QED BY AbstractInit, AbstractStep, EngineInvariant, PTL DEF Spec
=============================================================================
