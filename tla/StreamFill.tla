----------------------------- MODULE StreamFill -----------------------------
(***************************************************************************)
(* The loop of streamAt (internal/erasure/device.go) for a random pass:    *)
(* fill a buffer of bufLen bytes with what belongs at the device's bytes   *)
(* from offset on.  One cipher and one scratch block serve the whole       *)
(* buffer; each turn runs the next keystream block over the scratch block  *)
(* and copies what fits.  The cipher is modelled from its use: it adds the *)
(* block of its counter to the scratch block and panics when the counter   *)
(* has left its range.                                                     *)
(***************************************************************************)
EXTENDS Keystream

CONSTANTS
    Offsets,   \* where a buffer may begin on the device
    BufLens    \* and how many bytes it may have

ASSUME FillAssumption == Offsets \subseteq Nat /\ BufLens \subseteq Nat

VARIABLES
    offset, bufLen,   \* the arguments
    counter,          \* the cipher's next block
    blockBuf,         \* the keystream blocks XORed into the scratch block
    pos,              \* bytes of the buffer already filled
    buf,              \* the buffer
    fillPc            \* "skip", "loop", "done" or "panic"

fillVars == <<offset, bufLen, counter, blockBuf, pos, buf, fillPc>>

Zero == [blocks |-> {}, at |-> 0]           \* a byte of make([]byte, n)

Xor(s, t) == (s \ t) \cup (t \ s)

(* A bug: the block number is not truncated to the counter's width.        *)
SetCounter_NoTruncation(block) == block

SetCounter(block) == block % CounterRange

FillInit ==
    /\ offset \in Offsets /\ bufLen \in BufLens
    /\ counter = SetCounter(BlockOf(offset))
    /\ blockBuf = {}
    /\ pos = 0 /\ buf = [i \in 0..(bufLen - 1) |-> Zero]
    /\ fillPc = IF offset % BlockLen > 0 THEN "skip" ELSE "loop"

(* A bug: the scratch block is cleared before each keystream block.        *)
XORKeyStream_Cleared ==
    /\ counter < CounterRange
    /\ blockBuf' = {counter}
    /\ counter' = counter + 1

XORKeyStream ==
    /\ counter < CounterRange
    /\ blockBuf' = Xor(blockBuf, {counter})
    /\ counter' = counter + 1

(* copy(buf[pos:], blockBuf[from:]) *)
Copy(from) ==
    LET n == IF bufLen - pos < BlockLen - from THEN bufLen - pos ELSE BlockLen - from
    IN  /\ pos' = pos + n
        /\ buf' = [i \in 0..(bufLen - 1) |->
                      IF i \in pos..(pos + n - 1)
                      THEN [blocks |-> blockBuf', at |-> from + (i - pos)] ELSE buf[i]]

(* The part of the first block behind an offset within it.                 *)
SkipHead ==
    /\ fillPc = "skip"
    /\ XORKeyStream
    /\ Copy(offset % BlockLen)
    /\ fillPc' = "loop"
    /\ UNCHANGED <<offset, bufLen>>

FillBlock ==
    /\ fillPc = "loop" /\ pos < bufLen
    /\ XORKeyStream
    /\ Copy(0)
    /\ UNCHANGED <<offset, bufLen, fillPc>>

Overflow ==
    /\ fillPc = "skip" \/ (fillPc = "loop" /\ pos < bufLen)
    /\ counter >= CounterRange
    /\ fillPc' = "panic"
    /\ UNCHANGED <<offset, bufLen, counter, blockBuf, pos, buf>>

FillReturn ==
    /\ fillPc = "loop" /\ pos >= bufLen
    /\ fillPc' = "done"
    /\ UNCHANGED <<offset, bufLen, counter, blockBuf, pos, buf>>

FillNext == SkipHead \/ FillBlock \/ Overflow \/ FillReturn
FillSpec == FillInit /\ [][FillNext]_fillVars
-----------------------------------------------------------------------------
(* The buffer holds the bytes of StreamAt: each byte is the XOR of all     *)
(* keystream blocks from the beginning of its chunk to its own block, each *)
(* once, with the counter wrapped at the chunk's first block only.  The    *)
(* engine's model relies on it: equal stamps mean equal bytes.             *)
BytesDependOnChunkStart ==
    /\ \A i \in 0..(pos - 1) :
          StreamAt("random", 0, offset, offset + i) =
              [pattern |-> "random", key |-> 0, blocks |-> buf[i].blocks, at |-> buf[i].at]
    /\ fillPc = "done" => pos = bufLen

(* Chunks whose length divides the counter's whole period, laid end to end *)
(* from 0, never run the cipher's counter over; other lengths do on a disk *)
(* larger than the period (256 GiB in the code).                           *)
DividingChunksNeverPanic ==
    /\ bufLen > 0 /\ (BlockLen * CounterRange) % bufLen = 0
    /\ offset % bufLen = 0
    => fillPc # "panic"
=============================================================================
