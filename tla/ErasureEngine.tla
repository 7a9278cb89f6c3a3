---------------------------- MODULE ErasureEngine ----------------------------
(***************************************************************************)
(* One erasure job on one disk: the overwrite and verify loops of          *)
(* internal/erasure/engine.go, driven by runJob of internal/worker, with   *)
(* the page cache of the device, the durable checkpoint row, power loss,   *)
(* shutdown, device faults and the restart that resumes the job.           *)
(*                                                                         *)
(* The unit of the device is one 64-byte keystream block, called a cell:   *)
(* chunk sizes and the device size are multiples of it.  A cell holds the  *)
(* stamp of its last write, pass and first cell of the chunk, from which   *)
(* its bytes follow (Bytes).  A sync moves the cache to the platter; what  *)
(* the operating system writes back on its own is decided at a power loss, *)
(* which keeps or loses each unsynced cell independently.  A cell of dead  *)
(* ignores writes without reporting an error, as a failing sector may.     *)
(*                                                                         *)
(* One process at a time runs the job: JobQueue models the claim.          *)
(***************************************************************************)
EXTENDS Integers, Sequences

CONSTANTS
    Passes,        \* the standard's patterns, in order
    VerifyMode,    \* "full" or "sample"
    Size,          \* cells of the device
    ChunkSizes,    \* values CHUNK_BYTES takes over the restarts, in cells
    Step,          \* CHECKPOINT_EVERY_BYTES, in cells
    DeadSets,      \* the sets of cells that may be dead from the start
    Draws,         \* sample windows the job id selects
    MaxMishaps     \* bound on power losses, shutdowns and lost failures

K == INSTANCE Keystream WITH BlockLen <- 1, CounterRange <- Size
S == INSTANCE Sampling WITH Window <- 1, MaxSpans <- 4096

Cells == 0..(Size - 1)
N == Len(Passes)
Last == N - 1

ASSUME EngineAssumption ==
    /\ Passes \in Seq(K!Patterns) /\ N \in Nat \ {0}
    /\ VerifyMode \in {"full", "sample"}
    /\ Size \in Nat \ {0}
    /\ ChunkSizes \subseteq Nat \ {0} /\ ChunkSizes # {}
    /\ Step \in Nat \ {0}
    /\ DeadSets \subseteq (SUBSET Cells) \ {Cells} /\ DeadSets # {}
    /\ Draws \in Seq(S!DrawRange(Size))
    /\ MaxMishaps \in Nat

VARIABLES
    pc,         \* where the process running the job is; "down" when none does
    chunk,      \* the process' chunk size, read from the environment at start
    pass,       \* passIdx of overwrite; N once verification has begun
    offset,     \* next cell to write or to verify
    mark,       \* lastCheckpoint of overwrite
    range,      \* index of the span being verified
    unreported, \* sinceReport of verify
    clean,      \* no mismatch found so far by this run
    cp,         \* the durable checkpoint row of the job
    job,        \* the durable status of the job
    cache,      \* what a read of the device returns
    platter,    \* what survives a power loss
    dead,       \* cells that keep their old content whatever is written
    mishaps,
    trail       \* history: whether the runs so far have followed the checkpoint

local == <<chunk, pass, offset, mark, range, unreported, clean>>
durable == <<cp, job>>
device == <<cache, platter, dead>>
vars == <<pc, local, durable, device, mishaps, trail>>

NoCheckpoint == [pass |-> -1, offset |-> 0]
Residue == [pass |-> -1, start |-> 0]       \* the data to be destroyed
Stamp(k, s) == [pass |-> k, start |-> s]

PcValues == {"down", "write", "sync", "save", "endpass",
             "verify", "report", "checked", "end"}
Unfinished == {"pending", "running", "verifying"}

(* No action reads trail.  "kept": every run has read the row.  "unread":  *)
(* a run that could not read it has begun again and saved nothing yet.     *)
(* "restarting": its saves have replaced the row, and it writes the first  *)
(* pass.  "restarted": that pass is over.  "broken": it was cut before its *)
(* first save, and the old row speaks of cells it had already rewritten.   *)
TrailValues == {"kept", "unread", "restarting", "restarted", "broken"}

(* The bytes of a cell, from its stamp; what verify expects there when it  *)
(* reads the chunk that begins at s.                                       *)
Bytes(stamp, c) ==
    IF stamp = Residue THEN [pattern |-> "residue"]
    ELSE K!StreamAt(Passes[stamp.pass + 1], stamp.pass, stamp.start, c)
Expected(s, c) == K!StreamAt(Passes[N], Last, s, c)

Ranges == IF VerifyMode = "full" THEN <<S!Span(0, Size)>>
          ELSE S!Layout(Size, Draws)

ChunkEnd(limit) == S!Least(offset + chunk, limit)
-----------------------------------------------------------------------------
Init ==
    /\ pc = "down" /\ chunk \in ChunkSizes
    /\ pass = 0 /\ offset = 0 /\ mark = 0
    /\ range = 1 /\ unreported = 0 /\ clean = TRUE
    /\ cp = NoCheckpoint /\ job = "pending"
    /\ cache = [c \in Cells |-> Residue]
    /\ platter = [c \in Cells |-> Residue]
    /\ dead \in DeadSets
    /\ mishaps = 0 /\ trail = "kept"

(* Where the checkpoint lets a run resume: behind the last cell it names,  *)
(* or at the next pass when that is the end of the disk.                   *)
ResumeAt ==
    IF cp = NoCheckpoint THEN [pass |-> 0, offset |-> 0]
    ELSE IF cp.offset >= Size THEN [pass |-> cp.pass + 1, offset |-> 0]
    ELSE cp

(* The head of the pass loop: pass k from cell o on, or verification when  *)
(* all passes are done.                                                    *)
EnterPass(k, o) ==
    /\ pass' = k
    /\ IF k <= Last
       THEN pc' = "write" /\ offset' = o /\ mark' = o
       ELSE pc' = "verify" /\ offset' = Ranges[1].start /\ mark' = 0

(* A process claims the job and starts the engine.  AcquireNextJob has     *)
(* already turned a pending job into a running one, so the test of the     *)
(* job's status in runJob never hides a checkpoint.                        *)
ProcessStarts ==
    /\ pc = "down"
    /\ job \in Unfinished
    /\ job' = "running"
    /\ chunk' \in ChunkSizes
    /\ range' = 1 /\ unreported' = 0 /\ clean' = TRUE
    /\ UNCHANGED <<cp, device>>

(* A bug: the resumed run begins one chunk behind the checkpoint.          *)
Start_SkipsAChunk ==
    /\ ProcessStarts
    /\ EnterPass(ResumeAt.pass,
                 IF cp.offset \in 1..(Size - 1)
                 THEN S!Least(cp.offset + chunk', Size - 1) ELSE 0)
    /\ UNCHANGED <<mishaps, trail>>

(* A bug: the checkpoint's pass counts as finished.                        *)
Start_NextPass ==
    /\ ProcessStarts
    /\ EnterPass(cp.pass + 1, 0)
    /\ UNCHANGED <<mishaps, trail>>

(* A bug: the resumed run begins its pass from the head of the disk.       *)
Start_PassFromZero ==
    /\ ProcessStarts
    /\ EnterPass(S!Most(cp.pass, 0), 0)
    /\ UNCHANGED <<mishaps, trail>>

(* A bug: jobs interrupted while verifying are not claimed again.          *)
Start_OnlyRunning ==
    /\ job # "verifying"
    /\ ProcessStarts
    /\ EnterPass(ResumeAt.pass, ResumeAt.offset)
    /\ UNCHANGED <<mishaps, trail>>

(* The run reads its checkpoint and goes on from there.                    *)
Start ==
    /\ ProcessStarts
    /\ EnterPass(ResumeAt.pass, ResumeAt.offset)
    /\ UNCHANGED <<mishaps, trail>>

(* GetCheckpoint fails, which runJob takes for a job without a checkpoint: *)
(* the run begins with the first cell of the first pass, and the row keeps *)
(* naming the old place until the first save.                              *)
StartUnread ==
    /\ cp # NoCheckpoint
    /\ mishaps < MaxMishaps
    /\ mishaps' = mishaps + 1
    /\ ProcessStarts
    /\ EnterPass(0, 0)
    /\ trail' = IF trail = "broken" THEN "broken" ELSE "unread"

(* A bug: a checkpoint at the end of a pass only.                          *)
WriteChunk_EndOfPassOnly ==
    /\ pc = "write"
    /\ LET end == ChunkEnd(Size) IN
       /\ cache' = [c \in Cells |->
                      IF c \in offset..(end - 1) /\ c \notin dead
                      THEN Stamp(pass, offset) ELSE cache[c]]
       /\ offset' = end
       /\ pc' = IF end >= Size THEN "sync" ELSE "write"
    /\ UNCHANGED <<chunk, pass, mark, range, unreported, clean,
                   durable, platter, dead, mishaps, trail>>

(* One turn of the write loop: fill a chunk and hand it to the device.     *)
WriteChunk ==
    /\ pc = "write"
    /\ LET end == ChunkEnd(Size) IN
       /\ cache' = [c \in Cells |->
                      IF c \in offset..(end - 1) /\ c \notin dead
                      THEN Stamp(pass, offset) ELSE cache[c]]
       /\ offset' = end
       /\ pc' = IF end - mark >= Step \/ end >= Size THEN "sync" ELSE "write"
    /\ UNCHANGED <<chunk, pass, mark, range, unreported, clean,
                   durable, platter, dead, mishaps, trail>>

(* A bug: the checkpoint is saved without an fsync.                        *)
SyncChunk_NoFsync ==
    /\ pc = "sync"
    /\ pc' = "save"
    /\ UNCHANGED <<local, durable, device, mishaps, trail>>

(* The fsync that comes before every checkpoint.                           *)
SyncChunk ==
    /\ pc = "sync"
    /\ platter' = cache
    /\ pc' = "save"
    /\ UNCHANGED <<local, durable, cache, dead, mishaps, trail>>

(* onProgress of the overwrite phase: upsert the checkpoint.               *)
SaveCheckpoint ==
    /\ pc = "save"
    /\ cp' = [pass |-> pass, offset |-> offset]
    /\ job' = "running"
    /\ mark' = offset
    /\ pc' = IF offset < Size THEN "write" ELSE "endpass"
    /\ trail' = IF trail \in {"unread", "restarting"}
                THEN IF offset < Size THEN "restarting" ELSE "restarted"
                ELSE trail
    /\ UNCHANGED <<chunk, pass, offset, range, unreported, clean,
                   device, mishaps>>

(* The fsync at the end of a pass, then the next pass.                     *)
EndPass ==
    /\ pc = "endpass"
    /\ platter' = cache
    /\ EnterPass(pass + 1, 0)
    /\ UNCHANGED <<chunk, range, unreported, clean, durable, cache, dead,
                   mishaps, trail>>

(* A bug: each chunk's verdict replaces the one before.                    *)
VerifyChunk_LastChunkWins ==
    /\ pc = "verify"
    /\ LET end == ChunkEnd(Ranges[range].end) IN
       /\ clean' = \A c \in offset..(end - 1) :
                       Bytes(cache[c], c) = Expected(offset, c)
       /\ unreported' = unreported + (end - offset)
       /\ offset' = end
       /\ pc' = IF unreported' >= 4 * Step \/ end >= Ranges[range].end
                THEN "report" ELSE "verify"
    /\ UNCHANGED <<chunk, pass, mark, range, durable, device, mishaps, trail>>

(* One turn of the verify loop: read a chunk and compare it.               *)
VerifyChunk ==
    /\ pc = "verify"
    /\ LET end == ChunkEnd(Ranges[range].end) IN
       /\ clean' = (clean /\ \A c \in offset..(end - 1) :
                                Bytes(cache[c], c) = Expected(offset, c))
       /\ unreported' = unreported + (end - offset)
       /\ offset' = end
       /\ pc' = IF unreported' >= 4 * Step \/ end >= Ranges[range].end
                THEN "report" ELSE "verify"
    /\ UNCHANGED <<chunk, pass, mark, range, durable, device, mishaps, trail>>

(* onProgress of the verify phase: it saves the position of the reader in  *)
(* the same checkpoint row, under the index of the final pass.             *)
ReportVerify ==
    /\ pc = "report"
    /\ cp' = [pass |-> Last, offset |-> offset]
    /\ job' = "verifying"
    /\ unreported' = 0
    /\ \/ /\ offset < Ranges[range].end
          /\ pc' = "verify" /\ UNCHANGED <<offset, range>>
       \/ /\ offset >= Ranges[range].end /\ range < Len(Ranges)
          /\ range' = range + 1 /\ offset' = Ranges[range'].start
          /\ pc' = "verify"
       \/ /\ offset >= Ranges[range].end /\ range = Len(Ranges)
          /\ pc' = "checked" /\ UNCHANGED <<offset, range>>
    /\ UNCHANGED <<chunk, pass, mark, clean, device, mishaps, trail>>

(* Run has returned a result: the job is verified, with a last progress    *)
(* row unless that write fails unnoticed, or failed.  What follows on the  *)
(* disk's and the asset's rows is module Decommission's subject.           *)
Conclude ==
    /\ pc = "checked"
    /\ pc' = "end"
    /\ IF clean
       THEN job' = "verified" /\ cp' \in {cp, [pass |-> Last, offset |-> Size]}
       ELSE job' = "failed" /\ UNCHANGED cp
    /\ UNCHANGED <<local, device, mishaps, trail>>

Running == pc \notin {"down", "end"}

(* The process' variables are gone.  A run that had not read the row and   *)
(* had not replaced it leaves a row that is out of date.                   *)
Forget ==
    /\ pc' = "down"
    /\ pass' = 0 /\ offset' = 0 /\ mark' = 0
    /\ range' = 1 /\ unreported' = 0 /\ clean' = TRUE
    /\ trail' = IF trail = "unread" THEN "broken" ELSE trail
    /\ UNCHANGED chunk

(* ctx.Err() at the head of a loop, or after a progress row: the run ends  *)
(* as interrupted and the job waits for the next claim.                    *)
Interrupt ==
    /\ pc \in {"write", "verify", "endpass", "checked"}
    /\ mishaps < MaxMishaps
    /\ mishaps' = mishaps + 1
    /\ Forget
    /\ UNCHANGED <<durable, device>>

(* The process dies with the machine: any of the unsynced cells are lost.  *)
PowerLoss ==
    /\ Running
    /\ mishaps < MaxMishaps
    /\ mishaps' = mishaps + 1
    /\ Forget
    /\ \E lost \in SUBSET {c \in Cells : cache[c] # platter[c]} :
          cache' = [c \in Cells |-> IF c \in lost THEN platter[c] ELSE cache[c]]
    /\ platter' = cache'
    /\ UNCHANGED <<durable, dead>>

(* The device or the store returns an error and failJob ends the job.      *)
Fault ==
    /\ Running /\ pc # "checked"
    /\ job' = "failed"
    /\ pc' = "end"
    /\ UNCHANGED <<local, cp, device, mishaps, trail>>

(* The same when the store cannot record the failure either, or the result *)
(* of a run that came to its end: the error is dropped and the job stays   *)
(* claimable.                                                              *)
FaultUnrecorded ==
    /\ Running
    /\ mishaps < MaxMishaps
    /\ mishaps' = mishaps + 1
    /\ Forget
    /\ UNCHANGED <<durable, device>>

Finished == pc = "end" /\ UNCHANGED vars

Work == \/ Start \/ WriteChunk \/ SyncChunk \/ SaveCheckpoint \/ EndPass
        \/ VerifyChunk \/ ReportVerify \/ Conclude
Next == Work \/ StartUnread \/ Interrupt \/ PowerLoss \/ Fault \/ FaultUnrecorded \/ Finished

(* A goroutine that is not killed goes on, and the scheduler's ticker      *)
(* claims an abandoned job again.                                          *)
Fairness == WF_vars(Work)
Spec == Init /\ [][Next]_vars /\ Fairness
-----------------------------------------------------------------------------
Live == Cells \ dead
Sampled == UNION {Ranges[i].start..(Ranges[i].end - 1) : i \in 1..Len(Ranges)}
SoleChunk == CHOOSE n \in ChunkSizes : TRUE

StampType == [pass : -1..Last, start : {0} \cup Cells]

TypeOK ==
    /\ pc \in PcValues
    /\ chunk \in ChunkSizes
    /\ pass \in 0..N /\ offset \in 0..Size /\ mark \in 0..Size
    /\ range \in 1..Len(Ranges) /\ unreported \in Nat /\ clean \in BOOLEAN
    /\ cp \in [pass : -1..Last, offset : 0..Size]
    /\ job \in Unfinished \cup {"verified", "failed"}
    /\ cache \in [Cells -> StampType]
    /\ platter \in [Cells -> StampType]
    /\ dead \in DeadSets
    /\ mishaps \in 0..MaxMishaps
    /\ trail \in TrailValues

(* The checkpoint row is not what the disk holds, nor what the run writes. *)
Stale == trail \in {"unread", "broken"}
(* From the run that did not read it to the end of the first pass, or for  *)
(* good, the cells are not bound to the order of the passes.               *)
Lost == Stale \/ trail = "restarting"

(* Whatever a checkpoint lets a resumed run skip is on stable storage:     *)
(* before its offset the checkpoint's pass, behind it the pass before      *)
(* (engine.go: fsync, then onProgress; README "断点续做如何工作").             *)
(* It holds over every power loss, and again after a run that could not    *)
(* read its row as soon as that run has saved a row of its own.            *)
CheckpointDurable ==
    ~Stale => \A c \in Live : /\ platter[c].pass >= cp.pass - 1
                              /\ c < cp.offset => platter[c].pass >= cp.pass

(* Every pass of the standard reaches every cell, in order, over any       *)
(* number of power losses: what is on stable storage never skips a pass,   *)
(* and goes back only to the first one, under a run that could not read    *)
(* its row (worker.go:178).                                                *)
PassesInOrder ==
    [][trail # "broken" =>
         \A c \in Live : \/ platter'[c].pass \in {platter[c].pass, platter[c].pass + 1}
                         \/ (Lost /\ platter'[c].pass = 0)]_vars

(* A job that ends verified has left the final pattern on stable storage   *)
(* wherever its standard looks, dead sectors or not (engine.go, verify).   *)
VerifiedMeansErased ==
    job = "verified" =>
        \A c \in Sampled : Bytes(platter[c], c).pattern = Passes[N]

(* Verification never fails a disk that took every write, wherever the     *)
(* runs of the job were cut (device.go: "resume after power loss can       *)
(* re-derive any offset independently"), unless one of them had begun      *)
(* again over a row it could not read and was cut before its first save.   *)
NoFalseAlarm == dead = {} /\ trail # "broken" => clean

(* The promise without the exception: an unread row never fails a disk.    *)
NoFalseAlarmAtAll == dead = {} => clean

NotRewrittenOnceRecorded(k) ==
    []((cp = [pass |-> k, offset |-> Size])
          => [](pc = "write" /\ pass = k => trail # "kept"))

(* Once the checkpoint records that a pass has reached the end of the disk *)
(* no later run of the job writes that pass again, for every pass but the  *)
(* final one, as long as every run has read the row.                       *)
EarlierPassesNotRewritten == \A k \in 0..(Last - 1) : NotRewrittenOnceRecorded(k)

(* The same for every pass, as device.go says: "Completed passes are never *)
(* rewritten."                                                             *)
CompletedPassesNotRewritten == \A k \in 0..Last : NotRewrittenOnceRecorded(k)

(* What a power loss costs.  While it overwrites, at most one checkpoint   *)
(* interval and one chunk of the pass at hand are written again; once the  *)
(* pass is recorded, nothing.  During verification the next run verifies   *)
(* from the start, and may first write again what of the final pass lies   *)
(* behind the reader's last saved position, but never an earlier pass.     *)
BoundedRework ==
    ~Stale =>
        /\ pc \in {"write", "sync", "save"} =>
              ResumeAt.pass = pass /\ offset - ResumeAt.offset < Step + chunk
        /\ pc = "endpass" => ResumeAt = [pass |-> pass + 1, offset |-> 0]
        /\ pc \in {"verify", "report", "checked"} => ResumeAt.pass >= Last

(* The job ends: each power loss costs a restart, never the job.           *)
JobEnds == <>(pc = "end")

(* What JobEnds needs of the code: an upper bound on the steps still to    *)
(* come, mishaps included, which every step lowers.  Only fairness and the *)
(* absence of deadlock are left to TLC.                                    *)
ToVerify == (Len(Ranges) - range) * (Size + 1) + S!Most(0, Ranges[range].end - offset)
VerifySteps == 2 * (Len(Ranges) * (Size + 1))
ToWrite == (N - pass) * (Size + 1) - offset
RunSteps == VerifySteps + 4 * (N * (Size + 1)) + 2

LeftOfRun ==
    CASE pc = "end" -> 0
      [] pc = "checked" -> 1
      [] pc = "verify" -> 2 * ToVerify + 1
      [] pc = "report" -> 2 * ToVerify + 2
      [] pc = "endpass" -> VerifySteps + 4 * ToWrite
      [] pc = "write" -> VerifySteps + 4 * ToWrite + 1
      [] pc = "save" -> VerifySteps + 4 * ToWrite + 2
      [] pc = "sync" -> VerifySteps + 4 * ToWrite + 3
      [] pc = "down" -> RunSteps

StepsLeft == (MaxMishaps - mishaps) * (RunSteps + 1) + LeftOfRun
EveryStepCounts == [][StepsLeft' < StepsLeft]_vars

(* The engine implements Wipe: the number of passes that cover the disk,   *)
(* none that is known of while the order of the passes is lost.            *)
Layers == CHOOSE n \in 0..N :
             /\ \A c \in Live : platter[c].pass >= n - 1
             /\ n = N \/ \E c \in Live : platter[c].pass < n
Verdict == IF job \in Unfinished THEN "none" ELSE job
Abstract == INSTANCE Wipe WITH layers <- IF Lost THEN 0 ELSE Layers,
                               lost <- Lost, verdict <- Verdict
ImplementsWipe == Abstract!Spec
-----------------------------------------------------------------------------
(* The inductive invariant.  What a cell's stable content may lag behind   *)
(* what a read returns, how far the overwrite loop and the checkpoint may  *)
(* be apart, and what the reader has already compared.                     *)
Overwriting == pc \in {"write", "sync", "save", "endpass"}
Verifying == pc \in {"verify", "report", "checked"}

(* The latest pass a run may have begun, judged by the checkpoint alone.   *)
Reach == ResumeAt.pass

(* A cell that holds pass k or a later one, or was rewritten by a run that *)
(* had not read the row.                                                   *)
AtLeast(stamp, k) == stamp.pass >= k \/ (Stale /\ stamp.pass = 0)
(* A cell that holds no pass later than the checkpoint lets a run begin,   *)
(* or that a new start has yet to overwrite.                               *)
AtMostReach(stamp, c) == stamp.pass <= Reach \/ (Lost /\ Reach = 0 /\ c >= cp.offset)

CheckpointKept ==
    \A c \in Live : /\ AtLeast(platter[c], cp.pass - 1) /\ AtLeast(cache[c], cp.pass - 1)
                    /\ c < cp.offset => AtLeast(platter[c], cp.pass) /\ AtLeast(cache[c], cp.pass)

CacheAhead ==
    \A c \in Live : /\ \/ trail = "broken"
                       \/ (Lost /\ cache[c].pass = 0)
                       \/ cache[c].pass \in {platter[c].pass, platter[c].pass + 1}
                    /\ AtMostReach(platter[c], c) /\ AtMostReach(cache[c], c)

(* Where the run is that a new start over an unread row has begun.         *)
TrailPlace ==
    /\ trail \in {"unread", "restarting"} =>
          pass = 0 /\ pc \notin {"endpass", "verify", "report", "checked"}
    /\ trail = "unread" => pc # "down"
    /\ trail = "restarting" => Reach = 0

OverwriteProgress ==
    Overwriting =>
        /\ pass <= Last /\ range = 1
        /\ pc # "endpass" => pass = Reach \/ (Stale /\ pass = 0)
        /\ pc = "write" => offset < Size
        /\ \A c \in Live : /\ AtLeast(platter[c], pass - 1) /\ AtLeast(cache[c], pass - 1)
                           /\ c < offset => AtLeast(cache[c], pass) /\ cache[c].pass <= pass
        /\ pc \in {"save", "endpass"} => cache = platter
        /\ pc \in {"sync", "save"} => offset > 0
        /\ pc = "endpass" => cp = [pass |-> pass, offset |-> Size] /\ offset = Size

VerifyProgress ==
    Verifying => /\ pass = N
                 /\ pc = "verify" => offset < Ranges[range].end
                 /\ \A c \in Live : AtLeast(platter[c], Last) /\ AtLeast(cache[c], Last)

(* Before a verification nothing of the final pass is in the cache alone:  *)
(* what the reader compares is what a power loss leaves.                   *)
Flushed ==
    Verifying \/ Reach = N => \A c \in Live : cache[c] = platter[c] \/ cache[c].pass = 0

DeadUntouched == \A c \in dead : cache[c] = platter[c]

Compared(c) == Bytes(cache[c], c).pattern = Passes[N]

ReadSoFar ==
    (Verifying /\ clean) =>
        \A i \in 1..Len(Ranges) : \A c \in Ranges[i].start..(Ranges[i].end - 1) :
            (i < range \/ (i = range /\ c < offset)) => Compared(c)

CheckpointShape == cp.pass = -1 => cp.offset = 0

Outcome ==
    /\ pc = "checked" => range = Len(Ranges) /\ offset >= Ranges[range].end
    /\ pc # "end" => job \in Unfinished
    /\ job = "verified" => \A c \in Sampled : Bytes(platter[c], c).pattern = Passes[N]

(* A chunk is only begun within an interval of the last checkpoint.        *)
ReworkInv ==
    /\ pc \in {"write", "sync", "save"} => offset - mark < Step + chunk
    /\ pc = "write" => offset - mark < Step
    /\ pc \in {"write", "sync", "save"} /\ ~Stale => mark = ResumeAt.offset
    /\ Verifying /\ ~Stale => Reach >= Last

(* When no write was ignored, what is read is the final pass itself, which *)
(* a fixed pattern makes the same wherever its chunk began.                *)
CleanInv == dead = {} /\ trail # "broken" /\ Passes[N] # "random" => clean

(* When every run has the same chunk size and the whole disk is verified,  *)
(* each cell is written and read as a part of the same chunk, so that a    *)
(* random final pass is recognised too.                                    *)
OneChunkSize == VerifyMode = "full" /\ ChunkSizes = {SoleChunk}
Grid == {s \in 0..Size : s % SoleChunk = 0}
OfItsChunk(stamp, c) ==
    stamp = Residue \/ (stamp.start \in Grid /\ c \in stamp.start..(stamp.start + SoleChunk - 1))

AlignedInv ==
    OneChunkSize =>
        /\ offset \in Grid \cup {Size} /\ cp.offset \in Grid \cup {Size}
        /\ \A c \in Cells : OfItsChunk(cache[c], c) /\ OfItsChunk(platter[c], c)
        /\ dead = {} /\ trail # "broken" => clean

(* The checkpoint is past pass k, or a run has not followed it.            *)
Recorded(k) == cp.pass > k \/ (cp.pass = k /\ cp.offset = Size) \/ trail # "kept"

EngineInv ==
    /\ TypeOK /\ CheckpointKept /\ CacheAhead /\ TrailPlace /\ OverwriteProgress
    /\ VerifyProgress /\ Flushed /\ DeadUntouched /\ ReadSoFar /\ CheckpointShape /\ Outcome
=============================================================================
