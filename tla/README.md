# A verification project for the decommission service

The repository (`src/decommission`, Go) is a small service that takes storage
hardware out of use: an asset is registered, a request to decommission it is
approved by somebody else, its disks are pulled and recorded, erasure jobs wipe
them pass by pass and verify the result, every success gets a certificate, and
the asset is finally signed off. This directory holds TLA+ modules of its core
logic, the TLC configurations that check them on small instances, and theorems
about them with proofs for TLAPS.

## 1. The system

| Part | Source (below `src/decommission`) | State it keeps | Operations |
|---|---|---|---|
| Erasure engine | `internal/erasure/engine.go`, `device.go` | local offsets of one run; bytes of the device | `Run`: `overwrite` per pass, `verify`, resume from a checkpoint; `streamAt`, `sampleRanges` |
| Worker: scheduling | `internal/worker/worker.go` `Start`, `Stop`, `fillSlots` | semaphore of slots, `reclaimImmediately`, goroutines | ticker, claim, shutdown |
| Worker: a job | `worker.go` `runJob`, `issueCertificate`, `maybeAssetErasureDone`, `failJob`, `Reverify` | where the goroutine stands | store, device and object-store calls in a fixed order |
| Service: approvals | `internal/service/service.go` `SubmitApproval`, `ReviewApproval`, `WithdrawApproval`, `PullDisks` | none, only what a call has read | two to many store calls each |
| Service: disks | `service.go` `CreateErasureJob`, `ScrapDisk`, `ConfirmDisposal` | the same | the same |
| Domain | `internal/domain` | none | state machines of assets and approvals, table of standards, ids |
| Stores | `internal/store/memory.go`, `pg.go`, `migrations` | assets, disks, jobs with checkpoint and lock, certificates, requests, signatures, audit rows | each method atomic under a mutex (memory) or in a transaction (PostgreSQL) |
| Object store | `internal/objectstore` `fs.go`, `s3.go` | report files by key | `Put`: temporary file, sync and rename, or one request to MinIO; `Get` |
| Certificate numbers | `worker.go` `certNumber`, `helpers.go` | none | the name a certificate and its two objects share |
| Report, HTTP API, config, `cmd` | `internal/report`, `internal/api`, `internal/config`, `cmd` | none | rendering, routing, parsing, wiring |

How they interact. HTTP handlers run concurrently and call the service; the
service and the worker meet only in the store's rows. No service operation is
one transaction: it reads in one store call and writes in others, so every pair
of operations interleaves between store calls. The worker's scheduler goroutine
claims jobs and hands each to a goroutine of its own; the engine calls back
(`onProgress`) to save checkpoints, which are also the job's heartbeat. A
process may be killed or stopped at any point; its rows stay, and the next
process claims what it left. A re-verification requested over HTTP runs inside
the worker and waits for one of its slots. Below the service, a PostgreSQL store
call is several statements that wait for each other's locks and for a pooled
connection; a report is two uploads whose names the certificate's row repeats.

What is hard here: power loss between a write, its fsync and its checkpoint;
the page cache losing any subset of unsynced blocks; a resume cursor shared by
overwriting and verifying, and a checkpoint row that cannot be read; claims
over restarts, expired heartbeats and failing calls; a job failed behind the back
of its goroutine; the five writes that follow a successful wipe, with a crash or a failing call after
any of them; operator requests that judge one reading of a row and write on
another; transactions that read without a lock, wait for each other, or need one
more connection; uploads that are late, lost, or torn by a power loss, and
certificate numbers that two jobs share. `PROJECT.json` lists each of these hazards at its line.

What makes each part correct:

* engine: what a checkpoint lets a resumed run skip is durable; each block goes
  through the passes in order; a verified disk holds the final pattern; a good
  disk is not failed; a mishap costs a bounded amount of rework; the job ends;
* queue: no job has two goroutines; a job that is finished and left stays so;
  every job ends for good;
* approvals: one open request, nobody decides their own, execution only after
  somebody else approved, no version number skipped;
* PostgreSQL store: it commits only what the memory store could do in one
  critical section; one open request; the signature and the asset's last status
  are never apart; every call returns;
* archive: nothing torn is ever shown; an issued certificate can be downloaded,
  and matches the digest in its row; an upload never holds a worker for ever;
* a job and its disk: certificate only after the disk was flipped, always with
  its report; results are not lost; a disk does not stay in `erasing`; no asset
  is declared erased with an untreated disk; one signature, by an allowed method.

## 2. Modules

```
 Wipe           <--implements--  ErasureEngine  --uses-->  Keystream, Sampling
                                 StreamFill fills buffers with the bytes of Keystream
                                 SampleLayout makes the layouts of Sampling
 RequestBook    <--implements--  Approval
                                 JobQueue
 AssetLifecycle <--implements--  Decommission
 MemoryStore    <--implements--  PgStore
 Archive        <--implements--  ReportArchive        (CertNumber: its keys)
```

| Module | Models | Run through |
|---|---|---|
| `Keystream` | what determines a byte of a pass: the closed form the engine uses | `MCFunctions`, `MCErasureEngine` |
| `StreamFill` | the loop of `streamAt` that fills a buffer for a random pass | `MCFunctions` |
| `Sampling` | the spans of a sample: head, tail and windows | `MCFunctions`, `MCErasureEngine` |
| `SampleLayout` | the loop of `sampleRanges` | `MCFunctions` |
| `CertNumber` | `certNumber`: which jobs share a certificate number | `MCFunctions` |
| `ErasureEngine` | one job on one disk, over restarts and power losses | `MCErasureEngine` |
| `Approval` | the request workflow and the pull it gates | `MCApproval` |
| `JobQueue` | the claim, the slots and the lives of worker processes | `MCJobQueue` |
| `Decommission` | one approved asset from the pull to the signature | `MCDecommission` |
| `PgStore` | the transactions on one asset's rows, statement by statement | `MCPgStore` |
| `MemoryStore` | the same rows under the mutex of `memory.go`; what `PgStore` implements | `MCPgStore` |
| `ReportArchive` | the uploads and the row of `issueCertificate`, over both object stores | `MCReportArchive` |
| `Wipe`, `RequestBook`, `AssetLifecycle`, `Archive` | abstract specifications; they translate no code | as properties |
| `*_proofs` | theorems about the module they are named after; `Functions_proofs` about `StreamFill`, `SampleLayout` and `CertNumber` | TLAPS |

The component modules divide the code along its store rows. `Decommission`
contains the pull, the job and the signature because those share the asset's and
the disks' rows. It leaves to `Approval` who may start a pull and what
overlapping pulls do, to `JobQueue` how a goroutine gets its job (in
`Decommission` a job has at most one goroutine, which is what `JobQueue` proves),
to `ErasureEngine` what happens between two checkpoints (in `Decommission` a
wipe passes, finds mismatches or fails), and to `ReportArchive` what an upload
is. `Approval` and `Decommission` take each store call as one step; that is the
code of the memory store, and `PgStore` shows that PostgreSQL gives the same
steps on the rows of an asset, with one exception (a withdrawal).

### How state and actions correspond to the code

**ErasureEngine.** `pass`, `offset`, `mark`, `range`, `unreported`, `clean` are
the local variables `passIdx`, `offset`, `lastCheckpoint`, the loop over spans,
`sinceReport` and `mismatches == 0`; `cp` and `job` are the job's durable row;
`cache` and `platter` are what a read returns and what survives a power loss.
One turn of a loop is one action: `WriteChunk`, `SyncChunk`, `SaveCheckpoint`,
`EndPass`, `VerifyChunk`, `ReportVerify`. `Start` is claim, checkpoint read and
the resume rule at the head of `Run` (`ResumeAt`); in its part `StartUnread` the read
fails, which the worker ignores: the run begins at pass 0 while the old row stays, and
counts as a mishap. `Conclude` writes the rows from the result, of which the last
progress row may be lost. The unit of the device is one 64-byte keystream block ("cell"); a cell
holds the stamp of its last write, from which `Keystream` derives the bytes.
`PowerLoss` lets each unsynced cell be lost or kept independently. `Interrupt`
is a cancelled context, `Fault` any error that `failJob` records,
`FaultUnrecorded` one it cannot record, or a result whose write fails. `dead` cells
swallow writes silently.
`trail` is a history variable that no action reads. It says whether every run has read
its checkpoint (`kept`), the present one begins again without it and has saved nothing
yet (`unread`), has replaced the row (`restarting`) and finished its first pass
(`restarted`), or was cut before its first save (`broken`): then the old row speaks
of cells that were rewritten since. The properties name the stages they hold in.

**Keystream, StreamFill.** Documents of the repository speak of ChaCha8; the code uses
ChaCha20. `blockBuf` is source and destination of `XORKeyStream` and is not
cleared, so after the k-th block it holds the XOR of blocks 0..k of the chunk.
`StreamFill` is the loop: `SkipHead` the part behind an offset within a block,
`FillBlock` one turn, `Overflow` the panic of the cipher, `SetCounter` the truncation
to 32 bits. `Keystream` is what the loop computes (`Scratch`, `StreamAt`), which the
engine's model uses for the bytes of a chunk; `BytesDependOnChunkStart` says that the
two agree.

**Sampling, SampleLayout.** One turn of `sampleRanges` is `DrawWindow`; the generator is
any sequence of values in its range, as its seed is a hash of the job id. The engine's
model is given any layout (`Layout`), and `IsLayout` says that the loop makes one.

**JobQueue.** A slot is a token of the semaphore with the goroutine that holds
it. `TakeSlot` reads `reclaimImmediately` before the store is asked, as
`fillSlots` does; `AcquireNextJob` is the store's claim. The memory store makes it in
one critical section. The transaction of PostgreSQL locks the row first (stage
`picked`), which holds up every other write to it (`Locked`), and then commits
(`CommitClaim`) or rolls back (`GiveUp`); SKIP LOCKED passes over a row that some
transaction may hold (`InUse`), or finds none (`MayFindNone`). The backends differ
further in `Cancelled` (PostgreSQL calls fail under a cancelled context: `CallFails`),
`Orphans` (PostgreSQL checks the owner in the restart case only), `MayPick` (PostgreSQL
orders, the memory store walks a map), `MarkJobRunning` (no heartbeat in PostgreSQL), and
`Fault`: any PostgreSQL call may fail while its process goes on, which ends the
goroutine and leaves the row (`StoreFails`) or is dropped (`VerifiedUnwritten`).
`ScrapDisk` reads a job as open and `CloseJob` fails it later, whatever has become of it.
No status write asks what the row says, so a goroutine that still has the job
brings it back. A process instance is a lock name used once; a restart is the next
instance. `Reverify` waits for a token in line, while `fillSlots` only tries for one; it
is not in the worker's wait group and runs under the request's context, so `Exit` does
not wait for it.

**Approval.** One action per store call; `call[c]` holds the program counter of
a request and what it has read. `Abandon` is an early return between two store
calls, a failing call or a client that goes away.

**Decommission.** `run[j]` is the call of `runJob` that comes next, `call[c]`
the one of an operator's request. Every dropped error of the code (`_ =`, or
logged only) is a disjunct under `Faults` that leaves the row alone and goes on;
every error that returns is `GiveUp`, `FailJob` or `Abandon`. `assetLog` and
`diskLog` are the statuses the append-only audit trail shows. A certificate's
number is disk and attempt: one day and distinguishable serials are assumed.
`SaveProgress` may set `running` or `verifying` any number of times.
`EarlyQueue` says whether operators act on a disk whose pull still goes on,
which the code allows.

**PgStore.** One action per SQL statement, under READ COMMITTED. `asset`,
`approval` and `signed` are the committed rows. A transaction's locks (the
asset's row, a selected approval row, the key of a new confirmation, the asset's
entry in `uniq_active_approval`) are not stored: `HasAsset`, `HasRow`,
`HasSignature` and `HasOpenEntry` read them off the statements it has executed.
`SelectAsset` and `UpdateApproval` look at the asset without a lock, as the query
and the trigger do. `Fail` and a refused check are the deferred `Rollback`;
`Begin` needs one of `MaxConns` connections and keeps it. The Go code's checks
and the triggers' are stated once where they agree.

**ReportArchive.** `object` is what a `Get` finds, `entry` the name's file on the
disk itself, `flight` the requests MinIO may still carry out, `cert` the row
with the digest. `Copy`, `Sync`, `Rename` are the steps of `Filesystem.Put`. The
directory is not synced, so names reach the disk at some time (`Writeback`) and
`PowerLoss` takes back those that have not. `Send`, `Apply`, `Drop`, `TimeOut` are
an upload to MinIO whose request may be carried out after the client has
given up. `Start` may happen again for a job whose last writes failed
(`MaxIssues`).

**CertNumber.** Characters are strings of length one; the widths are constants
(12, 8 and 3 in the code). `sanitize` drops what is not alphanumeric and cuts,
`shortSerial` keeps the end, `Padded` grows beyond its width.

Definitions whose comment begins "A bug:" are not part of any specification.
Each is a plausible mistake in the definition it is named after; `PROJECT.json`
pairs it with the property that must catch it.

## 3. Runs

Every listed run is `tlc -config <cfg> <module>`.

| Run | Instance | What it checks and shows |
|---|---|---|
| `pure_functions` (`MCFunctions.cfg`) | chunks of 1..6 bytes at 0..17 with 2-byte blocks and a 2-bit counter; disks of 1..9 bytes with windows of 2, any target and any draws, at most 5 spans; tags and serials of up to 3 characters | `BytesDependOnChunkStart`, `DividingChunksNeverPanic`, `SpansCoverEnds`, `SampleBudget`, `NumberDeterminesFields` |
| `engine_dod` (`MCErasureEngine_dod.cfg`) | three passes, 13 cells, chunks of 2, checkpoints every 3, any one dead cell, three mishaps, unreadable checkpoint rows among them | the engine's safety, its liveness `JobEnds`, and that it implements `Wipe` |
| `engine_sample` (`MCErasureEngine_sample.cfg`) | one pass, sample of three windows, three mishaps | the verdict is right when only a sample is read, and over several ranges |
| `approval` (`MCApproval.cfg`) | owner and two officers, three overlapping calls, two requests, two disks | `OneActive`, `NoSelfReview`, `ExecutionWasApproved`, `VersionsWithoutGaps`, and that the rows implement `RequestBook` |
| `queue` (`MCJobQueue.cfg`) | memory store, two successive processes of two slots, two jobs, a re-verification, scrapping, heartbeats that expire | `NoDoubleExecution`, and the liveness `JobsEnd` |
| `queue_postgres` (`MCJobQueue_postgres.cfg`) | PostgreSQL, two successive processes of one slot, two jobs, scrapping, two failing calls besides the cancelled ones | `SettledForGood`, and the liveness `JobsEnd` |
| `queue_selfsteal` (`MCJobQueue_selfsteal.cfg`) | PostgreSQL, one process | refutes `NoDoubleExecution`: see Findings |
| `decommission` (`MCDecommission.cfg`) | two disks, two jobs, one request at a time, nothing dies or fails | `NoDiskForgotten`; `DiskLeavesErasing` and `EverySuccessCertified` under fairness |
| `decommission_faults` (`MCDecommission_faults.cfg`) | one disk, one job, two overlapping requests, any call may fail, one crash | `CertifiedAfterFlip`, `CertificateHasReport`, `VerifiedJobKept`, and that the asset implements `AssetLifecycle` |
| `decommission_stuck` (`MCDecommission_stuck.cfg`) | one disk, one crash | refutes `DiskLeavesErasing`: see Findings |
| `pg_store` (`MCPgStore.cfg`) | three calls at once, two connections, two requests, failures anywhere | `OneOpenRequest`, `SignedIffDisposed`, `LateWithdrawalRefused`, the liveness `CallsReturn`, and that the commits implement `MemoryStore` |
| `report_archive` (`MCReportArchive.cfg`) | both object stores, three jobs of which two share a number, two crashes or power losses | `WholeObjects`, `CertificatesDownload`, `DigestMatches`, the liveness `IssueEnds`, and that both stores implement `Archive` |

The type invariants (`TypeOK`) of all component modules are not among the runs:
each is proved for every value of the constants (section 4).

### Bounds, and why they are enough

* `MaxMishaps` (engine): two suffice for a loss, a resume and a loss during the
  rework of the first, a third for a run over an unread row that is cut before its
  first save and once more on the way back; three passes have a first, a middle and a last one.
  13 cells with chunks of 2 and a step of 3 make the last chunk shorter than the
  others, checkpoints fall inside passes, and verification long enough to report
  before its end (`4 * Step` cells).
* `Offsets`, `BufLens` (bytes): offsets run past two counter periods of 8 bytes.
* `Sizes`, `MaxSpans`: disks below, at and above one and two windows, and large enough
  that the loop ends at its target on some and at the bound on spans on others.
* `Ids`, `Calls`, `BatchSizes`, `MaxDisks` (approvals): two rows for one open
  request, a third call to interfere with a race of two, a pull of one disk and
  one that can be cut in the middle.
* `Instances` bounds stops and crashes: an instance may die only while another
  one is left to replace it. Two are a death and a restart; the theorems hold for any
  number.
* `MaxFaults`: two are a failed call and a failure while the job it left behind is
  taken up again. `queue_postgres` has one slot because with more a process can claim its
  own job again and again (see `queue_selfsteal`), and then nothing ends.
* `MaxJobs`: two jobs compete for slots, and are two attempts on one disk or one
  on each. The theorems cover the combinations too large for TLC (two jobs racing
  for one certificate number, with faults and crashes).
* `MaxCrashes` (`Decommission`): one crash puts any prefix of a job's writes on
  record.
* `MaxReverify`: one re-verification competes with two slots' jobs.
* `Calls`, `Ids`, `MaxConns` (PostgreSQL): two transactions that conflict and a third
  that they may both wait for, fewer connections than calls, a request to be
  created while another is closed. `Ids` also bounds `CreateApproval`.
* `Jobs`, `Numbers`, `MaxIssues`, `MaxCrashes` (archive): two jobs that overwrite
  each other's objects beside one that nobody else should touch; a power loss, and
  one more while the first is being repaired. `DigestMatches` is about numbers used
  once, so one issue per job is enough; the theorems hold for any number.
* `MaxName`, `Attempts`, the widths (numbers): names longer than a field, attempts
  at and beyond the padded width.

`CHECK_DEADLOCK FALSE` stands in the `Decommission` and `ReportArchive` instances
only: once every disk is treated, the jobs are used up and the asset is signed,
nobody has anything to ask for; once every issue is used up and every request
settled, nothing is left to store.

Instances of a process and its lock names are interchangeable until used, so
`Start` takes the one `CHOOSE` names; this is what keeps `queue` small.

### Fairness

* `ErasureEngine`: `WF(Work)`. A goroutine that is not killed goes on, and the
  ticker claims an abandoned job again. Mishaps are not fair and are bounded.
* `JobQueue`: weak fairness of each instance's start, exit and scheduler
  (`time.Ticker`), of the timers and the clock (`GraceEnds`, `Expire`), of each
  goroutine's next call, and of a ScrapDisk that is being served (`CloseJob`).
  Starting is fair because an operator or a supervisor replaces a dead process;
  a re-verification ends because reading a device does. Stops, crashes, failing calls, new
  jobs and new re-verifications are not fair, and `JobsEnd` needs the latter to leave a slot
  free: with `MaxReverify` raised to the number of slots, `MCJobQueue.cfg` shows
  requests in line for tokens starving `fillSlots`. For PostgreSQL `JobsEnd` is
  claimed with one slot: with more, a job can change hands within its process for ever.
  Its mutant `Orphans_OthersOnly` is the obvious repair of that finding, and shows what it
  would cost: a row left by a failed call would wait for the next restart.
* `Decommission`: weak fairness of each goroutine and of each request in
  progress. Nobody owes a request: `Ask`, `Pull`, `Crash` are not fair.
* `PgStore`: strong fairness of each call's next statement. PostgreSQL queues the
  waiters of a lock, so one that is free again and again is granted in turn; nothing
  is assumed of `Begin`. `CallsReturn` therefore says that the order in which the
  statements take locks and connections cannot deadlock.
* `ReportArchive`: weak fairness of a goroutine's own steps while its process lives,
  the HTTP client's timeout among them. The server, lost requests, write-back and
  crashes owe nothing.
* `Approval` states safety only.

## 4. Proofs

All theorems hold for every value of the constants within the named assumptions
of the modules.

| Module | Theorems | Invariant |
|---|---|---|
| `ErasureEngine_proofs` | `EngineTypeCorrect`, `CheckpointAlwaysDurable`, `VerifiedAlwaysErased`, `PassesAlwaysInOrder`, `EarlierPassesStayWritten`, `ReworkAlwaysBounded`, `NeverFalseAlarm`, `SteadyChunksNeverFalseAlarm`, `EngineStepsAreBounded`, `EngineImplementsWipe` (safety part) | `EngineInv`, `ReworkInv`, `CleanInv`, `AlignedInv` |
| `Approval_proofs` | `ApprovalTypeCorrect`, `NeverTwoOpenRequests`, `NeverSelfReviewed`, `ExecutionAlwaysApproved`, `VersionsNeverSkip`, `ApprovalImplementsBook`, `SerialCallsKeepPromises` | `ApprovalInv`, `VersionInv`, `SerialInv` |
| `JobQueue_proofs` | `QueueTypeCorrect`, `SettledAlwaysForGood`, `NeverExecutedTwice`, `NoJobEverStranded` | `BasicInv`, `QueueInv` |
| `Decommission_proofs` | `DecommissionTypeCorrect`, `AlwaysCertifiedAfterFlip`, `EveryCertificateHasReport`, `VerifiedJobsAreKept`, `DecommissionImplementsLifecycle`, `NoDiskEverForgotten`, `ErasingAlwaysAttended`, `SuccessAlwaysOnItsWay`, `OneCallerReportsCertified`, `OneCallerSuccessCertified` | `DecommissionInv`, `ReportsOK`, `PatientInv`, `AttemptsInv` |
| `PgStore_proofs` | `PgTypeCorrect`, `IndexKeepsOneOpen`, `SignatureIsAtomic`, `LateWithdrawalAlwaysRefused`, `PgImplementsMemoryStore`, `NeverDeadlocked` | `PgInv`, `StagesOK` |
| `Functions_proofs` | `EndsAlwaysSampled`, `SampleWithinBudget`, `LoopMakesLayout`, `BytesFromChunkStart`, `DividingChunksSafe`, `NumberReadsBack` | `LayoutInv`, `FillInv` |
| `ReportArchive_proofs` | `ArchiveTypeCorrect`, `NoTornObject`, `CertificatesAlwaysDownload`, `DigestAlwaysMatches`, `StoresImplementArchive`, `SoleReportsAreImmutable`, `CertificatesSurviveOnMinio` | `ArchiveInv` |

**Engine.** "The checkpoint is durable" is not inductive: it must be known how
far the cache may run ahead of the platter (`CacheAhead`), what the loop has
written before its offset and that nothing is unsynced when the checkpoint row
is written (`OverwriteProgress`), that verification begins only with every pass
durable (`VerifyProgress`), that a dead cell's content is the same in cache and
platter (`DeadUntouched`), and that a clean reader has compared what lies behind
it (`ReadSoFar`). `PowerLoss` is the step all of these are for. Passes in order
and the refinement of `Wipe` follow from the same invariant.

An unreadable checkpoint row makes exceptions, which the statements name by `trail`. While
the run has saved nothing (`Stale`) the row is not what the disk holds, so
`CheckpointDurable` and `BoundedRework` pause; cells may go back to the first pass until
that pass is over (`Lost`), for which `Wipe` has a step of its own (`lost`); from its
first save on the row is true again. A run cut before its first save leaves a row
that is wrong for good: then only `VerifiedMeansErased`, the variant of `JobEnds` and the
types are promised, since verification finds what was skipped and fails the disk
(`MCErasureEngine_unread.cfg`).

`BoundedRework` says what a loss costs in each phase: an interval and a chunk while
overwriting, nothing of a recorded pass at its end, and in verification the whole
reading and what of the final pass lies behind the last saved position, but no
earlier pass. The first needs to know that a chunk is begun only within an interval
(`ReworkInv`). That a good disk is not failed (`NeverFalseAlarm`) is proved for
standards whose last pass is a fixed pattern, for any chunk sizes. With a random last
pass it is false once the chunk size changes; `SteadyChunksNeverFalseAlarm` proves it
for one chunk size and full verification, because then every run writes and reads
chunks that begin at the same places (`AlignedInv`). It is not claimed for a sample of
a random last pass: a window begins inside a chunk and is read as a chunk of its own.
`EngineStepsAreBounded` gives the variant behind `JobEnds`: `StepsLeft` counts the steps
of a run that starts from nothing once for every mishap still to come, and what is left
of the present run; every step lowers it.

**Approvals.** A waiting call must keep what it read true enough: a reviewer is
not the applicant of a row that exists (rows never change their applicant), and
a pull that passed the gate has a row that somebody else approved, even if it
was withdrawn since. One open request follows from the store's second look alone.
`SerialCallsKeepPromises` says what overlap costs: of the four promises that
`MCApproval_promises.cfg` refutes, three hold when the server handles one request at a
time (`OneCall`), abandoned and failing calls included, because what a call has read is
then still true when it writes (`SerialInv`). `VersionsDistinct` is not among them: a
listing that fails is enough to use a version twice.

**Queue.** `BasicInv` and `SettledAlwaysForGood` hold over both stores whatever
processes overlap and whichever calls fail. They rest on the row lock of a claim: a job
that a transaction has picked is still one it may claim when it commits (`PickedInv`), as
every other write waits, and a job that no goroutine has is only ever made `failed`.
`NeverExecutedTwice` assumes `OneProcess`: no two processes live at a time,
and the store is the memory store or no heartbeat grows old. The run
`queue_selfsteal` and `MCJobQueue_overlap.cfg` show that neither part can be dropped. The
invariant (`OwnsItsJob`) ties a goroutine to its row: the row names the goroutine's
process as owner and has left the queue, so that this process can neither pick it as
pending nor reclaim it. The status need not be one under way: ScrapDisk may have failed the
job meanwhile. `NoJobEverStranded` adds that no release of a slot forgets the row: a job
under way has a goroutine, or belongs to a process that is stopping or gone, from which
a later claim takes it. It assumes besides that no call fails while its process goes on
(the memory store, or `MaxFaults = 0`): an error in `MarkJobRunning` leaves a running row that a
living process owns. Such a row is taken up again once its heartbeat has expired,
which is `JobsEnd` of `queue_postgres`.

**Decommission.** `JobsOK` says a row is verified only by its own goroutine's
last writes, `CallsOK` what a request may still rely on when its write lands (a
signature waits only on an asset that can be signed, and `destroy` only on one
that is not `erasure_verified`), `LogsOK` that the flip is in the trail before the goroutine
goes on. `ReportsOK` is inductive relative to these: a stored report was made
from a row whose disk and attempt never change. `NoDiskEverForgotten` assumes
`EarlyQueue = FALSE` and adds `PullOver` (every disk has its row before the first
job exists) and `FinishOK` (the goroutine that may move the asset has seen every
disk treated). `MCDecommission_early.cfg` shows why the assumption is needed.
Four theorems say what mishaps and overlapping requests cost. Without crashes and failing
calls (`NoMishaps`) a disk in `erasing` has a goroutine that is about to move it on, a
failed job leaves its disk to the operator (`ErasingAlwaysAttended`), and a verified job's
number is certified or about to be (`SuccessAlwaysOnItsWay`), however many requests
overlap. With one request at a time (`OneCaller`) attempts are counted one by one, so no
two jobs share a certificate number (`AttemptsInv`, with crashes and faults), and a
certificate's report is its own; with both assumptions every success is certified in its
own name or on the way there. `MCDecommission_stuck.cfg`, `_fault.cfg`, `_uncertified.cfg`
and `_report.cfg` show that the assumptions cannot be dropped.

**PostgreSQL store.** The committed rows alone are not inductive: `PgInv` adds that
what a transaction has read or written under a lock stays true of the committed
rows while it holds the lock (`TxOK`), and that no two transactions hold
conflicting locks (`Apart`). The refinement maps each commit to the memory
store's critical section and every other statement to a stutter. A withdrawal's reads of
the asset hold no lock, hence `LateWithdrawal <- TRUE` in the refinement;
`LateWithdrawalAlwaysRefused` says what is left of the promise: a withdrawal that
began after execution had started is refused. `NeverDeadlocked` follows the chains of
waiting (`Waits`): one that waits for a lock waits for a transaction that can execute its
next statement, or over one other for such a one. That each statement exists for the
call's kind is `StagesOK`; that `Granted` is ENABLED is checked by TLC (`GrantedIsEnabled`
in `MCPgStore`, added to `MCPgStore.cfg` by hand).

**Archive.** `ArchiveInv` says that every document in a file, in a request or behind
a row was issued under the number it is found at, that every file is whole and
on the disk before it has its name, and what an issue has uploaded so far stays there
while it goes on (a power loss ends it). The digest theorem combines this with the
fact that a number used once has a single document. Two theorems say what is left of
promises that section 5 refutes: the report of a number used once never changes, short of
a power loss of the filesystem, and on MinIO issued certificates keep both documents.

**Functions.** The loops of `streamAt` and `sampleRanges` are specifications of their
own, so that what they compute is an invariant and no recursion has to be unfolded.
`LayoutInv` says that head and tail come first and whole windows at drawn offsets after
them; that the budget holds also needs that a disk of at most one window is complete at
the start. `FillInv` says that the scratch block holds the XOR of the blocks from the
first one to the counter, and every filled byte the XOR up to its own block. That a
certificate number determines its fields is a fact about texts: fields without a dash
can be read back from the joined text, and a padded number from its digits. The latter
is an induction; it is done by least counterexamples (`LeastNat`, from the library's
theorem that `<` is well-founded), as is `PowersOfTen`, the existence of the
recursive function the digits are computed with.

Only model-checked: the liveness properties (`JobEnds`, `JobsEnd`,
`DiskLeavesErasing`, `EverySuccessCertified`, `CallsReturn`, `IssueEnds`, and the
liveness part of `Wipe`), because fairness and ENABLED are outside the prover. The
safety half of the first five is proved: a bounded number of steps, nobody stranded, or
always a next step for somebody. The strengthened invariants these proofs use
(`SerialInv`, `NoJobStranded`, `AttemptsInv`, `ErasingAttended`, `SuccessOnItsWay`,
`StagesOK`, `NoDeadlock`, `SoleReportImmutable`, `SurvivesOnMinio`, and `EveryStepCounts` as a
property) also hold when they are added by hand to `MCApproval_promises.cfg` with
`Calls = {c1}`, `MCJobQueue.cfg`, `MCDecommission.cfg`, `MCPgStore.cfg`,
`MCReportArchive.cfg` and the engine's configurations.

## 5. Findings

Two disagreements between the code and what the repository says of it are runs
of the project:

* `queue_selfsteal`. The heartbeat branch of the PostgreSQL claim does not
  exclude the process' own jobs; a slow chunk makes it run a job twice at once.
* `decommission_stuck`. The job row becomes verified before the disk row does; a
  crash in between leaves the disk in `erasing`, where neither a retry nor
  scrapping is accepted.

Further promises of comments and documents that overlapping calls, crashes or
failing calls break. Each is stated in its module and refuted by its
configuration, which is not among the runs of `PROJECT.json` (or by the change to a
listed one that the table names). A configuration named for several properties is
run with one of them left in at a time:

| Configuration | Property | Counterexample |
|---|---|---|
| `MCFunctions.cfg` with this invariant | `OffsetIndependent` | `streamAt` never clears its 64-byte scratch buffer: a byte of a random pass depends on where its chunk began, not on its offset alone |
| `MCFunctions.cfg` with this invariant | `SampleMeetsShare` | windows that overlap, and the bound of 4096 spans on a large disk, leave a sample short of its share |
| `MCErasureEngine_rechunk.cfg` | `NoFalseAlarm` | a restart under another chunk size |
| `MCErasureEngine_unread.cfg` | `NoFalseAlarmAtAll` | a run that could not read its checkpoint is cut before its first save; the old row then skips the cells it has rewritten with the first pattern |
| `MCErasureEngine_rewrite.cfg` | `CompletedPassesNotRewritten` | verification saves its position as the resume cursor; the tail of the final pass is written again |
| `MCApproval_promises.cfg` | `ExecutionHoldsApproval` | withdrawn between the gate of a pull and its end |
| `MCApproval_promises.cfg` | `DecidedOnce` | two reviewers read one pending request |
| `MCApproval_promises.cfg` | `VersionsDistinct` | a version computed before another request was filed and closed |
| `MCApproval_promises.cfg` | `DisksOnlyWhilePending` | the slower of two pulls |
| `MCJobQueue_overlap.cfg` | `NoDoubleExecution` | a second process reclaims a living one's jobs at its start |
| `MCJobQueue_scrap.cfg` | `FinishedStaysFinished` | the goroutine of a job that `ScrapDisk` has failed writes its status once more |
| `MCJobQueue_scrap.cfg` | `PendingInOrder` (as `INVARIANT`) | `ScrapDisk` fails a later job first; in other instances, an orphan that the memory store meets between two pending jobs, and a locked row that PostgreSQL passes over |
| `MCDecommission_early.cfg` | `NoDiskForgotten` | a disk queued, or scrapped, while its pull still records others: the asset is declared erased before, or without, the treatment of the later ones |
| `MCDecommission_promises.cfg` | `ScrappedForGood` | a claimed job wipes a disk scrapped meanwhile |
| `MCDecommission_jobs.cfg` | `OnePendingPerDisk` | two requests before a worker starts the first |
| `MCDecommission_fault.cfg` | `FailedAwaitsDecision` | `failJob` leaves the disk in `erasing` |
| `MCDecommission_uncertified.cfg` | `EverySuccessCertified` | a crash before the certificate is saved |
| `MCDecommission_promises.cfg` | `AllDoneReachesAsset` | the worker overtakes the request that queued its job |
| `MCDecommission_promises.cfg` | `ErasedOnlyWhenDone` | a re-verification fails a disk between the listing and the transition |
| `MCDecommission_promises.cfg` | `ScrappedIsDestroyed` | a scrapped asset signed off for resale |
| `MCDecommission_report.cfg` | `ReportIsCertified` | two jobs with one attempt number |
| `MCPgStore_withdraw.cfg` | `WithdrawnBeforeStart` | a pull commits between a withdrawal's last look at the asset and its commit |
| `MCReportArchive_immutable.cfg` | `ReportsImmutable` | a second job with the number of the first overwrites its report; the row keeps the first digest |
| `MCReportArchive_survive.cfg` | `CertificatesSurvive` | the row is committed, the directory with the report's name was not synced |

## 6. Not modelled

* HTTP routing, decoding and queries, the text of the reports, configuration
  parsing, the demo command, the S3 client's signatures and key escaping,
  `EnsureBucket`, temporary files that a crash leaves behind: formatting or input and
  output. (The printable certificate is rendered before the report's key and digest
  are known, and shows them empty; this is such a matter of text.)
* Registration of assets and all queries: one insert, or no change of state.
* `RunRow` history and audit rows beyond the statuses they show.
* The SQL is taken as intended: PostgreSQL refuses `FOR UPDATE` on the nullable side
  of the outer join in `AcquireNextJob` and the bare column name `offset`. Statements on
  disks, jobs and runs are single rows or guarded by one claim; they are one step.
* A graceful `Stop` in `Decommission`: what it leaves behind is a case of `Crash`.
* Several assets and several days; colliding serials are in `CertNumber` and
  `ReportArchive` only.

## 7. Plan

Done, in this order: (1) `ErasureEngine` with `Keystream` and `Sampling`, (2)
`Approval`, (3) `JobQueue`, (4) `Decommission`, each with its abstract
specification where one says something, its runs and its proofs; (5) `PgStore`,
which implements `MemoryStore`; (6) `ReportArchive` with `CertNumber`, which
implements `Archive`; (7) the theorems on bounded rework, false alarms, rewritten
passes, versions and finished jobs; (8) slots shared by jobs and
`Reverify`; (9) the loops behind `Keystream` and `Sampling`, and the theorems on them;
(10) the safety halves of the liveness properties, and what remains of the refuted promises
when nothing overlaps or fails.

Left:

1. a composition of `JobQueue` and `Decommission`: the same job row under the
   claim, scrapping and the writes of an older goroutine;
2. the whole of `ScrapDisk` at the level of PostgreSQL's statements (`JobQueue` has its
   write to the job row and the locks of the claim);
3. run rows, whose last update is lost when PostgreSQL sees the cancelled context,
   and what a failed re-verification of an already signed asset should mean.
