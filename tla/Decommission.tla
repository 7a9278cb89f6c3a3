----------------------------- MODULE Decommission -----------------------------
(***************************************************************************)
(* One approved asset from the pull of its disks to the signed disposal:   *)
(* CreateErasureJob, ScrapDisk and ConfirmDisposal of internal/service and *)
(* runJob and Reverify of internal/worker, each a sequence of store calls, *)
(* with all the interleavings of the operators' requests and of the worker *)
(* goroutines, failing calls, and a process that dies and is restarted.    *)
(*                                                                         *)
(* The approval gate and overlapping pulls are in Approval, the claim in   *)
(* JobQueue, the wipe itself in ErasureEngine: here a job has at most one  *)
(* goroutine, and a wipe passes or finds mismatches.  The standard of a    *)
(* job is the approved one and does not vary.  A log holds the statuses    *)
(* that the append-only audit trail shows for a row.                       *)
(***************************************************************************)
EXTENDS Integers, FiniteSets

CONSTANTS
    Disks,           \* the disks of the asset
    NoDisk,
    MaxJobs,         \* bound on the erasure jobs created
    Calls,           \* operator requests handled at the same time
    Methods,         \* methods an operator may ask to sign
    ApprovedMethod,  \* the method of the approved request
    Unsigned,        \* no disposal row
    MaxCrashes,      \* bound on the deaths of the process
    Faults,          \* TRUE when store, device and upload calls may fail
    EarlyQueue       \* TRUE when operators act on a disk before the pull is over

ASSUME DecommissionAssumption ==
    /\ NoDisk \notin Disks
    /\ MaxJobs \in Nat \ {0} /\ MaxCrashes \in Nat
    /\ Faults \in BOOLEAN /\ EarlyQueue \in BOOLEAN
    /\ ApprovedMethod \in Methods /\ Unsigned \notin Methods

Jobs == 1..MaxJobs
Attempts == 0..(MaxJobs - 1)

VARIABLES
    asset,     \* status of the asset
    assetLog,  \* statuses in its audit trail
    disk,      \* status of each disk row; "none" before its creation
    diskLog,   \* statuses in its audit trail
    job,       \* the job rows; status "none" before creation
    run,       \* where the worker goroutine of each job stands
    report,    \* per certificate number: the job whose report is stored; 0 none
    cert,      \* per certificate number: the job certified; 0 none
    disposal,  \* the method signed for, or Unsigned
    call,      \* program counter and local variables of each request
    crashes    \* deaths of the process so far

rows == <<asset, assetLog, disk, diskLog, job, report, cert, disposal>>
vars == <<rows, run, call, crashes>>

AssetStatus == {"pending", "disk_pulled", "erasing", "erasure_verified",
                "scrapped", "disposed"}
DiskStatus == {"none", "pulled", "erasing", "verified", "failed", "scrapped"}
JobStatus == {"none", "pending", "running", "verifying", "verified", "failed"}
Job == [disk : Disks \cup {NoDisk}, status : JobStatus, attempt : Attempts]
NoJob == [disk |-> NoDisk, status |-> "none", attempt |-> 0]

(* Stages of runJob: the call that comes next.                             *)
RunStages == {"idle", "mark_running", "mark_erasing", "wiping", "mark_failed",
              "mark_verified", "complete", "upload", "certify", "list_disks", "finish_asset"}
CallStages == {"idle", "count_jobs", "create_job", "start_erasing",
               "scrap", "list_open", "fail_jobs", "read_asset", "scrap_asset",
               "verify", "sign"}
Call == [at : CallStages, disk : Disks \cup {NoDisk}, first : BOOLEAN,
         attempt : Attempts, open : SUBSET Jobs, method : Methods \cup {Unsigned}]
NewCall(at, d) == [at |-> at, disk |-> d, first |-> FALSE, attempt |-> 0,
                   open |-> {}, method |-> Unsigned]
Idle == NewCall("idle", NoDisk)

Numbers == Disks \X Attempts

Init == /\ asset = "pending" /\ assetLog = {}
        /\ disk = [d \in Disks |-> "none"] /\ diskLog = [d \in Disks |-> {}]
        /\ job = [j \in Jobs |-> NoJob]
        /\ run = [j \in Jobs |-> "idle"]
        /\ report = [n \in Numbers |-> 0] /\ cert = [n \in Numbers |-> 0]
        /\ disposal = Unsigned
        /\ call = [c \in Calls |-> Idle]
        /\ crashes = 0
-----------------------------------------------------------------------------
(* The store.                                                              *)

AssetTransitions == {<<"pending", "disk_pulled">>, <<"disk_pulled", "erasing">>,
                     <<"disk_pulled", "scrapped">>, <<"erasing", "erasure_verified">>,
                     <<"erasing", "scrapped">>, <<"erasure_verified", "disposed">>,
                     <<"scrapped", "disposed">>}

CanTransitionAsset(from, to) == from = to \/ <<from, to>> \in AssetTransitions

(* A refused transition changes nothing; no caller here acts on the error. *)
TransitionAsset(to) ==
    IF CanTransitionAsset(asset, to)
    THEN asset' = to /\ assetLog' = assetLog \cup {to}
    ELSE UNCHANGED <<asset, assetLog>>

(* No state machine guards the status of a disk.                           *)
UpdateDiskStatus(d, s) == /\ disk' = [disk EXCEPT ![d] = s]
                          /\ diskLog' = [diskLog EXCEPT ![d] = @ \cup {s}]

SetJob(j, s) == job' = [job EXCEPT ![j].status = s]
JobsOf(d) == {j \in Jobs : job[j].disk = d}
Recorded == {d \in Disks : disk[d] # "none"}

(* The certificate's number: disk, day and attempt.  One day is modelled,  *)
(* and disks whose serials differ in what the number shows.                *)
CertNumber(j) == <<job[j].disk, job[j].attempt>>

At(c, stage) == call[c].at = stage
Goto(c, stage) == call' = [call EXCEPT ![c].at = stage]
Done(c) == call' = [call EXCEPT ![c] = Idle]
Enter(j, stage) == run' = [run EXCEPT ![j] = stage]
-----------------------------------------------------------------------------
(* PullDisks: a row per disk, then the transition of the asset.            *)

CreateDisk(d) ==
    /\ asset = "pending" /\ disk[d] = "none"
    /\ disk' = [disk EXCEPT ![d] = "pulled"]
    /\ UNCHANGED <<asset, assetLog, diskLog, job, report, cert, disposal, run, call, crashes>>

PullTransition ==
    /\ asset = "pending" /\ Recorded = Disks
    /\ TransitionAsset("disk_pulled")
    /\ UNCHANGED <<disk, diskLog, job, report, cert, disposal, run, call, crashes>>

Reachable(d) == EarlyQueue \/ asset # "pending"
-----------------------------------------------------------------------------
(* CreateErasureJob: the disk is read, its jobs are counted, the job is    *)
(* created, and the asset follows for a disk that was not yet tried.       *)

CreateErasureJob(c, d) ==
    /\ At(c, "idle") /\ Reachable(d) /\ \E j \in Jobs : job[j] = NoJob
    /\ disk[d] \in {"pulled", "failed"}
    /\ call' = [call EXCEPT ![c] = [NewCall("count_jobs", d) EXCEPT
                                      !.first = (disk[d] = "pulled")]]
    /\ UNCHANGED <<rows, run, crashes>>

(* A bug: only the jobs that failed count as earlier attempts.             *)
CountJobs_FailedOnly(c) ==
    /\ At(c, "count_jobs")
    /\ call' = [call EXCEPT ![c].at = "create_job", ![c].attempt =
                   Cardinality({j \in JobsOf(call[c].disk) : job[j].status = "failed"})]
    /\ UNCHANGED <<rows, run, crashes>>

CountJobs(c) ==
    /\ At(c, "count_jobs")
    /\ Cardinality(JobsOf(call[c].disk)) \in Attempts
    /\ call' = [call EXCEPT ![c].attempt = Cardinality(JobsOf(call[c].disk)),
                            ![c].at = "create_job"]
    /\ UNCHANGED <<rows, run, crashes>>

CreateJob(c) ==
    /\ At(c, "create_job")
    /\ \E j \in Jobs :
          /\ job[j] = NoJob /\ \A k \in Jobs : k < j => job[k] # NoJob
          /\ job' = [job EXCEPT ![j] = [disk |-> call[c].disk, status |-> "pending",
                                        attempt |-> call[c].attempt]]
    /\ IF call[c].first THEN Goto(c, "start_erasing") ELSE Done(c)
    /\ UNCHANGED <<asset, assetLog, disk, diskLog, report, cert, disposal, run, crashes>>

StartErasing(c) ==
    /\ At(c, "start_erasing")
    /\ TransitionAsset("erasing")
    /\ Done(c)
    /\ UNCHANGED <<disk, diskLog, job, report, cert, disposal, run, crashes>>
-----------------------------------------------------------------------------
(* ScrapDisk: the disk is read and marked, its open jobs are listed and    *)
(* failed one by one, newest first, and the asset follows.                 *)

ScrapDisk(c, d) ==
    /\ At(c, "idle") /\ Reachable(d)
    /\ disk[d] \in {"failed", "pulled"}
    /\ call' = [call EXCEPT ![c] = NewCall("scrap", d)]
    /\ UNCHANGED <<rows, run, crashes>>

MarkScrapped(c) ==
    /\ At(c, "scrap")
    /\ UpdateDiskStatus(call[c].disk, "scrapped")
    /\ Goto(c, "list_open")
    /\ UNCHANGED <<asset, assetLog, job, report, cert, disposal, run, crashes>>

(* A job that is being verified is not among the open ones.  The errors of *)
(* the listing and of each write are dropped.                              *)
ListOpenJobs(c) ==
    /\ At(c, "list_open")
    /\ \E open \in {{j \in JobsOf(call[c].disk) : job[j].status \in {"pending", "running"}}}
                     \cup (IF Faults THEN {{}} ELSE {}) :
          call' = [call EXCEPT ![c].at = "fail_jobs", ![c].open = open]
    /\ UNCHANGED <<rows, run, crashes>>

FailOpenJob(c) ==
    /\ At(c, "fail_jobs")
    /\ \/ \E j \in call[c].open :
             /\ \A k \in call[c].open : k <= j
             /\ SetJob(j, "failed") \/ (Faults /\ UNCHANGED job)
             /\ call' = [call EXCEPT ![c].open = @ \ {j}]
       \/ /\ call[c].open = {}
          /\ Goto(c, "read_asset")
          /\ UNCHANGED job
    /\ UNCHANGED <<asset, assetLog, disk, diskLog, report, cert, disposal, run, crashes>>

ReadAsset(c) ==
    /\ At(c, "read_asset")
    /\ IF asset \in {"disk_pulled", "erasing"} THEN Goto(c, "scrap_asset") ELSE Done(c)
    /\ UNCHANGED <<rows, run, crashes>>

ScrapAsset(c) ==
    /\ At(c, "scrap_asset")
    /\ TransitionAsset("scrapped")
    /\ Done(c)
    /\ UNCHANGED <<disk, diskLog, job, report, cert, disposal, run, crashes>>
-----------------------------------------------------------------------------
(* Reverify: the disk and its jobs are read, then the device; residual     *)
(* data makes the disk failed, whatever became of it meanwhile.            *)

Reverify(c, d) ==
    /\ At(c, "idle")
    /\ disk[d] \in {"verified", "failed"} /\ JobsOf(d) # {}
    /\ call' = [call EXCEPT ![c] = NewCall("verify", d)]
    /\ UNCHANGED <<rows, run, crashes>>

ReverifyEnds(c) ==
    /\ At(c, "verify")
    /\ \/ UNCHANGED <<disk, diskLog>>
       \/ UpdateDiskStatus(call[c].disk, "failed")
    /\ Done(c)
    /\ UNCHANGED <<asset, assetLog, job, report, cert, disposal, run, crashes>>
-----------------------------------------------------------------------------
(* A bug: destruction is signed for whatever was approved.                 *)
ConfirmDisposal_AnyDestroy(c, m) ==
    /\ At(c, "idle")
    /\ asset \in {"erasure_verified", "scrapped"}
    /\ m = ApprovedMethod \/ m = "destroy"
    /\ call' = [call EXCEPT ![c] = [NewCall("sign", NoDisk) EXCEPT !.method = m]]
    /\ UNCHANGED <<rows, run, crashes>>

(* ConfirmDisposal: the asset is read and the method judged; the store     *)
(* looks at the asset and at the earlier signature again.                  *)
ConfirmDisposal(c, m) ==
    /\ At(c, "idle")
    /\ asset \in {"erasure_verified", "scrapped"}
    /\ m = ApprovedMethod \/ (asset = "scrapped" /\ m = "destroy")
    /\ call' = [call EXCEPT ![c] = [NewCall("sign", NoDisk) EXCEPT !.method = m]]
    /\ UNCHANGED <<rows, run, crashes>>

SaveDisposal(c) ==
    /\ At(c, "sign")
    /\ IF disposal = Unsigned /\ CanTransitionAsset(asset, "disposed")
       THEN /\ disposal' = call[c].method
            /\ asset' = "disposed" /\ assetLog' = assetLog \cup {"disposed"}
       ELSE UNCHANGED <<disposal, asset, assetLog>>
    /\ Done(c)
    /\ UNCHANGED <<disk, diskLog, job, report, cert, run, crashes>>

(* A store call fails, or the client goes away and its context with it.    *)
Abandon(c) ==
    /\ Faults /\ ~At(c, "idle")
    /\ Done(c)
    /\ UNCHANGED <<rows, run, crashes>>
-----------------------------------------------------------------------------
(* A bug: jobs that were verified can be claimed again.                    *)
Claimable_Verified(j) == job[j].status \notin {"none", "failed"}

Claimable(j) == job[j].status \in {"pending", "running", "verifying"}

(* runJob.  A claim makes a pending job running.                           *)
AcquireNextJob(j) ==
    /\ run[j] = "idle" /\ Claimable(j)
    /\ job' = [job EXCEPT ![j].status = IF @ = "pending" THEN "running" ELSE @]
    /\ Enter(j, "mark_running")
    /\ UNCHANGED <<asset, assetLog, disk, diskLog, report, cert, disposal, call, crashes>>

MarkJobRunning(j) ==
    /\ run[j] = "mark_running"
    /\ SetJob(j, "running")
    /\ Enter(j, "mark_erasing")
    /\ UNCHANGED <<asset, assetLog, disk, diskLog, report, cert, disposal, call, crashes>>

(* An error is only logged.                                                *)
MarkErasing(j) ==
    /\ run[j] = "mark_erasing"
    /\ \/ UpdateDiskStatus(job[j].disk, "erasing")
       \/ Faults /\ UNCHANGED <<disk, diskLog>>
    /\ Enter(j, "wiping")
    /\ UNCHANGED <<asset, assetLog, job, report, cert, disposal, call, crashes>>

(* onProgress of the overwrite and of the verification.                    *)
SaveProgress(j) ==
    /\ run[j] = "wiping"
    /\ \E s \in {"running", "verifying"} : SetJob(j, s)
    /\ UNCHANGED <<asset, assetLog, disk, diskLog, run, report, cert, disposal, call, crashes>>

(* The errors of both writes that follow mismatches are dropped.           *)
Mismatch(j) ==
    /\ run[j] = "wiping"
    /\ SetJob(j, "failed") \/ (Faults /\ UNCHANGED job)
    /\ Enter(j, "mark_failed")
    /\ UNCHANGED <<asset, assetLog, disk, diskLog, report, cert, disposal, call, crashes>>

(* A bug: the disk is forgotten when its verification failed.              *)
MarkFailed_Forgotten(j) ==
    /\ run[j] = "mark_failed"
    /\ Enter(j, "idle")
    /\ UNCHANGED <<rows, call, crashes>>

MarkFailed(j) ==
    /\ run[j] = "mark_failed"
    /\ \/ UpdateDiskStatus(job[j].disk, "failed")
       \/ Faults /\ UNCHANGED <<disk, diskLog>>
    /\ Enter(j, "idle")
    /\ UNCHANGED <<asset, assetLog, job, report, cert, disposal, call, crashes>>

(* A bug: the certificate is issued before the disk is flipped.            *)
Passed_CertifyFirst(j) ==
    /\ run[j] = "wiping"
    /\ SetJob(j, "verified")
    /\ Enter(j, "upload")
    /\ UNCHANGED <<asset, assetLog, disk, diskLog, report, cert, disposal, call, crashes>>

Passed(j) ==
    /\ run[j] = "wiping"
    /\ SetJob(j, "verified") \/ (Faults /\ UNCHANGED job)
    /\ Enter(j, "mark_verified")
    /\ UNCHANGED <<asset, assetLog, disk, diskLog, report, cert, disposal, call, crashes>>

MarkVerified(j) ==
    /\ run[j] = "mark_verified"
    /\ UpdateDiskStatus(job[j].disk, "verified")
    /\ Enter(j, "complete")
    /\ UNCHANGED <<asset, assetLog, job, report, cert, disposal, call, crashes>>

(* A bug: the certificate's row is written first, the report is left out.  *)
CompleteVerified_NoUpload(j) ==
    /\ run[j] = "complete"
    /\ SetJob(j, "verified") \/ (Faults /\ UNCHANGED job)
    /\ Enter(j, "certify")
    /\ UNCHANGED <<asset, assetLog, disk, diskLog, report, cert, disposal, call, crashes>>

CompleteVerified(j) ==
    /\ run[j] = "complete"
    /\ SetJob(j, "verified") \/ (Faults /\ UNCHANGED job)
    /\ Enter(j, "upload")
    /\ UNCHANGED <<asset, assetLog, disk, diskLog, report, cert, disposal, call, crashes>>

(* The two objects of the report, under keys made of the number.           *)
UploadReport(j) ==
    /\ run[j] = "upload"
    /\ report' = [report EXCEPT ![CertNumber(j)] = j]
    /\ Enter(j, "certify")
    /\ UNCHANGED <<asset, assetLog, disk, diskLog, job, cert, disposal, call, crashes>>

SaveCertificate(j) ==
    /\ run[j] = "certify"
    /\ IF cert[CertNumber(j)] = 0
       THEN cert' = [cert EXCEPT ![CertNumber(j)] = j] /\ Enter(j, "list_disks")
       ELSE UNCHANGED cert /\ Enter(j, "idle")
    /\ UNCHANGED <<asset, assetLog, disk, diskLog, job, report, disposal, call, crashes>>

(* A bug: a disk whose verification failed does not hold the asset back.   *)
AllDisksDone_FailedToo == \A d \in Recorded : disk[d] \in {"verified", "scrapped", "failed"}

AllDisksDone == \A d \in Recorded : disk[d] \in {"verified", "scrapped"}

ListDisks(j) ==
    /\ run[j] = "list_disks"
    /\ Enter(j, IF AllDisksDone THEN "finish_asset" ELSE "idle")
    /\ UNCHANGED <<rows, call, crashes>>

FinishAsset(j) ==
    /\ run[j] = "finish_asset"
    /\ TransitionAsset("erasure_verified")
    /\ Enter(j, "idle")
    /\ UNCHANGED <<disk, diskLog, job, report, cert, disposal, call, crashes>>

(* failJob: a refused path, an unreadable device, a failing write.  The    *)
(* disk's row is left alone.                                               *)
FailJob(j) ==
    /\ Faults /\ run[j] \in {"mark_running", "wiping"}
    /\ SetJob(j, "failed") \/ UNCHANGED job
    /\ Enter(j, "idle")
    /\ UNCHANGED <<asset, assetLog, disk, diskLog, report, cert, disposal, call, crashes>>

(* A failing call that makes runJob log and return.                        *)
GiveUp(j) ==
    /\ Faults
    /\ run[j] \in {"mark_running", "mark_verified", "upload", "certify", "list_disks", "finish_asset"}
    /\ Enter(j, "idle")
    /\ UNCHANGED <<rows, call, crashes>>

Crash ==
    /\ crashes < MaxCrashes
    /\ crashes' = crashes + 1
    /\ run' = [j \in Jobs |-> "idle"]
    /\ call' = [c \in Calls |-> Idle]
    /\ UNCHANGED rows

Pull == PullTransition \/ \E d \in Disks : CreateDisk(d)

(* What an operator may ask for, and what a request in progress does next. *)
Ask(c) == \/ \E d \in Disks : CreateErasureJob(c, d) \/ ScrapDisk(c, d) \/ Reverify(c, d)
          \/ \E m \in Methods : ConfirmDisposal(c, m)
Answer(c) == \/ CountJobs(c) \/ CreateJob(c) \/ StartErasing(c)
             \/ MarkScrapped(c) \/ ListOpenJobs(c) \/ FailOpenJob(c)
             \/ ReadAsset(c) \/ ScrapAsset(c)
             \/ ReverifyEnds(c) \/ SaveDisposal(c)

Work(j) == \/ AcquireNextJob(j) \/ MarkJobRunning(j) \/ MarkErasing(j)
           \/ Mismatch(j) \/ MarkFailed(j)
           \/ Passed(j) \/ MarkVerified(j) \/ CompleteVerified(j)
           \/ UploadReport(j) \/ SaveCertificate(j) \/ ListDisks(j) \/ FinishAsset(j)

Next == \/ Pull
        \/ \E c \in Calls : Ask(c) \/ Answer(c) \/ Abandon(c)
        \/ \E j \in Jobs : Work(j) \/ SaveProgress(j) \/ FailJob(j) \/ GiveUp(j)
        \/ Crash

(* A goroutine goes on until it ends or is killed, and the ticker claims   *)
(* what may be claimed.  Nobody has to ask for anything.                   *)
Fairness == /\ \A j \in Jobs : WF_vars(Work(j))
            /\ \A c \in Calls : WF_vars(Answer(c))

Spec == Init /\ [][Next]_vars /\ Fairness
-----------------------------------------------------------------------------
TypeOK == /\ asset \in AssetStatus /\ assetLog \subseteq AssetStatus
          /\ disk \in [Disks -> DiskStatus] /\ diskLog \in [Disks -> SUBSET DiskStatus]
          /\ job \in [Jobs -> Job] /\ run \in [Jobs -> RunStages]
          /\ report \in [Numbers -> 0..MaxJobs] /\ cert \in [Numbers -> 0..MaxJobs]
          /\ disposal \in Methods \cup {Unsigned}
          /\ call \in [Calls -> Call]
          /\ crashes \in 0..MaxCrashes

(* An asset is never declared erased, nor signed off as erased, while one  *)
(* of its disks was neither verified nor scrapped at some time             *)
(* (maybeAssetErasureDone), over overlapping jobs, retries and crashes.    *)
Treated(d) == diskLog[d] \cap {"verified", "scrapped"} # {}
NoDiskForgotten ==
    asset = "erasure_verified" \/ (asset = "disposed" /\ "scrapped" \notin assetLog)
        => \A d \in Disks : Treated(d)

(* A certificate is issued only for a disk already flipped to verified     *)
(* (worker.go: "Flip the disk to its terminal state BEFORE issuing the     *)
(* certificate"), so that a crash in between never certifies a disk whose  *)
(* row still says erasing.                                                 *)
CertifiedAfterFlip ==
    \A n \in Numbers : cert[n] # 0 =>
        /\ CertNumber(cert[n]) = n
        /\ "verified" \in diskLog[n[1]]

(* Whoever opens a certificate finds a report under its number, of the     *)
(* disk and the attempt it names, whatever crashed, failed, or raced for   *)
(* the number (issueCertificate: both objects first, then the row).        *)
CertificateHasReport ==
    \A n \in Numbers : cert[n] # 0 => report[n] # 0 /\ CertNumber(report[n]) = n

(* A verified job keeps its result; only the scrapping of its disk, with   *)
(* a list of open jobs that is out of date, may take it back.              *)
VerifiedJobKept ==
    [][\A j \in Jobs : job[j].status = "verified" /\ job'[j].status # "verified"
                          => "scrapped" \in diskLog[job[j].disk]]_vars

(* The asset goes through the life that AssetLifecycle promises: what      *)
(* ConfirmDisposal judged still holds when the signature lands.            *)
Lifecycle == INSTANCE AssetLifecycle WITH status <- asset, signed <- disposal
ImplementsLifecycle == Lifecycle!Spec

(* A disk under erasure is finally verified, failed or scrapped.           *)
DiskLeavesErasing == \A d \in Disks : disk[d] = "erasing" ~> disk[d] # "erasing"

(* Every success is certified, retries of one disk included (README,       *)
(* "one certificate for each success").                                    *)
EverySuccessCertified == \A j \in Jobs :
    job[j].status = "verified" ~> \E n \in Numbers : cert[n] = j

(* What the two need of the code besides fairness: a disk in erasing has a *)
(* goroutine that will write its next status, and a verified job one that  *)
(* will certify it, unless its number has a certificate.                   *)
ErasingAttended == \A d \in Disks : disk[d] = "erasing" =>
    \E j \in JobsOf(d) : run[j] \in {"wiping", "mark_failed", "mark_verified"}
SuccessOnItsWay == \A j \in Jobs : job[j].status = "verified" =>
    \/ run[j] \in {"mark_verified", "complete", "upload", "certify"}
    \/ cert[CertNumber(j)] # 0

(* Two jobs never share a certificate number.                              *)
NumbersDistinct == \A j, k \in Jobs :
    job[j] # NoJob /\ job[k] # NoJob /\ CertNumber(j) = CertNumber(k) => j = k

-----------------------------------------------------------------------------
(* The inductive invariant, by the state each part is about.               *)

(* A job with a goroutine has a row; the row is verified only by the       *)
(* goroutine's own last writes.                                            *)
JobsOK ==
    \A j \in Jobs :
        /\ job[j].disk = NoDisk <=> job[j] = NoJob
        /\ job[j].status = "none" => job[j] = NoJob
        /\ run[j] # "idle" => job[j].disk # NoDisk
        /\ run[j] \in {"mark_running", "mark_erasing", "wiping"} => job[j].status # "verified"

CallsOK ==
    \A c \in Calls :
        /\ call[c].at \notin {"idle", "sign"} => call[c].disk # NoDisk
        /\ call[c].at \in {"list_open", "fail_jobs"} => "scrapped" \in diskLog[call[c].disk]
        /\ \A j \in call[c].open : /\ call[c].at = "fail_jobs"
                                   /\ job[j].disk = call[c].disk
        /\ At(c, "sign") =>
              /\ asset \in {"erasure_verified", "scrapped", "disposed"}
              /\ call[c].method # Unsigned
              /\ call[c].method # ApprovedMethod =>
                    call[c].method = "destroy" /\ asset # "erasure_verified"

Flipped == {"complete", "upload", "certify", "list_disks", "finish_asset"}
LogsOK ==
    /\ \A d \in Disks : disk[d] \in {"verified", "scrapped"} => disk[d] \in diskLog[d]
    /\ \A j \in Jobs : run[j] \in Flipped => "verified" \in diskLog[job[j].disk]
    /\ CertifiedAfterFlip

AssetOK ==
    /\ disposal = Unsigned <=> asset # "disposed"
    /\ asset = "scrapped" => "scrapped" \in assetLog

(* Operators wait for the end of the pull: every disk has its row before   *)
(* the first job and the first scrapping.                                  *)
PullOver ==
    /\ asset # "pending" => Recorded = Disks
    /\ asset = "pending" => /\ \A j \in Jobs : job[j] = NoJob
                            /\ \A c \in Calls : At(c, "idle")

FinishOK == \A j \in Jobs : run[j] = "finish_asset" => \A d \in Disks : Treated(d)

(* A report is stored before its goroutine writes the certificate's row,   *)
(* and the row it was made from never changes its disk or its attempt.     *)
ReportsOK ==
    /\ \A j \in Jobs : run[j] = "certify" => report[CertNumber(j)] # 0
    /\ \A n \in Numbers : report[n] # 0 => CertNumber(report[n]) = n
    /\ \A n \in Numbers : cert[n] # 0 => report[n] # 0

(* With one request at a time the count of a disk's jobs is still right    *)
(* when the job is created.                                                *)
AttemptsInv ==
    /\ NumbersDistinct
    /\ \A j \in Jobs : job[j] # NoJob => job[j].attempt < Cardinality(JobsOf(job[j].disk))
    /\ \A c \in Calls : At(c, "create_job") =>
          call[c].attempt = Cardinality(JobsOf(call[c].disk))

DecommissionInv == TypeOK /\ JobsOK /\ CallsOK /\ LogsOK /\ AssetOK
PatientInv == DecommissionInv /\ PullOver /\ FinishOK /\ NoDiskForgotten

-----------------------------------------------------------------------------
(* What the code says of itself, and its interleavings refute.             *)

(* "never re-wiped" (service.go, ScrapDisk).                               *)
ScrappedForGood ==
    [][\A d \in Disks : disk[d] = "scrapped" => disk'[d] # "erasing"]_vars

(* "one pending job per disk" (0001_init.sql).                             *)
OnePendingPerDisk == \A j, k \in Jobs :
    /\ job[j].status = "pending" /\ job[k].status = "pending"
    /\ job[j].disk = job[k].disk
    => j = k

(* "failed: awaiting a decision" (domain.go): the disk of a failed job can *)
(* be queued again or scrapped.                                            *)
FailedAwaitsDecision == \A j \in Jobs :
    job[j].status = "failed" /\ run[j] = "idle"
        => \/ disk[job[j].disk] # "erasing"
           \/ \E k \in JobsOf(job[j].disk) : Claimable(k) \/ run[k] # "idle"

(* "asset reaches erasure_verified only when every disk is done"           *)
(* (worker.go).                                                            *)
ErasedOnlyWhenDone ==
    [][asset # "erasure_verified" /\ asset' = "erasure_verified" => AllDisksDone]_vars

(* "flips the asset to erasure_verified once all its disks are verified or *)
(* scrapped" (worker.go); an asset with a scrapped disk may be scrapped.   *)
AllDoneReachesAsset ==
    (asset # "pending" /\ AllDisksDone) ~>
        (asset \in {"erasure_verified", "scrapped", "disposed"} \/ ~AllDisksDone)

(* "physical destruction is the only feasible end of a scrapped asset"     *)
(* (service.go, README).                                                   *)
ScrappedIsDestroyed == "scrapped" \in assetLog /\ asset = "disposed" => disposal = "destroy"

(* "two immutable objects" for each certificate (report.go): the stored    *)
(* report is the certified one.                                            *)
ReportIsCertified == \A n \in Numbers : cert[n] # 0 => report[n] = cert[n]
=============================================================================
