------------------------- MODULE Decommission_proofs -------------------------
(***************************************************************************)
(* Proofs about Decommission for every number of disks, jobs, requests,    *)
(* methods and crashes, with failing calls and without.                    *)
(***************************************************************************)
EXTENDS Decommission, FiniteSetTheorems, TLAPS

LEMMA CallFacts ==
    /\ \A at \in CallStages : \A d \in Disks \cup {NoDisk} :
          /\ NewCall(at, d) \in Call
          /\ \A b \in BOOLEAN : [NewCall(at, d) EXCEPT !.first = b] \in Call
          /\ \A m \in Methods : [NewCall(at, d) EXCEPT !.method = m] \in Call
    /\ Idle \in Call /\ Idle.at = "idle" /\ Idle.open = {}
<1>1. 0 \in Attempts BY DecommissionAssumption DEF Attempts
<1>2. {} \in SUBSET Jobs OBVIOUS
<1>3. \A at \in CallStages : \A d \in Disks \cup {NoDisk} : NewCall(at, d) \in Call
  BY <1>1, <1>2 DEF NewCall, Call
<1>4. \A k \in Call : /\ \A b \in BOOLEAN : [k EXCEPT !.first = b] \in Call
                      /\ \A m \in Methods : [k EXCEPT !.method = m] \in Call
  BY DEF Call
<1>5. Idle \in Call BY <1>3 DEF Idle, CallStages
<1> QED BY <1>3, <1>4, <1>5 DEF Idle, NewCall

LEMMA GotoFacts ==
    ASSUME TypeOK, NEW c \in Calls, NEW s \in CallStages, Goto(c, s)
    PROVE  /\ call' \in [Calls -> Call]
           /\ \A k \in Calls : k # c => call'[k] = call[k]
           /\ call'[c].at = s /\ call'[c].disk = call[c].disk
           /\ call'[c].open = call[c].open /\ call'[c].method = call[c].method
BY DEF TypeOK, Goto, Call

LEMMA SetJobFacts ==
    ASSUME TypeOK, NEW j \in Jobs, NEW s \in JobStatus, SetJob(j, s) \/ UNCHANGED job
    PROVE  /\ job' \in [Jobs -> Job]
           /\ \A k \in Jobs : /\ job'[k].disk = job[k].disk
                              /\ job'[k].attempt = job[k].attempt
                              /\ k # j => job'[k] = job[k]
           /\ job'[j].status \in {s, job[j].status}
BY DEF TypeOK, SetJob, Job

LEMMA OpenJobs ==
    ASSUME TypeOK, NEW c \in Calls, ListOpenJobs(c)
    PROVE  \E open \in SUBSET JobsOf(call[c].disk) :
              call' = [call EXCEPT ![c] = [call[c] EXCEPT !.at = "fail_jobs", !.open = open]]
<1>1. PICK open \in {{j \in JobsOf(call[c].disk) : job[j].status \in {"pending", "running"}}}
                       \cup (IF Faults THEN {{}} ELSE {}) :
         call' = [call EXCEPT ![c].at = "fail_jobs", ![c].open = open]
  BY DEF ListOpenJobs
<1>2. open \in SUBSET JobsOf(call[c].disk) BY <1>1
<1>3. call' = [call EXCEPT ![c] = [call[c] EXCEPT !.at = "fail_jobs", !.open = open]]
  BY <1>1 DEF TypeOK
<1> QED BY <1>2, <1>3

LEMMA TransitionFacts ==
    ASSUME TypeOK, NEW s \in AssetStatus, TransitionAsset(s)
    PROVE  asset' \in AssetStatus /\ assetLog' \subseteq AssetStatus
BY DEF TypeOK, TransitionAsset

LEMMA LogsFrame ==
    ASSUME TypeOK, JobsOK, LogsOK, UNCHANGED <<disk, diskLog, cert>>,
           \A j \in Jobs : /\ job'[j].disk = job[j].disk /\ job'[j].attempt = job[j].attempt
                           /\ run'[j] \in Flipped => run[j] \in Flipped
    PROVE  LogsOK'
<1>1. \A n \in Numbers : cert[n] # 0 => cert[n] \in Jobs BY DEF TypeOK, Jobs
<1>2. \A j \in Jobs : CertNumber(j)' = CertNumber(j) BY DEF CertNumber
<1>3. CertifiedAfterFlip' BY <1>1, <1>2 DEF LogsOK, CertifiedAfterFlip
<1> QED BY <1>3 DEF LogsOK

LEMMA JobsFrame ==
    ASSUME TypeOK, JobsOK, job' \in [Jobs -> Job],
           \A j \in Jobs :
              /\ job'[j].disk = job[j].disk
              /\ job'[j] = job[j] \/ (job[j] # NoJob /\ job'[j].status # "none")
              /\ run'[j] # "idle" => run[j] # "idle"
              /\ run'[j] \in {"mark_running", "mark_erasing", "wiping"} =>
                    run[j] \in {"mark_running", "mark_erasing", "wiping"}
              /\ job'[j].status = "verified" => \/ job[j].status = "verified"
                   \/ run'[j] \notin {"mark_running", "mark_erasing", "wiping"}
    PROVE  JobsOK'
BY DEF JobsOK, NoJob

(* The pull: disk rows and the first transition of the asset.              *)
LEMMA PullInv ==
    ASSUME DecommissionInv,
           (\E d \in Disks : CreateDisk(d)) \/ PullTransition
    PROVE  DecommissionInv'
<1> USE DEF DecommissionInv
<1>1. ASSUME NEW d \in Disks, CreateDisk(d) PROVE DecommissionInv'
  <2>1. TypeOK'
    BY <1>1 DEF TypeOK, CreateDisk, RunStages, DiskStatus, AssetStatus, JobStatus,
      Job, NoJob
  <2>2. JobsOK' BY <1>1 DEF JobsOK, CreateDisk
  <2>3. CallsOK' BY <1>1 DEF CallsOK, CreateDisk, At, TypeOK
  <2>4. LogsOK'
    BY <1>1 DEF LogsOK, CreateDisk, CertifiedAfterFlip, CertNumber, TypeOK
  <2>5. AssetOK' BY <1>1 DEF AssetOK, CreateDisk
  <2> QED BY <2>1, <2>2, <2>3, <2>4, <2>5
<1>2. CASE PullTransition
  <2>1. TypeOK'
    BY <1>2 DEF TypeOK, PullTransition, TransitionAsset, CanTransitionAsset,
      AssetTransitions, RunStages, DiskStatus, AssetStatus, JobStatus,
      Job, NoJob
  <2>2. JobsOK'
    BY <1>2 DEF JobsOK, PullTransition, TransitionAsset, CanTransitionAsset,
      AssetTransitions
  <2>3. CallsOK'
    BY <1>2 DEF CallsOK, PullTransition, TransitionAsset, CanTransitionAsset,
      AssetTransitions, At, TypeOK
  <2>4. LogsOK'
    BY <1>2 DEF LogsOK, PullTransition, TransitionAsset, CanTransitionAsset,
      AssetTransitions, CertifiedAfterFlip, CertNumber, TypeOK
  <2>5. AssetOK'
    BY <1>2 DEF AssetOK, PullTransition, TransitionAsset, CanTransitionAsset,
      AssetTransitions
  <2> QED BY <2>1, <2>2, <2>3, <2>4, <2>5
<1> QED BY <1>1, <1>2

(* CreateErasureJob.                                                       *)
LEMMA QueueInv ==
    ASSUME DecommissionInv, NEW c \in Calls,
           (\E d \in Disks : CreateErasureJob(c, d)) \/ CountJobs(c) \/ CreateJob(c) \/
           StartErasing(c)
    PROVE  DecommissionInv'
<1> USE DEF DecommissionInv
<1>1. ASSUME NEW d \in Disks, CreateErasureJob(c, d) PROVE DecommissionInv'
  <2>1. TypeOK'
    <3>1. call' \in [Calls -> Call]
      BY <1>1, CallFacts DEF CreateErasureJob, TypeOK, CallStages
    <3> QED BY <1>1, <3>1 DEF CreateErasureJob, TypeOK, rows
  <2>2. JobsOK' BY <1>1 DEF JobsOK, CreateErasureJob, NewCall, rows
  <2>3. CallsOK'
    BY <1>1, DecommissionAssumption DEF CallsOK, CreateErasureJob, NewCall, rows,
      At, TypeOK, JobsOK, Call, Job, NoJob
  <2>4. LogsOK'
    BY <1>1 DEF LogsOK, CreateErasureJob, NewCall, rows, CertifiedAfterFlip,
      CertNumber, TypeOK
  <2>5. AssetOK' BY <1>1 DEF AssetOK, CreateErasureJob, NewCall, rows
  <2> QED BY <2>1, <2>2, <2>3, <2>4, <2>5
<1>2. CASE CountJobs(c)
  <2>1. TypeOK'
    <3>1. \A n \in Attempts : \A k \in Call : [k EXCEPT !.attempt = n, !.at = "create_job"] \in Call
      BY DEF Call, CallStages
    <3> DEFINE n == Cardinality(JobsOf(call[c].disk))
    <3>3. n \in Attempts
          /\ call' = [call EXCEPT ![c] = [call[c] EXCEPT !.attempt = n, !.at = "create_job"]]
      BY <1>2 DEF CountJobs, TypeOK
    <3> HIDE DEF n
    <3>4. call' \in [Calls -> Call] BY <3>1, <3>3 DEF TypeOK
    <3> QED BY <3>4, <1>2 DEF CountJobs, TypeOK, rows
  <2>2. JobsOK' BY <1>2 DEF JobsOK, CountJobs, rows
  <2>3. CallsOK' BY <1>2 DEF CallsOK, CountJobs, rows, At, TypeOK
  <2>4. LogsOK'
    BY <1>2 DEF LogsOK, CountJobs, rows, CertifiedAfterFlip, CertNumber, TypeOK
  <2>5. AssetOK' BY <1>2 DEF AssetOK, CountJobs, rows
  <2> QED BY <2>1, <2>2, <2>3, <2>4, <2>5
<1>3. CASE CreateJob(c)
  <2>1. TypeOK'
    <3>1. call' \in [Calls -> Call]
      <4>1. CASE Goto(c, "start_erasing")
        BY <4>1, GotoFacts DEF CallStages
      <4>2. CASE Done(c)
        BY <4>2, CallFacts DEF Done, TypeOK
      <4> QED BY <4>1, <4>2, <1>3 DEF CreateJob
    <3>2. job' \in [Jobs -> Job]
      BY <1>3 DEF CreateJob, TypeOK, Call, Job, JobStatus
    <3> QED BY <3>1, <3>2, <1>3 DEF CreateJob, TypeOK
  <2>2. JobsOK'
    <3>0. PICK j \in Jobs : /\ job[j] = NoJob
                             /\ job' = [job EXCEPT ![j] = [disk |-> call[c].disk, status |-> "pending",
                                                           attempt |-> call[c].attempt]]
      BY <1>3 DEF CreateJob
    <3>1. call[c].disk # NoDisk
      BY <1>3 DEF CreateJob, At, CallsOK
    <3>2. \A k \in Jobs : k # j => job'[k] = job[k]
      BY <3>0 DEF TypeOK
    <3>3. job'[j] = [disk |-> call[c].disk, status |-> "pending", attempt |-> call[c].attempt]
      BY <3>0 DEF TypeOK
    <3>4. job'[j].disk # NoDisk /\ job'[j].status = "pending" /\ job'[j] # NoJob
      BY <3>1, <3>3 DEF NoJob
    <3>5. run' = run BY <1>3 DEF CreateJob
    <3> QED BY <3>2, <3>4, <3>5 DEF JobsOK
  <2>3. CallsOK'
    <3>0. PICK j \in Jobs : /\ job[j] = NoJob
                             /\ job' = [job EXCEPT ![j] = [disk |-> call[c].disk, status |-> "pending",
                                                           attempt |-> call[c].attempt]]
      BY <1>3 DEF CreateJob
    <3>1. call[c].disk # NoDisk
      BY <1>3 DEF CreateJob, At, CallsOK
    <3>2. \A k \in Jobs : k # j => job'[k] = job[k]
      BY <3>0 DEF TypeOK
    <3>3. job'[j] = [disk |-> call[c].disk, status |-> "pending", attempt |-> call[c].attempt]
      BY <3>0 DEF TypeOK
    <3>4. call'[c].open = {} /\ call'[c].at \in {"idle", "start_erasing"}
      <4>1. call[c].open = {} BY <1>3 DEF CreateJob, At, CallsOK
      <4>2. CASE Goto(c, "start_erasing")
        BY <4>1, <4>2, GotoFacts DEF CallStages
      <4>3. CASE Done(c)
        BY <4>3, CallFacts DEF Done, TypeOK
      <4> QED BY <4>2, <4>3, <1>3 DEF CreateJob
    <3>5. \A k \in Calls : k # c => call'[k] = call[k]
      BY <1>3 DEF CreateJob, Goto, Done, TypeOK
    <3>6. call'[c].at = "start_erasing" => call'[c].disk = call[c].disk
      <4>2. CASE Goto(c, "start_erasing")
        BY <4>2, GotoFacts DEF CallStages
      <4>3. CASE Done(c)
        BY <4>3, CallFacts DEF Done, TypeOK
      <4> QED BY <4>2, <4>3, <1>3 DEF CreateJob
    <3>7. \A k \in Calls : \A i \in call[k].open : i \in Jobs /\ i # j
      <4> SUFFICES ASSUME NEW k \in Calls, NEW i \in call[k].open PROVE i \in Jobs /\ i # j OBVIOUS
      <4>1. i \in Jobs BY DEF TypeOK, Call
      <4>2. call[k].disk # NoDisk /\ job[i].disk = call[k].disk BY DEF CallsOK
      <4> QED BY <4>1, <4>2, <3>0 DEF NoJob
    <3>8. UNCHANGED <<diskLog, asset>> BY <1>3 DEF CreateJob
    <3> QED BY <3>1, <3>2, <3>4, <3>5, <3>6, <3>7, <3>8 DEF CallsOK, At
  <2>4. LogsOK'
    BY <1>3, DecommissionAssumption DEF LogsOK, CreateJob, Goto, Done, Idle,
      NewCall, CertifiedAfterFlip, CertNumber,
      TypeOK, JobsOK, Job, NoJob, Numbers,
      Flipped
  <2>5. AssetOK' BY <1>3 DEF AssetOK, CreateJob, Goto, Done, Idle, NewCall
  <2> QED BY <2>1, <2>2, <2>3, <2>4, <2>5
<1>4. CASE StartErasing(c)
  <2>1. TypeOK'
    <3>1. call' \in [Calls -> Call]
      BY <1>4, CallFacts DEF StartErasing, Done, TypeOK
    <3>2. "erasing" \in AssetStatus BY DEF AssetStatus
    <3>3. asset' \in AssetStatus /\ assetLog' \subseteq AssetStatus
      BY <3>2, <1>4, TransitionFacts DEF StartErasing
    <3> QED BY <3>1, <3>3, <1>4 DEF StartErasing, TypeOK
  <2>2. JobsOK'
    BY <1>4 DEF JobsOK, StartErasing, Done, Idle, NewCall, TransitionAsset,
      CanTransitionAsset, AssetTransitions
  <2>3. CallsOK'
    BY <1>4 DEF CallsOK, StartErasing, Done, Idle, NewCall, TransitionAsset,
      CanTransitionAsset, AssetTransitions, At, TypeOK
  <2>4. LogsOK'
    BY <1>4 DEF LogsOK, StartErasing, Done, Idle, NewCall, TransitionAsset,
      CanTransitionAsset, AssetTransitions, CertifiedAfterFlip,
      CertNumber, TypeOK
  <2>5. AssetOK'
    BY <1>4 DEF AssetOK, StartErasing, Done, Idle, NewCall, TransitionAsset,
      CanTransitionAsset, AssetTransitions
  <2> QED BY <2>1, <2>2, <2>3, <2>4, <2>5
<1> QED BY <1>1, <1>2, <1>3, <1>4

(* ScrapDisk.                                                              *)
LEMMA ScrapInv ==
    ASSUME DecommissionInv, NEW c \in Calls,
           (\E d \in Disks : ScrapDisk(c, d)) \/ MarkScrapped(c) \/ ListOpenJobs(c) \/
           FailOpenJob(c) \/ ReadAsset(c) \/ ScrapAsset(c)
    PROVE  DecommissionInv'
<1> USE DEF DecommissionInv
<1>1. ASSUME NEW d \in Disks, ScrapDisk(c, d) PROVE DecommissionInv'
  <2>1. TypeOK'
    BY <1>1, DecommissionAssumption DEF TypeOK, ScrapDisk, NewCall, rows,
      RunStages, DiskStatus, AssetStatus,
      JobStatus, Job, NoJob, CallStages, Call,
      Attempts
  <2>2. JobsOK' BY <1>1 DEF JobsOK, ScrapDisk, NewCall, rows
  <2>3. CallsOK'
    BY <1>1, DecommissionAssumption DEF CallsOK, ScrapDisk, NewCall, rows, At,
      TypeOK, JobsOK, Call, Job, NoJob
  <2>4. LogsOK'
    BY <1>1 DEF LogsOK, ScrapDisk, NewCall, rows, CertifiedAfterFlip, CertNumber,
      TypeOK
  <2>5. AssetOK' BY <1>1 DEF AssetOK, ScrapDisk, NewCall, rows
  <2> QED BY <2>1, <2>2, <2>3, <2>4, <2>5
<1>2. CASE MarkScrapped(c)
  <2>1. TypeOK'
    <3>1. call' \in [Calls -> Call]
      BY <1>2, GotoFacts DEF MarkScrapped, CallStages
    <3>2. "scrapped" \in DiskStatus BY DEF DiskStatus
    <3> QED BY <3>1, <3>2, <1>2 DEF MarkScrapped, UpdateDiskStatus, TypeOK
  <2>2. JobsOK' BY <1>2 DEF JobsOK, MarkScrapped, Goto, UpdateDiskStatus
  <2>3. CallsOK'
    BY <1>2 DEF CallsOK, MarkScrapped, Goto, UpdateDiskStatus, At, TypeOK, JobsOK,
      Call, Job, NoJob
  <2>4. LogsOK'
    BY <1>2 DEF LogsOK, MarkScrapped, Goto, UpdateDiskStatus, CertifiedAfterFlip,
      CertNumber, TypeOK
  <2>5. AssetOK' BY <1>2 DEF AssetOK, MarkScrapped, Goto, UpdateDiskStatus
  <2> QED BY <2>1, <2>2, <2>3, <2>4, <2>5
<1>3. CASE ListOpenJobs(c)
  <2>1. TypeOK'
    <3>1. \A S \in SUBSET Jobs : \A k \in Call :
             [k EXCEPT !.at = "fail_jobs", !.open = S] \in Call
      BY DEF Call, CallStages
    <3>2. call[c] \in Call BY DEF TypeOK
    <3>3. PICK open \in SUBSET JobsOf(call[c].disk) :
             call' = [call EXCEPT ![c] = [call[c] EXCEPT !.at = "fail_jobs", !.open = open]]
      BY <1>3, OpenJobs
    <3>4. open \in SUBSET Jobs BY <3>3 DEF JobsOf
    <3>5. call' \in [Calls -> Call] BY <3>1, <3>2, <3>3, <3>4 DEF TypeOK
    <3> QED BY <3>5, <1>3 DEF ListOpenJobs, TypeOK, rows
  <2>2. JobsOK' BY <1>3 DEF JobsOK, ListOpenJobs, JobsOf, rows
  <2>3. CallsOK'
    <3>1. PICK open \in SUBSET JobsOf(call[c].disk) :
             call' = [call EXCEPT ![c] = [call[c] EXCEPT !.at = "fail_jobs", !.open = open]]
      BY <1>3, OpenJobs
    <3>2. UNCHANGED rows /\ At(c, "list_open") BY <1>3 DEF ListOpenJobs
    <3>3. call[c].disk # NoDisk /\ "scrapped" \in diskLog[call[c].disk]
      BY <3>2 DEF CallsOK, At
    <3>4. /\ call'[c].at = "fail_jobs" /\ call'[c].disk = call[c].disk /\ call'[c].open = open
          /\ \A k \in Calls : k # c => call'[k] = call[k]
      BY <3>1 DEF TypeOK, Call
    <3>5. \A j \in open : job[j].disk = call[c].disk BY <3>1 DEF JobsOf
    <3> QED BY <3>2, <3>3, <3>4, <3>5 DEF CallsOK, At, rows
  <2>4. LogsOK'
    BY <1>3 DEF LogsOK, ListOpenJobs, JobsOf, rows, CertifiedAfterFlip,
      CertNumber, TypeOK
  <2>5. AssetOK' BY <1>3 DEF AssetOK, ListOpenJobs, JobsOf, rows
  <2> QED BY <2>1, <2>2, <2>3, <2>4, <2>5
<1>4. CASE FailOpenJob(c)
  <2>1. TypeOK'
    <3>1. ASSUME NEW j \in call[c].open, SetJob(j, "failed") \/ UNCHANGED job,
                 call' = [call EXCEPT ![c].open = @ \ {j}]
          PROVE  job' \in [Jobs -> Job] /\ call' \in [Calls -> Call]
      <4>1. j \in Jobs BY DEF TypeOK, Call
      <4>2. job' \in [Jobs -> Job]
        BY <3>1, <4>1, SetJobFacts DEF JobStatus, TypeOK
      <4>3. call' \in [Calls -> Call] BY <3>1 DEF TypeOK, Call
      <4> QED BY <4>2, <4>3
    <3>2. Goto(c, "read_asset") => call' \in [Calls -> Call]
      BY GotoFacts DEF CallStages
    <3>3. job' \in [Jobs -> Job] /\ call' \in [Calls -> Call]
      BY <1>4, <3>1, <3>2 DEF FailOpenJob, TypeOK
    <3> QED BY <3>3, <1>4 DEF FailOpenJob, TypeOK
  <2>2. /\ job' \in [Jobs -> Job]
        /\ \A k \in Jobs : /\ job'[k].disk = job[k].disk /\ job'[k].attempt = job[k].attempt
                           /\ job'[k] = job[k] \/ (job[k] # NoJob /\ job'[k].status = "failed")
    <3>1. ASSUME NEW j \in call[c].open, SetJob(j, "failed")
          PROVE  \A k \in Jobs : /\ job'[k].disk = job[k].disk /\ job'[k].attempt = job[k].attempt
                                 /\ job'[k] = job[k] \/ (job[k] # NoJob /\ job'[k].status = "failed")
      <4>1. j \in Jobs BY DEF TypeOK, Call
      <4>2. job[j] # NoJob
        BY <4>1, <1>4 DEF FailOpenJob, At, CallsOK, NoJob
      <4>3. job'[j].status = "failed" BY <3>1, <4>1 DEF SetJob, TypeOK, Job
      <4> QED BY <3>1, <4>1, <4>2, <4>3, SetJobFacts DEF JobStatus
    <3>2. job' \in [Jobs -> Job] BY <2>1 DEF TypeOK
    <3> QED BY <3>1, <3>2, <1>4 DEF FailOpenJob
  <2>3. JobsOK'
    <3>1. run' = run BY <1>4 DEF FailOpenJob
    <3> QED BY <2>2, <3>1, JobsFrame
  <2>4. CallsOK'
    <3>1. \A k \in Calls : k # c => call'[k] = call[k]
      BY <1>4 DEF FailOpenJob, Goto, TypeOK
    <3>2. /\ call'[c].disk = call[c].disk /\ call'[c].open \subseteq call[c].open
          /\ call'[c].at \in {"fail_jobs", "read_asset"}
          /\ call'[c].at = "read_asset" => call'[c].open = {}
      BY <1>4 DEF FailOpenJob, Goto, At, TypeOK, Call
    <3>3. \A k \in Calls : \A j \in call[k].open : j \in Jobs BY DEF TypeOK, Call
    <3>4. UNCHANGED <<diskLog, asset>> BY <1>4 DEF FailOpenJob
    <3>5. At(c, "fail_jobs") BY <1>4 DEF FailOpenJob
    <3> QED BY <2>2, <3>1, <3>2, <3>3, <3>4, <3>5 DEF CallsOK, At
  <2>5. LogsOK'
    <3>1. UNCHANGED <<run, disk, diskLog, cert>> BY <1>4 DEF FailOpenJob
    <3> QED BY <2>2, <3>1, LogsFrame
  <2>6. AssetOK' BY <1>4 DEF AssetOK, FailOpenJob, SetJob, Goto
  <2> QED BY <2>1, <2>3, <2>4, <2>5, <2>6
<1>5. CASE ReadAsset(c)
  <2>1. TypeOK'
    <3>1. call' \in [Calls -> Call]
      <4>1. CASE Goto(c, "scrap_asset")
        BY <4>1, GotoFacts DEF CallStages
      <4>2. CASE Done(c)
        BY <4>2, CallFacts DEF Done, TypeOK
      <4> QED BY <4>1, <4>2, <1>5 DEF ReadAsset
    <3> QED BY <3>1, <1>5 DEF ReadAsset, TypeOK, rows
  <2>2. JobsOK' BY <1>5 DEF JobsOK, ReadAsset, Goto, Done, Idle, NewCall, rows
  <2>3. CallsOK'
    <3>1. call[c].open = {} /\ call[c].disk # NoDisk
      BY <1>5 DEF ReadAsset, At, CallsOK
    <3>2. \A k \in Calls : k # c => call'[k] = call[k]
      BY <1>5 DEF ReadAsset, Goto, Done, TypeOK
    <3>3. /\ call'[c].open = {} /\ call'[c].at \in {"idle", "scrap_asset"}
          /\ call'[c].at = "scrap_asset" => call'[c].disk # NoDisk
      BY <1>5, <3>1, CallFacts DEF ReadAsset, Goto, Done, TypeOK, Call
    <3>4. UNCHANGED rows BY <1>5 DEF ReadAsset
    <3> QED BY <3>2, <3>3, <3>4 DEF CallsOK, At, rows
  <2>4. LogsOK'
    BY <1>5 DEF LogsOK, ReadAsset, Goto, Done, Idle, NewCall, rows,
      CertifiedAfterFlip, CertNumber, TypeOK
  <2>5. AssetOK' BY <1>5 DEF AssetOK, ReadAsset, Goto, Done, Idle, NewCall, rows
  <2> QED BY <2>1, <2>2, <2>3, <2>4, <2>5
<1>6. CASE ScrapAsset(c)
  <2>1. TypeOK'
    <3>1. call' \in [Calls -> Call]
      BY <1>6, CallFacts DEF ScrapAsset, Done, TypeOK
    <3>2. "scrapped" \in AssetStatus BY DEF AssetStatus
    <3>3. asset' \in AssetStatus /\ assetLog' \subseteq AssetStatus
      BY <3>2, <1>6, TransitionFacts DEF ScrapAsset
    <3> QED BY <3>1, <3>3, <1>6 DEF ScrapAsset, TypeOK
  <2>2. JobsOK'
    BY <1>6 DEF JobsOK, ScrapAsset, Done, Idle, NewCall, TransitionAsset,
      CanTransitionAsset, AssetTransitions
  <2>3. CallsOK'
    BY <1>6 DEF CallsOK, ScrapAsset, Done, Idle, NewCall, TransitionAsset,
      CanTransitionAsset, AssetTransitions, At, TypeOK
  <2>4. LogsOK'
    BY <1>6 DEF LogsOK, ScrapAsset, Done, Idle, NewCall, TransitionAsset,
      CanTransitionAsset, AssetTransitions, CertifiedAfterFlip,
      CertNumber, TypeOK
  <2>5. AssetOK'
    BY <1>6 DEF AssetOK, ScrapAsset, Done, Idle, NewCall, TransitionAsset,
      CanTransitionAsset, AssetTransitions
  <2> QED BY <2>1, <2>2, <2>3, <2>4, <2>5
<1> QED BY <1>1, <1>2, <1>3, <1>4, <1>5, <1>6

(* Reverify, ConfirmDisposal and requests that are given up.               *)
LEMMA RequestInv ==
    ASSUME DecommissionInv, NEW c \in Calls,
           (\E d \in Disks : Reverify(c, d)) \/ ReverifyEnds(c) \/
           (\E m \in Methods : ConfirmDisposal(c, m)) \/
           SaveDisposal(c) \/ Abandon(c)
    PROVE  DecommissionInv'
<1> USE DEF DecommissionInv
<1>1. ASSUME NEW d \in Disks, Reverify(c, d) PROVE DecommissionInv'
  <2>1. TypeOK'
    BY <1>1, DecommissionAssumption DEF TypeOK, Reverify, NewCall, rows,
      RunStages, DiskStatus, AssetStatus,
      JobStatus, Job, NoJob, CallStages, Call,
      Attempts
  <2>2. JobsOK' BY <1>1 DEF JobsOK, Reverify, NewCall, rows
  <2>3. CallsOK'
    BY <1>1, DecommissionAssumption DEF CallsOK, Reverify, NewCall, rows, At,
      TypeOK, JobsOK, Call, Job, NoJob
  <2>4. LogsOK'
    BY <1>1 DEF LogsOK, Reverify, NewCall, rows, CertifiedAfterFlip, CertNumber,
      TypeOK
  <2>5. AssetOK' BY <1>1 DEF AssetOK, Reverify, NewCall, rows
  <2> QED BY <2>1, <2>2, <2>3, <2>4, <2>5
<1>2. CASE ReverifyEnds(c)
  <2>1. TypeOK'
    <3>1. call' \in [Calls -> Call]
      BY <1>2, CallFacts DEF ReverifyEnds, Done, TypeOK
    <3>2. "failed" \in DiskStatus BY DEF DiskStatus
    <3> QED BY <3>1, <3>2, <1>2 DEF ReverifyEnds, UpdateDiskStatus, TypeOK
  <2>2. JobsOK'
    BY <1>2 DEF JobsOK, ReverifyEnds, Done, Idle, NewCall, UpdateDiskStatus
  <2>3. CallsOK'
    BY <1>2 DEF CallsOK, ReverifyEnds, Done, Idle, NewCall, UpdateDiskStatus, At,
      TypeOK, JobsOK, Call, Job, NoJob
  <2>4. LogsOK'
    <3>1. call[c].disk \in Disks
      BY <1>2 DEF ReverifyEnds, At, CallsOK, TypeOK, Call
    <3>2. \A e \in Disks : /\ diskLog[e] \subseteq diskLog'[e]
                           /\ disk'[e] = disk[e] \/ disk'[e] = "failed"
      BY <3>1, <1>2 DEF ReverifyEnds, UpdateDiskStatus, TypeOK
    <3>3. UNCHANGED <<job, run, cert>> BY <1>2 DEF ReverifyEnds
    <3>4. CertifiedAfterFlip'
      BY <3>2, <3>3 DEF LogsOK, CertifiedAfterFlip, CertNumber, Numbers
    <3>5. \A j \in Jobs : run[j] \in Flipped => job[j].disk \in Disks
      BY DEF JobsOK, TypeOK, Job, Flipped
    <3> QED BY <3>2, <3>3, <3>4, <3>5 DEF LogsOK
  <2>5. AssetOK'
    BY <1>2 DEF AssetOK, ReverifyEnds, Done, Idle, NewCall, UpdateDiskStatus
  <2> QED BY <2>1, <2>2, <2>3, <2>4, <2>5
<1>3. ASSUME NEW m \in Methods, ConfirmDisposal(c, m) PROVE DecommissionInv'
  <2>1. TypeOK'
    <3>1. call' \in [Calls -> Call]
      BY <1>3, CallFacts DEF ConfirmDisposal, TypeOK, CallStages
    <3> QED BY <1>3, <3>1 DEF ConfirmDisposal, TypeOK, rows
  <2>2. JobsOK' BY <1>3 DEF JobsOK, ConfirmDisposal, NewCall, rows
  <2>3. CallsOK'
    BY <1>3, DecommissionAssumption DEF CallsOK, ConfirmDisposal, NewCall, rows,
      At, TypeOK, JobsOK, Call, Job, NoJob
  <2>4. LogsOK'
    BY <1>3 DEF LogsOK, ConfirmDisposal, NewCall, rows, CertifiedAfterFlip,
      CertNumber, TypeOK
  <2>5. AssetOK' BY <1>3 DEF AssetOK, ConfirmDisposal, NewCall, rows
  <2> QED BY <2>1, <2>2, <2>3, <2>4, <2>5
<1>4. CASE SaveDisposal(c)
  <2>1. TypeOK'
    <3>1. call' \in [Calls -> Call]
      BY <1>4, CallFacts DEF SaveDisposal, Done, TypeOK
    <3>2. call[c].method \in Methods \cup {Unsigned}
      BY DEF TypeOK, Call
    <3> QED BY <3>1, <3>2, <1>4 DEF SaveDisposal, TypeOK, AssetStatus
  <2>2. JobsOK'
    BY <1>4 DEF JobsOK, SaveDisposal, Done, Idle, NewCall, CanTransitionAsset,
      AssetTransitions
  <2>3. CallsOK'
    BY <1>4 DEF CallsOK, SaveDisposal, Done, Idle, NewCall, CanTransitionAsset,
      AssetTransitions, At, TypeOK
  <2>4. LogsOK'
    BY <1>4 DEF LogsOK, SaveDisposal, Done, Idle, NewCall, CanTransitionAsset,
      AssetTransitions, CertifiedAfterFlip, CertNumber, TypeOK
  <2>5. AssetOK'
    BY <1>4 DEF AssetOK, SaveDisposal, Done, Idle, NewCall, CanTransitionAsset,
      AssetTransitions, TypeOK, At, CallsOK, JobsOK
  <2> QED BY <2>1, <2>2, <2>3, <2>4, <2>5
<1>5. CASE Abandon(c)
  <2>1. TypeOK'
    BY <1>5, DecommissionAssumption DEF TypeOK, Abandon, Done, Idle, NewCall,
      rows, RunStages, DiskStatus, AssetStatus,
      JobStatus, Job, NoJob, CallStages, Call,
      Attempts
  <2>2. JobsOK' BY <1>5 DEF JobsOK, Abandon, Done, Idle, NewCall, rows
  <2>3. CallsOK' BY <1>5 DEF CallsOK, Abandon, Done, Idle, NewCall, rows, At, TypeOK
  <2>4. LogsOK'
    BY <1>5 DEF LogsOK, Abandon, Done, Idle, NewCall, rows, CertifiedAfterFlip,
      CertNumber, TypeOK
  <2>5. AssetOK' BY <1>5 DEF AssetOK, Abandon, Done, Idle, NewCall, rows
  <2> QED BY <2>1, <2>2, <2>3, <2>4, <2>5
<1> QED BY <1>1, <1>2, <1>3, <1>4, <1>5

(* runJob up to the verdict of the engine.                                 *)
LEMMA RunInv ==
    ASSUME DecommissionInv, NEW j \in Jobs,
           AcquireNextJob(j) \/ MarkJobRunning(j) \/ MarkErasing(j) \/
           SaveProgress(j) \/ Mismatch(j) \/ MarkFailed(j) \/ Passed(j) \/
           FailJob(j) \/ GiveUp(j)
    PROVE  DecommissionInv'
<1> USE DEF DecommissionInv
<1>1. CASE AcquireNextJob(j)
  <2>1. TypeOK'
    BY <1>1 DEF TypeOK, AcquireNextJob, Enter, Claimable, RunStages, DiskStatus,
      AssetStatus, JobStatus, Job, NoJob
  <2>2. JobsOK'
    BY <1>1 DEF JobsOK, AcquireNextJob, Enter, Claimable, TypeOK, Job, NoJob
  <2>3. CallsOK' BY <1>1 DEF CallsOK, AcquireNextJob, Enter, Claimable, At, TypeOK
  <2>4. LogsOK'
    BY <1>1 DEF LogsOK, AcquireNextJob, Enter, Claimable, CertifiedAfterFlip,
      CertNumber, TypeOK, JobsOK, Job, NoJob, Numbers, Flipped
  <2>5. AssetOK' BY <1>1 DEF AssetOK, AcquireNextJob, Enter, Claimable
  <2> QED BY <2>1, <2>2, <2>3, <2>4, <2>5
<1>2. CASE MarkJobRunning(j)
  <2>1. TypeOK'
    BY <1>2 DEF TypeOK, MarkJobRunning, Enter, SetJob, RunStages, DiskStatus,
      AssetStatus, JobStatus, Job, NoJob
  <2>2. JobsOK'
    BY <1>2 DEF JobsOK, MarkJobRunning, Enter, SetJob, TypeOK, Job, NoJob
  <2>3. CallsOK' BY <1>2 DEF CallsOK, MarkJobRunning, Enter, SetJob, At, TypeOK
  <2>4. LogsOK'
    BY <1>2 DEF LogsOK, MarkJobRunning, Enter, SetJob, CertifiedAfterFlip,
      CertNumber, TypeOK, JobsOK, Job, NoJob, Numbers, Flipped
  <2>5. AssetOK' BY <1>2 DEF AssetOK, MarkJobRunning, Enter, SetJob
  <2> QED BY <2>1, <2>2, <2>3, <2>4, <2>5
<1>3. CASE MarkErasing(j)
  <2>1. TypeOK'
    BY <1>3 DEF TypeOK, MarkErasing, Enter, UpdateDiskStatus, RunStages,
      DiskStatus, AssetStatus, JobStatus, Job, NoJob
  <2>2. JobsOK' BY <1>3 DEF JobsOK, MarkErasing, Enter, UpdateDiskStatus
  <2>3. CallsOK'
    BY <1>3 DEF CallsOK, MarkErasing, Enter, UpdateDiskStatus, At, TypeOK, JobsOK,
      Call, Job, NoJob
  <2>4. LogsOK'
    BY <1>3 DEF LogsOK, MarkErasing, Enter, UpdateDiskStatus, CertifiedAfterFlip,
      CertNumber, TypeOK, JobsOK, Job, NoJob, Numbers, Flipped
  <2>5. AssetOK' BY <1>3 DEF AssetOK, MarkErasing, Enter, UpdateDiskStatus
  <2> QED BY <2>1, <2>2, <2>3, <2>4, <2>5
<1>4. CASE SaveProgress(j)
  <2>1. TypeOK'
    <3>1. job' \in [Jobs -> Job]
      BY <1>4, SetJobFacts DEF SaveProgress, JobStatus
    <3> QED BY <3>1, <1>4 DEF SaveProgress, TypeOK
  <2>2. JobsOK' BY <1>4 DEF JobsOK, SaveProgress, SetJob, TypeOK, Job, NoJob
  <2>3. CallsOK' BY <1>4 DEF CallsOK, SaveProgress, SetJob, At, TypeOK
  <2>4. LogsOK'
    BY <1>4 DEF LogsOK, SaveProgress, SetJob, CertifiedAfterFlip, CertNumber,
      TypeOK
  <2>5. AssetOK' BY <1>4 DEF AssetOK, SaveProgress, SetJob
  <2> QED BY <2>1, <2>2, <2>3, <2>4, <2>5
<1>5. CASE Mismatch(j)
  <2>1. TypeOK'
    <3>1. job' \in [Jobs -> Job]
      BY <1>5, SetJobFacts DEF Mismatch, JobStatus
    <3> QED BY <3>1, <1>5 DEF Mismatch, Enter, RunStages, TypeOK
  <2>2. JobsOK' BY <1>5 DEF JobsOK, Mismatch, SetJob, Enter, TypeOK, Job, NoJob
  <2>3. CallsOK'
    BY <1>5 DEF CallsOK, Mismatch, SetJob, Enter, At, TypeOK, JobsOK, Call, Job,
      NoJob
  <2>4. LogsOK'
    <3>1. \A k \in Jobs : job'[k].disk = job[k].disk /\ job'[k].attempt = job[k].attempt
      BY <1>5, SetJobFacts DEF Mismatch, JobStatus
    <3>2. \A k \in Jobs : run'[k] \in Flipped => run[k] \in Flipped
      BY <1>5 DEF Mismatch, Enter, Flipped, TypeOK
    <3>3. UNCHANGED <<disk, diskLog, cert>> BY <1>5 DEF Mismatch
    <3> QED BY <3>1, <3>2, <3>3, LogsFrame
  <2>5. AssetOK' BY <1>5 DEF AssetOK, Mismatch, SetJob, Enter
  <2> QED BY <2>1, <2>2, <2>3, <2>4, <2>5
<1>6. CASE MarkFailed(j)
  <2>1. TypeOK'
    BY <1>6 DEF TypeOK, MarkFailed, UpdateDiskStatus, Enter, RunStages,
      DiskStatus, AssetStatus, JobStatus, Job, NoJob
  <2>2. JobsOK' BY <1>6 DEF JobsOK, MarkFailed, UpdateDiskStatus, Enter
  <2>3. CallsOK'
    BY <1>6 DEF CallsOK, MarkFailed, UpdateDiskStatus, Enter, At, TypeOK, JobsOK,
      Call, Job, NoJob
  <2>4. LogsOK'
    BY <1>6, DecommissionAssumption, CallFacts DEF LogsOK, MarkFailed,
      UpdateDiskStatus, Enter,
      CertifiedAfterFlip, CertNumber,
      TypeOK, JobsOK, Job, NoJob,
      Numbers, Flipped
  <2>5. AssetOK' BY <1>6 DEF AssetOK, MarkFailed, UpdateDiskStatus, Enter
  <2> QED BY <2>1, <2>2, <2>3, <2>4, <2>5
<1>7. CASE Passed(j)
  <2>1. TypeOK'
    <3>1. job' \in [Jobs -> Job]
      BY <1>7, SetJobFacts DEF Passed, JobStatus
    <3> QED BY <3>1, <1>7 DEF Passed, Enter, RunStages, TypeOK
  <2>2. JobsOK' BY <1>7 DEF JobsOK, Passed, SetJob, Enter, TypeOK, Job, NoJob
  <2>3. CallsOK'
    BY <1>7 DEF CallsOK, Passed, SetJob, Enter, At, TypeOK, JobsOK, Call, Job,
      NoJob
  <2>4. LogsOK'
    <3>1. \A k \in Jobs : job'[k].disk = job[k].disk /\ job'[k].attempt = job[k].attempt
      BY <1>7, SetJobFacts DEF Passed, JobStatus
    <3>2. \A k \in Jobs : run'[k] \in Flipped => run[k] \in Flipped
      BY <1>7 DEF Passed, Enter, Flipped, TypeOK
    <3>3. UNCHANGED <<disk, diskLog, cert>> BY <1>7 DEF Passed
    <3> QED BY <3>1, <3>2, <3>3, LogsFrame
  <2>5. AssetOK' BY <1>7 DEF AssetOK, Passed, SetJob, Enter
  <2> QED BY <2>1, <2>2, <2>3, <2>4, <2>5
<1>8. CASE FailJob(j)
  <2>1. TypeOK'
    <3>1. job' \in [Jobs -> Job]
      BY <1>8, SetJobFacts DEF FailJob, JobStatus
    <3> QED BY <3>1, <1>8 DEF FailJob, Enter, RunStages, TypeOK
  <2>2. JobsOK' BY <1>8 DEF JobsOK, FailJob, SetJob, Enter, TypeOK, Job, NoJob
  <2>3. CallsOK'
    BY <1>8 DEF CallsOK, FailJob, SetJob, Enter, At, TypeOK, JobsOK, Call, Job,
      NoJob
  <2>4. LogsOK'
    <3>1. \A k \in Jobs : job'[k].disk = job[k].disk /\ job'[k].attempt = job[k].attempt
      BY <1>8, SetJobFacts DEF FailJob, JobStatus
    <3>2. \A k \in Jobs : run'[k] \in Flipped => run[k] \in Flipped
      BY <1>8 DEF FailJob, Enter, Flipped, TypeOK
    <3>3. UNCHANGED <<disk, diskLog, cert>> BY <1>8 DEF FailJob
    <3> QED BY <3>1, <3>2, <3>3, LogsFrame
  <2>5. AssetOK' BY <1>8 DEF AssetOK, FailJob, SetJob, Enter
  <2> QED BY <2>1, <2>2, <2>3, <2>4, <2>5
<1>9. CASE GiveUp(j)
  <2>1. TypeOK'
    BY <1>9 DEF TypeOK, GiveUp, Enter, rows, RunStages, DiskStatus, AssetStatus,
      JobStatus, Job, NoJob
  <2>2. JobsOK' BY <1>9 DEF JobsOK, GiveUp, Enter, rows
  <2>3. CallsOK' BY <1>9 DEF CallsOK, GiveUp, Enter, rows, At, TypeOK
  <2>4. LogsOK'
    BY <1>9 DEF LogsOK, GiveUp, Enter, rows, CertifiedAfterFlip, CertNumber,
      TypeOK, JobsOK, Job, NoJob, Numbers, Flipped
  <2>5. AssetOK' BY <1>9 DEF AssetOK, GiveUp, Enter, rows
  <2> QED BY <2>1, <2>2, <2>3, <2>4, <2>5
<1> QED BY <1>1, <1>2, <1>3, <1>4, <1>5, <1>6, <1>7, <1>8, <1>9

(* runJob after a passed verification.                                     *)
LEMMA FinalizeInv ==
    ASSUME DecommissionInv, NEW j \in Jobs,
           MarkVerified(j) \/ CompleteVerified(j) \/ UploadReport(j) \/
           SaveCertificate(j) \/ ListDisks(j) \/ FinishAsset(j)
    PROVE  DecommissionInv'
<1> USE DEF DecommissionInv
<1>1. CASE MarkVerified(j)
  <2>1. TypeOK'
    BY <1>1 DEF TypeOK, MarkVerified, UpdateDiskStatus, Enter, RunStages,
      DiskStatus, AssetStatus, JobStatus, Job, NoJob
  <2>2. JobsOK' BY <1>1 DEF JobsOK, MarkVerified, UpdateDiskStatus, Enter
  <2>3. CallsOK'
    BY <1>1 DEF CallsOK, MarkVerified, UpdateDiskStatus, Enter, At, TypeOK
  <2>4. LogsOK'
    BY <1>1 DEF LogsOK, MarkVerified, UpdateDiskStatus, Enter, CertifiedAfterFlip,
      CertNumber, TypeOK, JobsOK, Job, NoJob, Numbers, Flipped
  <2>5. AssetOK' BY <1>1 DEF AssetOK, MarkVerified, UpdateDiskStatus, Enter
  <2> QED BY <2>1, <2>2, <2>3, <2>4, <2>5
<1>2. CASE CompleteVerified(j)
  <2>1. TypeOK'
    <3>1. job' \in [Jobs -> Job]
      BY <1>2, SetJobFacts DEF CompleteVerified, JobStatus
    <3> QED BY <3>1, <1>2 DEF CompleteVerified, Enter, RunStages, TypeOK
  <2>2. JobsOK'
    BY <1>2 DEF JobsOK, CompleteVerified, SetJob, Enter, TypeOK, Job, NoJob
  <2>3. CallsOK'
    BY <1>2 DEF CallsOK, CompleteVerified, SetJob, Enter, At, TypeOK, JobsOK,
      Call, Job, NoJob
  <2>4. LogsOK'
    <3>1. \A k \in Jobs : job'[k].disk = job[k].disk /\ job'[k].attempt = job[k].attempt
      BY <1>2, SetJobFacts DEF CompleteVerified, JobStatus
    <3>2. \A k \in Jobs : run'[k] \in Flipped => run[k] \in Flipped
      BY <1>2 DEF CompleteVerified, Enter, Flipped, TypeOK
    <3>3. UNCHANGED <<disk, diskLog, cert>> BY <1>2 DEF CompleteVerified
    <3> QED BY <3>1, <3>2, <3>3, LogsFrame
  <2>5. AssetOK' BY <1>2 DEF AssetOK, CompleteVerified, SetJob, Enter
  <2> QED BY <2>1, <2>2, <2>3, <2>4, <2>5
<1>3. CASE UploadReport(j)
  <2>1. TypeOK'
    <3>1. CertNumber(j) \in Numbers
      BY <1>3 DEF UploadReport, CertNumber, Numbers, JobsOK, TypeOK, Job
    <3>2. j \in 0..MaxJobs BY DEF Jobs
    <3> QED BY <3>1, <3>2, <1>3 DEF UploadReport, Enter, RunStages, TypeOK
  <2>2. JobsOK' BY <1>3 DEF JobsOK, UploadReport, Enter
  <2>3. CallsOK' BY <1>3 DEF CallsOK, UploadReport, Enter, At, TypeOK
  <2>4. LogsOK'
    BY <1>3 DEF LogsOK, UploadReport, Enter, CertifiedAfterFlip, CertNumber,
      TypeOK, JobsOK, Job, NoJob, Numbers, Flipped
  <2>5. AssetOK' BY <1>3 DEF AssetOK, UploadReport, Enter
  <2> QED BY <2>1, <2>2, <2>3, <2>4, <2>5
<1>4. CASE SaveCertificate(j)
  <2>1. TypeOK'
    <3>1. CertNumber(j) \in Numbers
      BY <1>4 DEF SaveCertificate, CertNumber, Numbers, JobsOK, TypeOK, Job
    <3>2. j \in 0..MaxJobs BY DEF Jobs
    <3>3. cert' \in [Numbers -> 0..MaxJobs]
      BY <3>1, <3>2, <1>4 DEF SaveCertificate, TypeOK
    <3> QED BY <3>3, <1>4 DEF SaveCertificate, Enter, RunStages, TypeOK
  <2>2. JobsOK' BY <1>4 DEF JobsOK, SaveCertificate, Enter, TypeOK
  <2>3. CallsOK' BY <1>4 DEF CallsOK, SaveCertificate, Enter, At, TypeOK
  <2>4. LogsOK'
    <3>1. CertNumber(j) \in Numbers
      BY <1>4 DEF SaveCertificate, CertNumber, Numbers, JobsOK, TypeOK, Job
    <3>2. UNCHANGED <<job, disk, diskLog>> BY <1>4 DEF SaveCertificate
    <3>3. \A n \in Numbers : cert'[n] = cert[n] \/ (n = CertNumber(j) /\ cert'[n] = j)
      BY <3>1, <1>4 DEF SaveCertificate, TypeOK
    <3>4. "verified" \in diskLog[job[j].disk]
      BY <1>4 DEF SaveCertificate, LogsOK, Flipped
    <3>5. CertNumber(j)[1] = job[j].disk BY DEF CertNumber
    <3>6. \A k \in Nat : CertNumber(k)' = CertNumber(k) BY <3>2 DEF CertNumber
    <3>7. \A n \in Numbers : cert'[n] \in Nat
      BY <3>3 DEF TypeOK, Jobs
    <3>8. CertifiedAfterFlip'
      BY <3>2, <3>3, <3>4, <3>5, <3>6, <3>7 DEF LogsOK, CertifiedAfterFlip
    <3>9. \A k \in Jobs : run'[k] \in Flipped => run[k] \in Flipped
      BY <1>4 DEF SaveCertificate, Enter, Flipped, TypeOK
    <3> QED BY <3>2, <3>8, <3>9 DEF LogsOK
  <2>5. AssetOK' BY <1>4 DEF AssetOK, SaveCertificate, Enter
  <2> QED BY <2>1, <2>2, <2>3, <2>4, <2>5
<1>5. CASE ListDisks(j)
  <2>1. TypeOK'
    BY <1>5 DEF TypeOK, ListDisks, Enter, rows, RunStages, DiskStatus,
      AssetStatus, JobStatus, Job, NoJob
  <2>2. JobsOK' BY <1>5 DEF JobsOK, ListDisks, Enter, rows
  <2>3. CallsOK' BY <1>5 DEF CallsOK, ListDisks, Enter, rows, At, TypeOK
  <2>4. LogsOK'
    BY <1>5 DEF LogsOK, ListDisks, Enter, rows, CertifiedAfterFlip, CertNumber,
      TypeOK, JobsOK, Job, NoJob, Numbers, Flipped
  <2>5. AssetOK' BY <1>5 DEF AssetOK, ListDisks, Enter, rows
  <2> QED BY <2>1, <2>2, <2>3, <2>4, <2>5
<1>6. CASE FinishAsset(j)
  <2>1. TypeOK'
    BY <1>6 DEF TypeOK, FinishAsset, Enter, TransitionAsset, CanTransitionAsset,
      AssetTransitions, RunStages, DiskStatus, AssetStatus, JobStatus,
      Job, NoJob
  <2>2. JobsOK'
    BY <1>6 DEF JobsOK, FinishAsset, Enter, TransitionAsset, CanTransitionAsset,
      AssetTransitions
  <2>3. CallsOK'
    BY <1>6 DEF CallsOK, FinishAsset, Enter, TransitionAsset, CanTransitionAsset,
      AssetTransitions, At, TypeOK
  <2>4. LogsOK'
    BY <1>6 DEF LogsOK, FinishAsset, Enter, TransitionAsset, CanTransitionAsset,
      AssetTransitions, CertifiedAfterFlip, CertNumber, TypeOK, JobsOK,
      Job, NoJob, Numbers, Flipped
  <2>5. AssetOK'
    BY <1>6 DEF AssetOK, FinishAsset, Enter, TransitionAsset, CanTransitionAsset,
      AssetTransitions
  <2> QED BY <2>1, <2>2, <2>3, <2>4, <2>5
<1> QED BY <1>1, <1>2, <1>3, <1>4, <1>5, <1>6

(* The death of the process.                                               *)
LEMMA CrashInv ==
    ASSUME DecommissionInv, Crash
    PROVE  DecommissionInv'
<1> USE DEF DecommissionInv
<1>1. CASE Crash
  <2>1. TypeOK'
    BY <1>1, DecommissionAssumption DEF TypeOK, Crash, Idle, NewCall, rows,
      RunStages, DiskStatus, AssetStatus,
      JobStatus, Job, NoJob, CallStages, Call,
      Attempts
  <2>2. JobsOK' BY <1>1 DEF JobsOK, Crash, Idle, NewCall, rows
  <2>3. CallsOK' BY <1>1 DEF CallsOK, Crash, Idle, NewCall, rows, At, TypeOK
  <2>4. LogsOK'
    BY <1>1 DEF LogsOK, Crash, Idle, NewCall, rows, CertifiedAfterFlip,
      CertNumber, TypeOK, JobsOK, Job, NoJob, Numbers, Flipped
  <2>5. AssetOK' BY <1>1 DEF AssetOK, Crash, Idle, NewCall, rows
  <2> QED BY <2>1, <2>2, <2>3, <2>4, <2>5
<1> QED BY <1>1

-----------------------------------------------------------------------------
LEMMA InitDecommission == Init => DecommissionInv
<1> SUFFICES ASSUME Init PROVE DecommissionInv OBVIOUS
<1>1. NoJob \in Job
  BY DecommissionAssumption DEF NoJob, Job, JobStatus, Attempts
<1>2. 0 \in 0..MaxJobs /\ 0 \in 0..MaxCrashes BY DecommissionAssumption
<1>3. TypeOK
  BY <1>1, <1>2, CallFacts DEF Init, TypeOK, AssetStatus, DiskStatus, RunStages
<1>4. JobsOK BY DEF Init, JobsOK, NoJob
<1>5. CallsOK BY DEF Init, CallsOK, Idle, NewCall, At
<1>6. LogsOK BY DEF Init, LogsOK, CertifiedAfterFlip, Flipped
<1>7. AssetOK BY DEF Init, AssetOK
<1> QED BY <1>3, <1>4, <1>5, <1>6, <1>7 DEF DecommissionInv

LEMMA NextDecommission == DecommissionInv /\ [Next]_vars => DecommissionInv'
<1> SUFFICES ASSUME DecommissionInv, [Next]_vars PROVE DecommissionInv' OBVIOUS
<1>1. CASE Pull BY <1>1, PullInv DEF Pull
<1>2. ASSUME NEW c \in Calls, Ask(c) \/ Answer(c) \/ Abandon(c) PROVE DecommissionInv'
  BY <1>2, QueueInv, ScrapInv, RequestInv DEF Ask, Answer
<1>3. ASSUME NEW j \in Jobs, Work(j) \/ SaveProgress(j) \/ FailJob(j) \/ GiveUp(j)
      PROVE  DecommissionInv'
  BY <1>3, RunInv, FinalizeInv DEF Work
<1>4. CASE Crash BY <1>4, CrashInv
<1>5. CASE UNCHANGED vars
  BY <1>5 DEF vars, rows, DecommissionInv, TypeOK, JobsOK, CallsOK, LogsOK, AssetOK,
              CertifiedAfterFlip, CertNumber, At
<1> QED BY <1>1, <1>2, <1>3, <1>4, <1>5 DEF Next

THEOREM DecommissionInvariant == Spec => []DecommissionInv
BY InitDecommission, NextDecommission, PTL DEF Spec

(* Type correctness.                                                       *)
THEOREM DecommissionTypeCorrect == Spec => []TypeOK
<1>1. DecommissionInv => TypeOK BY DEF DecommissionInv
<1> QED BY <1>1, DecommissionInvariant, PTL

(* No certificate before the disk's row is flipped, whatever crashes,      *)
(* failing calls and scrapped disks do in between.                         *)
THEOREM AlwaysCertifiedAfterFlip == Spec => []CertifiedAfterFlip
<1>1. DecommissionInv => CertifiedAfterFlip BY DEF DecommissionInv, LogsOK
<1> QED BY <1>1, DecommissionInvariant, PTL

-----------------------------------------------------------------------------
(* How a step may move the asset, and what never goes back.                *)
LEMMA AssetStep ==
    ASSUME TypeOK, Next
    PROVE  /\ \/ asset' = asset
              \/ PullTransition /\ asset = "pending" /\ asset' = "disk_pulled"
              \/ asset = "disk_pulled" /\ asset' = "erasing"
              \/ asset \in {"disk_pulled", "erasing"} /\ asset' = "scrapped"
              \/ /\ asset = "erasing" /\ asset' = "erasure_verified"
                 /\ \E j \in Jobs : FinishAsset(j)
              \/ /\ asset \in {"erasure_verified", "scrapped"} /\ asset' = "disposed"
                 /\ \E c \in Calls : SaveDisposal(c)
           /\ assetLog \subseteq assetLog'
           /\ disposal' = disposal \/ \E c \in Calls : SaveDisposal(c) /\ disposal = Unsigned
<1> USE DEF TransitionAsset, CanTransitionAsset, AssetTransitions
<1>1. CASE Pull BY <1>1 DEF Pull, PullTransition, CreateDisk
<1>2. ASSUME NEW c \in Calls, Ask(c) \/ Abandon(c) PROVE UNCHANGED <<asset, assetLog, disposal>>
  BY <1>2 DEF Ask, CreateErasureJob, ScrapDisk, Reverify, ConfirmDisposal, Abandon, rows
<1>3. ASSUME NEW c \in Calls, Answer(c), ~StartErasing(c), ~ScrapAsset(c), ~SaveDisposal(c)
      PROVE  UNCHANGED <<asset, assetLog, disposal>>
  BY <1>3 DEF Answer, CountJobs, CreateJob, MarkScrapped, ListOpenJobs, FailOpenJob,
              ReadAsset, ReverifyEnds, rows
<1>4. ASSUME NEW c \in Calls, StartErasing(c) \/ ScrapAsset(c)
      PROVE  /\ \/ asset' = asset
                \/ asset = "disk_pulled" /\ asset' = "erasing"
                \/ asset \in {"disk_pulled", "erasing"} /\ asset' = "scrapped"
             /\ assetLog \subseteq assetLog' /\ disposal' = disposal
  BY <1>4 DEF StartErasing, ScrapAsset
<1>5. ASSUME NEW c \in Calls, SaveDisposal(c)
      PROVE  /\ \/ asset' = asset
                \/ asset \in {"erasure_verified", "scrapped"} /\ asset' = "disposed"
             /\ assetLog \subseteq assetLog'
             /\ disposal' = disposal \/ disposal = Unsigned
  BY <1>5 DEF SaveDisposal
<1>6. ASSUME NEW j \in Jobs, Work(j) \/ SaveProgress(j) \/ FailJob(j) \/ GiveUp(j), ~FinishAsset(j)
      PROVE  UNCHANGED <<asset, assetLog, disposal>>
  BY <1>6 DEF Work, AcquireNextJob, MarkJobRunning, MarkErasing, Mismatch, MarkFailed,
              Passed, MarkVerified, CompleteVerified, UploadReport, SaveCertificate,
              ListDisks, SaveProgress, FailJob, GiveUp, rows
<1>7. ASSUME NEW j \in Jobs, FinishAsset(j)
      PROVE  /\ asset' = asset \/ (asset = "erasing" /\ asset' = "erasure_verified")
             /\ assetLog \subseteq assetLog' /\ disposal' = disposal
  BY <1>7 DEF FinishAsset
<1>8. CASE Crash BY <1>8 DEF Crash, rows
<1> QED BY <1>1, <1>2, <1>3, <1>4, <1>5, <1>6, <1>7, <1>8 DEF Next

LEMMA DiskStep ==
    ASSUME TypeOK, Next, NEW d \in Disks
    PROVE  /\ diskLog[d] \subseteq diskLog'[d]
           /\ disk[d] # "none" => disk'[d] # "none"
<1> USE DEF TypeOK, UpdateDiskStatus
<1>1. CASE Pull BY <1>1 DEF Pull, PullTransition, CreateDisk
<1>2. ASSUME NEW c \in Calls, Ask(c) \/ Abandon(c) PROVE UNCHANGED <<disk, diskLog>>
  BY <1>2 DEF Ask, CreateErasureJob, ScrapDisk, Reverify, ConfirmDisposal, Abandon, rows
<1>3. ASSUME NEW c \in Calls, Answer(c), ~MarkScrapped(c), ~ReverifyEnds(c)
      PROVE  UNCHANGED <<disk, diskLog>>
  BY <1>3 DEF Answer, CountJobs, CreateJob, StartErasing, ListOpenJobs, FailOpenJob,
              ReadAsset, ScrapAsset, SaveDisposal, rows
<1>4. ASSUME NEW c \in Calls, MarkScrapped(c) \/ ReverifyEnds(c)
      PROVE  diskLog[d] \subseteq diskLog'[d] /\ (disk[d] # "none" => disk'[d] # "none")
  BY <1>4 DEF MarkScrapped, ReverifyEnds
<1>5. ASSUME NEW j \in Jobs, Work(j) \/ SaveProgress(j) \/ FailJob(j) \/ GiveUp(j),
             ~MarkErasing(j), ~MarkFailed(j), ~MarkVerified(j)
      PROVE  UNCHANGED <<disk, diskLog>>
  BY <1>5 DEF Work, AcquireNextJob, MarkJobRunning, Mismatch, Passed, CompleteVerified,
              UploadReport, SaveCertificate, ListDisks, FinishAsset, SaveProgress, FailJob,
              GiveUp, rows
<1>6. ASSUME NEW j \in Jobs, MarkErasing(j) \/ MarkFailed(j) \/ MarkVerified(j)
      PROVE  diskLog[d] \subseteq diskLog'[d] /\ (disk[d] # "none" => disk'[d] # "none")
  BY <1>6 DEF MarkErasing, MarkFailed, MarkVerified
<1>7. CASE Crash BY <1>7 DEF Crash, rows
<1> QED BY <1>1, <1>2, <1>3, <1>4, <1>5, <1>6, <1>7 DEF Next

-----------------------------------------------------------------------------
(* The life of the asset.                                                  *)
LEMMA LifecycleStep ==
    DecommissionInv /\ [Next]_vars => [Lifecycle!Next]_<<asset, disposal>>
<1> SUFFICES ASSUME DecommissionInv, [Next]_vars
             PROVE  [Lifecycle!Next]_<<asset, disposal>> OBVIOUS
<1> USE DEF Lifecycle!Next, Lifecycle!Move, Lifecycle!Moves, Lifecycle!Sign
<1>1. CASE UNCHANGED vars BY <1>1 DEF vars, rows
<1>2. ASSUME NEW c \in Calls, SaveDisposal(c) PROVE Lifecycle!Sign \/ UNCHANGED <<asset, disposal>>
  <2>1. /\ asset \in {"erasure_verified", "scrapped", "disposed"}
        /\ call[c].method # ApprovedMethod => call[c].method = "destroy" /\ asset # "erasure_verified"
    BY <1>2 DEF SaveDisposal, DecommissionInv, CallsOK
  <2>2. disposal = Unsigned <=> asset # "disposed" BY DEF DecommissionInv, AssetOK
  <2> QED BY <1>2, <2>1, <2>2 DEF SaveDisposal
<1>3. CASE Next /\ ~\E c \in Calls : SaveDisposal(c)
  <2>1. disposal' = disposal BY <1>3, AssetStep DEF DecommissionInv
  <2>2. asset' = asset \/ <<asset, asset'>> \in Lifecycle!Moves
    BY <1>3, AssetStep DEF DecommissionInv
  <2> QED BY <2>1, <2>2
<1> QED BY <1>1, <1>2, <1>3

(* Over all interleavings of requests and goroutines the asset lives the   *)
(* life AssetLifecycle promises: one signature, at the end, by a method    *)
(* that was allowed when it was given.                                     *)
THEOREM DecommissionImplementsLifecycle == Spec => ImplementsLifecycle
<1>1. Init => Lifecycle!Init BY DEF Init, Lifecycle!Init
<1> QED BY <1>1, LifecycleStep, DecommissionInvariant, PTL
        DEF Spec, ImplementsLifecycle, Lifecycle!Spec

-----------------------------------------------------------------------------
(* The results of jobs.                                                    *)
LEMMA VerifiedStep ==
    ASSUME DecommissionInv, Next, NEW j \in Jobs,
           job[j].status = "verified", job'[j].status # "verified"
    PROVE  "scrapped" \in diskLog[job[j].disk]
<1> USE DEF DecommissionInv
<1>0. job[j] # NoJob BY DEF NoJob
<1>1. ASSUME NEW c \in Calls, FailOpenJob(c) PROVE "scrapped" \in diskLog[job[j].disk]
  <2>1. PICK k \in call[c].open : SetJob(k, "failed") BY <1>1 DEF FailOpenJob, NoJob
  <2>2. k = j BY <2>1 DEF SetJob, TypeOK, Call
  <2> QED BY <1>1, <2>1, <2>2 DEF FailOpenJob, At, CallsOK
<1>2. ASSUME NEW c \in Calls, Ask(c) \/ Abandon(c) PROVE UNCHANGED job
  BY <1>2 DEF Ask, CreateErasureJob, ScrapDisk, Reverify, ConfirmDisposal, Abandon, rows
<1>3. ASSUME NEW c \in Calls, Answer(c), ~FailOpenJob(c) PROVE job'[j] = job[j]
  <2>1. CASE CreateJob(c) BY <1>0, <2>1 DEF CreateJob, TypeOK
  <2>2. CASE ~CreateJob(c)
    BY <1>3, <2>2 DEF Answer, CountJobs, StartErasing, MarkScrapped, ListOpenJobs, ReadAsset,
                      ScrapAsset, ReverifyEnds, SaveDisposal, rows
  <2> QED BY <2>1, <2>2
<1>4. ASSUME NEW k \in Jobs, Work(k) \/ SaveProgress(k) \/ FailJob(k) \/ GiveUp(k) PROVE FALSE
  <2>1. k = j => run[k] \notin {"mark_running", "mark_erasing", "wiping"} BY DEF JobsOK
  <2>2. CASE AcquireNextJob(k) \/ MarkJobRunning(k)
    BY <2>1, <2>2 DEF AcquireNextJob, Claimable, MarkJobRunning, SetJob, TypeOK
  <2>3. CASE SaveProgress(k) \/ Mismatch(k) \/ FailJob(k)
    BY <2>1, <2>3 DEF SaveProgress, Mismatch, FailJob, SetJob, TypeOK
  <2>4. CASE Passed(k) \/ CompleteVerified(k)
    BY <2>4 DEF Passed, CompleteVerified, SetJob, TypeOK, Job
  <2>5. CASE MarkErasing(k) \/ MarkFailed(k) \/ MarkVerified(k) \/ UploadReport(k)
             \/ SaveCertificate(k) \/ ListDisks(k) \/ FinishAsset(k) \/ GiveUp(k)
    BY <2>5 DEF MarkErasing, MarkFailed, MarkVerified, UploadReport, SaveCertificate,
                ListDisks, FinishAsset, GiveUp, rows
  <2> QED BY <1>4, <2>2, <2>3, <2>4, <2>5 DEF Work
<1>5. CASE Pull BY <1>5 DEF Pull, PullTransition, CreateDisk
<1>6. CASE Crash BY <1>6 DEF Crash, rows
<1> QED BY <1>1, <1>2, <1>3, <1>4, <1>5, <1>6 DEF Next

(* A verified job keeps its result unless its disk was scrapped.           *)
THEOREM VerifiedJobsAreKept == Spec => VerifiedJobKept
<1>1. DecommissionInv /\ [Next]_vars =>
        [\A j \in Jobs : job[j].status = "verified" /\ job'[j].status # "verified"
                          => "scrapped" \in diskLog[job[j].disk]]_vars
  BY VerifiedStep
<1> QED BY <1>1, DecommissionInvariant, PTL DEF Spec, VerifiedJobKept

-----------------------------------------------------------------------------
(* The stored reports.                                                     *)
LEMMA JobIdentity ==
    ASSUME DecommissionInv, Next, NEW j \in Jobs, job[j].disk # NoDisk
    PROVE  job'[j].disk = job[j].disk /\ job'[j].attempt = job[j].attempt
<1> USE DEF DecommissionInv, TypeOK
<1>0. job[j] # NoJob /\ job \in [Jobs -> Job] BY DEF NoJob
<1>1. CASE Pull BY <1>1 DEF Pull, PullTransition, CreateDisk
<1>2. ASSUME NEW c \in Calls, Ask(c) \/ Abandon(c) PROVE UNCHANGED job
  BY <1>2 DEF Ask, CreateErasureJob, ScrapDisk, Reverify, ConfirmDisposal, Abandon, rows
<1>3. ASSUME NEW c \in Calls, CreateJob(c)
      PROVE  job'[j] = job[j]
  BY <1>0, <1>3 DEF CreateJob
<1>4. ASSUME NEW c \in Calls, FailOpenJob(c)
      PROVE  job'[j].disk = job[j].disk /\ job'[j].attempt = job[j].attempt
  BY <1>0, <1>4 DEF FailOpenJob, SetJob, Job
<1>5. ASSUME NEW c \in Calls, Answer(c), ~CreateJob(c), ~FailOpenJob(c) PROVE UNCHANGED job
  BY <1>5 DEF Answer, CountJobs, StartErasing, MarkScrapped, ListOpenJobs, ReadAsset, ScrapAsset,
              ReverifyEnds, SaveDisposal, rows
<1>6. ASSUME NEW k \in Jobs, Work(k) \/ SaveProgress(k) \/ FailJob(k) \/ GiveUp(k)
      PROVE  job'[j].disk = job[j].disk /\ job'[j].attempt = job[j].attempt
  BY <1>0, <1>6 DEF Work, AcquireNextJob, MarkJobRunning, MarkErasing, Mismatch, MarkFailed, Passed,
              MarkVerified, CompleteVerified, UploadReport, SaveCertificate, ListDisks, FinishAsset,
              SaveProgress, FailJob, GiveUp, SetJob, Job, rows
<1>7. CASE Crash BY <1>7 DEF Crash, rows
<1> QED BY <1>1, <1>2, <1>3, <1>4, <1>5, <1>6, <1>7 DEF Next

(* Who touches the reports, the certificates and the stage between them.   *)
LEMMA ReportFrame ==
    ASSUME TypeOK, Next, \A j \in Jobs : ~UploadReport(j) /\ ~SaveCertificate(j)
    PROVE  /\ UNCHANGED <<report, cert>>
           /\ \A j \in Jobs : run'[j] = "certify" => run[j] = "certify"
<1> USE DEF TypeOK
<1>1. CASE Pull BY <1>1 DEF Pull, PullTransition, CreateDisk
<1>2. ASSUME NEW c \in Calls, Ask(c) \/ Answer(c) \/ Abandon(c) PROVE UNCHANGED <<report, cert, run>>
  BY <1>2 DEF Ask, CreateErasureJob, ScrapDisk, Reverify, ConfirmDisposal, Abandon, rows,
              Answer, CountJobs, CreateJob, StartErasing, MarkScrapped, ListOpenJobs, FailOpenJob,
              ReadAsset, ScrapAsset, ReverifyEnds, SaveDisposal
<1>3. ASSUME NEW k \in Jobs, Work(k) \/ SaveProgress(k) \/ FailJob(k) \/ GiveUp(k)
      PROVE  /\ UNCHANGED <<report, cert>>
             /\ \A j \in Jobs : run'[j] = "certify" => run[j] = "certify"
  BY <1>3 DEF Work, AcquireNextJob, MarkJobRunning, MarkErasing, Mismatch, MarkFailed, Passed,
              MarkVerified, CompleteVerified, ListDisks, FinishAsset,
              SaveProgress, FailJob, GiveUp, Enter, rows
<1>4. CASE Crash BY <1>4 DEF Crash, rows
<1> QED BY <1>1, <1>2, <1>3, <1>4 DEF Next

LEMMA ReportStep ==
    ASSUME DecommissionInv, ReportsOK, Next
    PROVE  ReportsOK'
<1> USE DEF DecommissionInv
<1>1. \A j \in Jobs : job[j].disk # NoDisk =>
         CertNumber(j) \in Numbers /\ CertNumber(j)' = CertNumber(j)
  BY JobIdentity DEF CertNumber, Numbers, TypeOK, Job
<1>2. \A j \in Jobs : run[j] # "idle" => job[j].disk # NoDisk BY DEF JobsOK
<1>3. \A n \in Numbers : report[n] # 0 => report[n] \in Jobs /\ job[report[n]].disk # NoDisk
  BY DecommissionAssumption DEF ReportsOK, CertNumber, Numbers, TypeOK, Jobs
<1>4. ASSUME NEW j \in Jobs, UploadReport(j) PROVE ReportsOK'
  <2>1. /\ report' = [report EXCEPT ![CertNumber(j)] = j] /\ job' = job /\ cert' = cert
        /\ run' = [run EXCEPT ![j] = "certify"] /\ run[j] = "upload"
    BY <1>4 DEF UploadReport, Enter
  <2>2. CertNumber(j) \in Numbers /\ j # 0 BY <1>1, <1>2, <2>1 DEF Jobs
  <2>3. \A k : CertNumber(k)' = CertNumber(k) BY <2>1 DEF CertNumber
  <2>4. \A n \in Numbers : report'[n] = IF n = CertNumber(j) THEN j ELSE report[n]
    BY <2>1 DEF TypeOK
  <2>5. \A k \in Jobs : run'[k] = "certify" => report'[CertNumber(k)] # 0
    BY <1>1, <1>2, <2>1, <2>2, <2>4 DEF ReportsOK, TypeOK
  <2>6. \A n \in Numbers : report'[n] # 0 => CertNumber(report'[n]) = n
    BY <2>4 DEF ReportsOK
  <2>7. \A n \in Numbers : cert'[n] # 0 => report'[n] # 0 BY <2>1, <2>2, <2>4 DEF ReportsOK
  <2> QED BY <2>3, <2>5, <2>6, <2>7 DEF ReportsOK
<1>5. ASSUME NEW j \in Jobs, SaveCertificate(j) PROVE ReportsOK'
  <2>1. /\ report' = report /\ job' = job /\ run[j] = "certify"
        /\ \A k \in Jobs : run'[k] = "certify" => run[k] = "certify"
        /\ \A n \in Numbers : cert'[n] # 0 => cert[n] # 0 \/ n = CertNumber(j)
    BY <1>5 DEF SaveCertificate, Enter, TypeOK
  <2>2. \A k : CertNumber(k)' = CertNumber(k) BY <2>1 DEF CertNumber
  <2> QED BY <2>1, <2>2 DEF ReportsOK
<1>6. CASE \A j \in Jobs : ~UploadReport(j) /\ ~SaveCertificate(j)
  <2>1. /\ UNCHANGED <<report, cert>>
        /\ \A j \in Jobs : run'[j] = "certify" => run[j] = "certify"
    BY <1>6, ReportFrame
  <2> QED BY <1>1, <1>2, <1>3, <2>1 DEF ReportsOK
<1> QED BY <1>4, <1>5, <1>6

LEMMA ReportsInvariant == Spec => []ReportsOK
<1>1. Init => ReportsOK BY DEF Init, ReportsOK, CertNumber, Numbers
<1>2. DecommissionInv /\ ReportsOK /\ [Next]_vars => ReportsOK'
  <2>1. CASE UNCHANGED vars
    <3>1. \A k : CertNumber(k)' = CertNumber(k) BY <2>1 DEF CertNumber, vars, rows
    <3> QED BY <2>1, <3>1 DEF vars, rows, ReportsOK
  <2> QED BY <2>1, ReportStep
<1> QED BY <1>1, <1>2, DecommissionInvariant, PTL DEF Spec

(* A certificate never stands without the stored report of its disk and    *)
(* attempt, for any number of racing jobs, crashes and failing uploads.    *)
THEOREM EveryCertificateHasReport == Spec => []CertificateHasReport
<1>1. ReportsOK => CertificateHasReport BY DEF ReportsOK, CertificateHasReport
<1> QED BY <1>1, ReportsInvariant, PTL

-----------------------------------------------------------------------------
(* Operators who wait for the end of the pull.                             *)
LEMMA PullOverStep ==
    ASSUME EarlyQueue = FALSE, DecommissionInv, PullOver, Next
    PROVE  PullOver'
<1> USE DEF DecommissionInv
<1>1. asset' # "pending" => Recorded' = Disks
  <2>1. CASE asset = "pending" /\ asset' # "pending"
    BY <2>1, AssetStep DEF PullTransition, Recorded
  <2>2. CASE asset # "pending" BY <2>2, DiskStep DEF PullOver, Recorded
  <2> QED BY <2>1, <2>2
<1>2. ASSUME asset' = "pending"
      PROVE  (\A j \in Jobs : job'[j] = NoJob) /\ (\A c \in Calls : At(c, "idle")')
  <2>1. asset = "pending" BY <1>2, AssetStep
  <2>2. (\A j \in Jobs : job[j] = NoJob) /\ \A c \in Calls : At(c, "idle")
    BY <2>1 DEF PullOver
  <2>3. ASSUME NEW c \in Calls, Ask(c) \/ Answer(c) \/ Abandon(c) PROVE FALSE
    <3>1. At(c, "idle") BY <2>2
    <3>2. \A d \in Disks : JobsOf(d) = {}
      BY <2>2, DecommissionAssumption DEF JobsOf, NoJob
    <3>3. ~Ask(c)
      BY <2>1, <3>2 DEF Ask, CreateErasureJob, ScrapDisk, Reverify, ConfirmDisposal, Reachable
    <3> QED BY <2>3, <3>1, <3>3 DEF Answer, Abandon, At, CountJobs, CreateJob, StartErasing,
              MarkScrapped, ListOpenJobs, FailOpenJob, ReadAsset, ScrapAsset, ReverifyEnds, SaveDisposal
  <2>4. ASSUME NEW j \in Jobs, Work(j) \/ SaveProgress(j) \/ FailJob(j) \/ GiveUp(j) PROVE FALSE
    <3>1. run[j] = "idle" /\ ~Claimable(j)
      BY <2>2 DEF JobsOK, NoJob, Claimable
    <3> QED BY <2>4, <3>1 DEF Work, AcquireNextJob, MarkJobRunning, MarkErasing, Mismatch, MarkFailed,
              Passed, MarkVerified, CompleteVerified, UploadReport, SaveCertificate,
              ListDisks, FinishAsset, SaveProgress, FailJob, GiveUp
  <2>5. CASE Pull BY <2>2, <2>5 DEF Pull, PullTransition, CreateDisk, At
  <2>6. CASE Crash BY <2>2, <2>6, CallFacts DEF Crash, rows, At
  <2> QED BY <2>3, <2>4, <2>5, <2>6 DEF Next
<1> QED BY <1>1, <1>2 DEF PullOver

LEMMA ForgetStep ==
    ASSUME EarlyQueue = FALSE, PatientInv, Next
    PROVE  FinishOK' /\ NoDiskForgotten'
<1> USE DEF PatientInv, DecommissionInv
<1>1. \A d \in Disks : Treated(d) => Treated(d)' BY DiskStep DEF Treated
<1>2. ASSUME NEW j \in Jobs, run'[j] = "finish_asset", run[j] # "finish_asset"
      PROVE  ListDisks(j)
  BY <1>2 DEF Next, Pull, PullTransition, CreateDisk, Ask, Answer, Abandon, Work, Crash, rows, Enter, TypeOK,
     CreateErasureJob, ScrapDisk, Reverify, ConfirmDisposal, CountJobs, CreateJob, StartErasing,
     MarkScrapped, ListOpenJobs, FailOpenJob, ReadAsset, ScrapAsset, ReverifyEnds, SaveDisposal,
     AcquireNextJob, MarkJobRunning, MarkErasing, Mismatch, MarkFailed, Passed, MarkVerified,
     CompleteVerified, UploadReport, SaveCertificate, FinishAsset, ListDisks, SaveProgress, FailJob, GiveUp
<1>3. ASSUME NEW j \in Jobs, ListDisks(j), run'[j] = "finish_asset"
      PROVE  \A d \in Disks : Treated(d)
  <2>1. AllDisksDone BY <1>3 DEF ListDisks, Enter, TypeOK
  <2>2. job[j] # NoJob BY <1>3 DEF ListDisks, JobsOK
  <2>3. Recorded = Disks BY <2>2 DEF PullOver
  <2> QED BY <2>1, <2>3 DEF AllDisksDone, LogsOK, Treated
<1>4. FinishOK' BY <1>1, <1>2, <1>3 DEF FinishOK
<1>5. CASE asset' = "erasure_verified" /\ asset # "erasure_verified"
  <2>1. PICK j \in Jobs : FinishAsset(j) BY <1>5, AssetStep
  <2>2. \A d \in Disks : Treated(d) BY <2>1 DEF FinishAsset, FinishOK
  <2> QED BY <1>1, <1>4, <2>2 DEF NoDiskForgotten
<1>6. CASE asset' = "disposed" /\ asset # "disposed"
  <2>1. asset = "erasure_verified" \/ "scrapped" \in assetLog' BY <1>6, AssetStep DEF AssetOK
  <2> QED BY <1>1, <1>4, <1>6, <2>1 DEF NoDiskForgotten
<1>7. CASE asset' = asset \/ asset' \notin {"erasure_verified", "disposed"}
  <2>1. assetLog \subseteq assetLog' BY AssetStep
  <2> QED BY <1>1, <1>4, <1>7, <2>1 DEF NoDiskForgotten
<1> QED BY <1>5, <1>6, <1>7

LEMMA PatientStep ==
    ASSUME EarlyQueue = FALSE PROVE PatientInv /\ [Next]_vars => PatientInv'
<1> SUFFICES ASSUME PatientInv, [Next]_vars PROVE PatientInv' OBVIOUS
<1>1. DecommissionInv' BY NextDecommission DEF PatientInv
<1>2. CASE Next BY <1>1, <1>2, PullOverStep, ForgetStep DEF PatientInv
<1>3. CASE UNCHANGED vars
  BY <1>1, <1>3 DEF vars, rows, PatientInv, PullOver, FinishOK, NoDiskForgotten, Treated, Recorded, At
<1> QED BY <1>2, <1>3

(* When operators wait for the end of the pull, no asset is declared       *)
(* erased, or signed off as erased, with a disk nobody treated.            *)
THEOREM NoDiskEverForgotten == ASSUME EarlyQueue = FALSE PROVE Spec => []NoDiskForgotten
<1>1. Init => PatientInv
  BY InitDecommission, CallFacts DEF Init, PatientInv, PullOver, FinishOK, NoDiskForgotten, At
<1>2. PatientInv => NoDiskForgotten BY DEF PatientInv
<1> QED BY <1>1, <1>2, PatientStep, PTL DEF Spec

-----------------------------------------------------------------------------
(* Without failing calls and deaths of the process: what DiskLeavesErasing *)
(* and EverySuccessCertified need besides fairness.                        *)
NoMishaps == Faults = FALSE /\ MaxCrashes = 0

LEMMA NoMishapStep ==
    ASSUME NoMishaps, TypeOK, Next
    PROVE  /\ ~Crash /\ \A c \in Calls : ~Abandon(c)
           /\ \A j \in Jobs : ~FailJob(j) /\ ~GiveUp(j)
<1>1. crashes \in 0..0 BY DEF NoMishaps, TypeOK
<1> QED BY <1>1 DEF NoMishaps, Crash, Abandon, FailJob, GiveUp

(* Who moves a goroutine.                                                  *)
LEMMA RunFrame ==
    ASSUME NoMishaps, TypeOK, Next
    PROVE  run' = run \/ \E j \in Jobs : Work(j) /\ \E s \in RunStages : Enter(j, s)
<1>1. CASE Pull BY <1>1 DEF Pull, PullTransition, CreateDisk
<1>2. ASSUME NEW c \in Calls, Ask(c) \/ Answer(c) PROVE run' = run
  BY <1>2 DEF Ask, CreateErasureJob, ScrapDisk, Reverify, ConfirmDisposal,
              Answer, CountJobs, CreateJob, StartErasing, MarkScrapped, ListOpenJobs, FailOpenJob,
              ReadAsset, ScrapAsset, ReverifyEnds, SaveDisposal
<1>3. ASSUME NEW j \in Jobs, SaveProgress(j) PROVE run' = run BY <1>3 DEF SaveProgress
<1>4. ASSUME NEW j \in Jobs, Work(j) PROVE \E s \in RunStages : Enter(j, s)
  BY <1>4 DEF Work, AcquireNextJob, MarkJobRunning, MarkErasing, Mismatch, MarkFailed, Passed,
              MarkVerified, CompleteVerified, UploadReport, SaveCertificate, ListDisks, FinishAsset,
              RunStages
<1> QED BY <1>1, <1>2, <1>3, <1>4, NoMishapStep DEF Next

LEMMA AttendedStep ==
    ASSUME NoMishaps, DecommissionInv, ErasingAttended, Next
    PROVE  ErasingAttended'
<1> USE DEF DecommissionInv
<1> DEFINE Attends(j) == run[j] \in {"wiping", "mark_failed", "mark_verified"}
<1>1. ASSUME NEW j \in Jobs, Attends(j), ~MarkFailed(j), ~MarkVerified(j) PROVE Attends(j)'
  <2>1. ASSUME NEW k \in Jobs, Work(k), NEW s \in RunStages, Enter(k, s) PROVE Attends(j)'
    <3>1. CASE k # j BY <1>1, <2>1, <3>1 DEF Enter, TypeOK
    <3>2. CASE k = j
      <4>1. Mismatch(j) \/ Passed(j)
        BY <1>1, <2>1, <3>2 DEF Work, AcquireNextJob, MarkJobRunning, MarkErasing, CompleteVerified,
           UploadReport, SaveCertificate, ListDisks, FinishAsset
      <4> QED BY <4>1 DEF Mismatch, Passed, Enter, TypeOK
    <3> QED BY <3>1, <3>2
  <2> QED BY <1>1, <2>1, RunFrame
<1>2. ASSUME NEW d \in Disks, disk[d] # "erasing", disk'[d] = "erasing"
      PROVE  \E j \in Jobs : MarkErasing(j) /\ job[j].disk = d
  <2> USE DEF TypeOK, UpdateDiskStatus
  <2>1. CASE Pull BY <1>2, <2>1 DEF Pull, PullTransition, CreateDisk
  <2>2. ASSUME NEW c \in Calls, Ask(c) \/ Answer(c) PROVE FALSE
    BY <1>2, <2>2 DEF Ask, CreateErasureJob, ScrapDisk, Reverify, ConfirmDisposal, rows,
                Answer, CountJobs, CreateJob, StartErasing, MarkScrapped, ListOpenJobs, FailOpenJob,
                ReadAsset, ScrapAsset, ReverifyEnds, SaveDisposal
  <2>3. ASSUME NEW j \in Jobs, Work(j) \/ SaveProgress(j) PROVE MarkErasing(j) /\ job[j].disk = d
    BY <1>2, <2>3 DEF Work, AcquireNextJob, MarkJobRunning, MarkErasing, Mismatch, MarkFailed, Passed,
              MarkVerified, CompleteVerified, UploadReport, SaveCertificate, ListDisks, FinishAsset,
              SaveProgress, rows
  <2> QED BY <1>2, <2>1, <2>2, <2>3, NoMishapStep DEF Next
<1>3. ASSUME NEW j \in Jobs, MarkFailed(j) \/ MarkVerified(j), job[j].disk \in Disks
      PROVE  disk'[job[j].disk] # "erasing"
  BY <1>3 DEF MarkFailed, MarkVerified, NoMishaps, UpdateDiskStatus, TypeOK
<1> SUFFICES ASSUME NEW d \in Disks, disk'[d] = "erasing"
             PROVE  \E j \in JobsOf(d)' : Attends(j)'
  BY DEF ErasingAttended
<1>4. CASE disk[d] = "erasing"
  <2>1. PICK j \in JobsOf(d) : Attends(j) BY <1>4 DEF ErasingAttended
  <2>2. j \in Jobs /\ job[j].disk = d /\ job[j].disk # NoDisk
    BY DecommissionAssumption DEF JobsOf
  <2>3. ~MarkFailed(j) /\ ~MarkVerified(j) BY <1>3, <2>2
  <2>4. Attends(j)' BY <1>1, <2>1, <2>2, <2>3
  <2>5. job'[j].disk = d BY <2>2, JobIdentity
  <2> QED BY <2>2, <2>4, <2>5 DEF JobsOf
<1>5. CASE disk[d] # "erasing"
  <2>1. PICK j \in Jobs : MarkErasing(j) /\ job[j].disk = d BY <1>2, <1>5
  <2>2. job'[j].disk = d /\ run'[j] = "wiping" BY <2>1 DEF MarkErasing, Enter, TypeOK
  <2> QED BY <2>2 DEF JobsOf
<1> QED BY <1>4, <1>5

(* A disk in erasing always has a goroutine that will give it its next     *)
(* status, whatever operators ask for at the same time; in particular a    *)
(* failed job leaves its disk to an operator (domain.go).                  *)
THEOREM ErasingAlwaysAttended ==
    ASSUME NoMishaps PROVE Spec => [](ErasingAttended /\ FailedAwaitsDecision)
<1>1. Init => ErasingAttended BY DEF Init, ErasingAttended
<1>2. DecommissionInv /\ ErasingAttended /\ [Next]_vars => ErasingAttended'
  <2>1. CASE UNCHANGED vars BY <2>1 DEF vars, rows, ErasingAttended, JobsOf
  <2> QED BY <2>1, AttendedStep
<1>3. DecommissionInv /\ ErasingAttended => FailedAwaitsDecision
  <2> SUFFICES ASSUME DecommissionInv, ErasingAttended, NEW j \in Jobs,
                      job[j].status = "failed", disk[job[j].disk] = "erasing"
               PROVE  \E k \in JobsOf(job[j].disk) : run[k] # "idle"
    BY DEF FailedAwaitsDecision
  <2>1. job[j].disk \in Disks
    BY DEF DecommissionInv, TypeOK, JobsOK, Job, NoJob
  <2> QED BY <2>1 DEF ErasingAttended
<1> QED BY <1>1, <1>2, <1>3, DecommissionInvariant, PTL DEF Spec

LEMMA SuccessStep ==
    ASSUME NoMishaps, DecommissionInv, SuccessOnItsWay, Next
    PROVE  SuccessOnItsWay'
<1> USE DEF DecommissionInv
<1> DEFINE OnItsWay(j) == run[j] \in {"mark_verified", "complete", "upload", "certify"}
<1>1. \A n \in Numbers : cert[n] # 0 => cert'[n] # 0
  <2>1. CASE \E j \in Jobs : SaveCertificate(j)
    <3>1. PICK j \in Jobs : SaveCertificate(j) BY <2>1
    <3>2. cert' = cert \/ cert' = [cert EXCEPT ![CertNumber(j)] = j] BY <3>1 DEF SaveCertificate
    <3> QED BY <3>2 DEF TypeOK, Jobs
  <2>2. CASE ~\E j \in Jobs : SaveCertificate(j)
    <3>1. CASE \E j \in Jobs : UploadReport(j) BY <3>1 DEF UploadReport
    <3>2. CASE ~\E j \in Jobs : UploadReport(j) BY <2>2, <3>2, ReportFrame
    <3> QED BY <3>1, <3>2
  <2> QED BY <2>1, <2>2
<1>2. ASSUME NEW j \in Jobs, OnItsWay(j), ~SaveCertificate(j) PROVE OnItsWay(j)'
  <2>1. ASSUME NEW k \in Jobs, Work(k), NEW s \in RunStages, Enter(k, s) PROVE OnItsWay(j)'
    <3>1. CASE k # j BY <1>2, <2>1, <3>1 DEF Enter, TypeOK
    <3>2. CASE k = j
      <4>1. MarkVerified(j) \/ CompleteVerified(j) \/ UploadReport(j)
        BY <1>2, <2>1, <3>2 DEF Work, AcquireNextJob, MarkJobRunning, MarkErasing, Mismatch, MarkFailed,
           Passed, ListDisks, FinishAsset
      <4> QED BY <4>1 DEF MarkVerified, CompleteVerified, UploadReport, Enter, TypeOK
    <3> QED BY <3>1, <3>2
  <2> QED BY <1>2, <2>1, RunFrame
<1>3. ASSUME NEW j \in Jobs, job[j].status # "verified", job'[j].status = "verified"
      PROVE  Passed(j) \/ CompleteVerified(j)
  <2> USE DEF TypeOK, SetJob, Job
  <2>1. CASE Pull BY <1>3, <2>1 DEF Pull, PullTransition, CreateDisk
  <2>2. ASSUME NEW c \in Calls, Ask(c) \/ Answer(c) PROVE FALSE
    <3>1. CASE CreateJob(c) BY <1>3, <3>1 DEF CreateJob
    <3>2. CASE FailOpenJob(c) BY <1>3, <3>2 DEF FailOpenJob
    <3>3. CASE ~CreateJob(c) /\ ~FailOpenJob(c)
      BY <1>3, <2>2, <3>3 DEF Ask, CreateErasureJob, ScrapDisk, Reverify, ConfirmDisposal, rows,
                Answer, CountJobs, StartErasing, MarkScrapped, ListOpenJobs,
                ReadAsset, ScrapAsset, ReverifyEnds, SaveDisposal
    <3> QED BY <3>1, <3>2, <3>3
  <2>3. ASSUME NEW k \in Jobs, Work(k) \/ SaveProgress(k), ~Passed(k), ~CompleteVerified(k) PROVE FALSE
    BY <1>3, <2>3 DEF Work, AcquireNextJob, MarkJobRunning, MarkErasing, Mismatch, MarkFailed,
              MarkVerified, UploadReport, SaveCertificate, ListDisks, FinishAsset,
              SaveProgress, rows
  <2>4. ASSUME NEW k \in Jobs, Passed(k) \/ CompleteVerified(k) PROVE k = j
    BY <1>3, <2>4 DEF Passed, CompleteVerified
  <2> QED BY <1>3, <2>1, <2>2, <2>3, <2>4, NoMishapStep DEF Next
<1> SUFFICES ASSUME NEW j \in Jobs, job'[j].status = "verified"
             PROVE  OnItsWay(j)' \/ cert'[CertNumber(j)'] # 0
  BY DEF SuccessOnItsWay
<1>4. CASE job[j].status = "verified"
  <2>1. job[j].disk # NoDisk BY <1>4 DEF JobsOK, NoJob
  <2>2. CertNumber(j)' = CertNumber(j) /\ CertNumber(j) \in Numbers
    BY <2>1, JobIdentity DEF CertNumber, Numbers, TypeOK, Job
  <2>3. CASE OnItsWay(j) /\ ~SaveCertificate(j) BY <1>2, <2>3
  <2>4. CASE SaveCertificate(j)
    BY <2>2, <2>4 DEF SaveCertificate, TypeOK, Jobs
  <2>5. CASE cert[CertNumber(j)] # 0 BY <1>1, <2>2, <2>5
  <2> QED BY <1>4, <2>3, <2>4, <2>5 DEF SuccessOnItsWay
<1>5. CASE job[j].status # "verified"
  BY <1>3, <1>5 DEF Passed, CompleteVerified, Enter, TypeOK
<1> QED BY <1>4, <1>5

(* A verified job is certified, or its goroutine is on the way to it, or   *)
(* another job took its number.                                            *)
THEOREM SuccessAlwaysOnItsWay == ASSUME NoMishaps PROVE Spec => []SuccessOnItsWay
<1>1. Init => SuccessOnItsWay BY DEF Init, SuccessOnItsWay, NoJob
<1>2. DecommissionInv /\ SuccessOnItsWay /\ [Next]_vars => SuccessOnItsWay'
  <2>1. CASE UNCHANGED vars BY <2>1 DEF vars, rows, SuccessOnItsWay, CertNumber
  <2> QED BY <2>1, SuccessStep
<1> QED BY <1>1, <1>2, DecommissionInvariant, PTL DEF Spec

-----------------------------------------------------------------------------
(* With one request at a time, certificate numbers are not shared.         *)
OneCaller == \A c, e \in Calls : c = e

LEMMA JobsFinite == \A d : IsFiniteSet(JobsOf(d)) /\ Cardinality(JobsOf(d)) \in Nat
<1>1. IsFiniteSet(Jobs) BY FS_Interval, DecommissionAssumption DEF Jobs
<1> QED BY <1>1, FS_Subset, FS_CardinalityType DEF JobsOf

LEMMA JobsOfFrame ==
    ASSUME DecommissionInv, Next, \A c \in Calls : ~CreateJob(c), NEW j \in Jobs
    PROVE  job'[j].disk = job[j].disk /\ job'[j].attempt = job[j].attempt
<1> USE DEF DecommissionInv, TypeOK
<1>0. job \in [Jobs -> Job] OBVIOUS
<1>1. CASE Pull BY <1>1 DEF Pull, PullTransition, CreateDisk
<1>2. ASSUME NEW c \in Calls, Ask(c) \/ Abandon(c) PROVE UNCHANGED job
  BY <1>2 DEF Ask, CreateErasureJob, ScrapDisk, Reverify, ConfirmDisposal, Abandon, rows
<1>4. ASSUME NEW c \in Calls, FailOpenJob(c)
      PROVE  job'[j].disk = job[j].disk /\ job'[j].attempt = job[j].attempt
  BY <1>0, <1>4 DEF FailOpenJob, SetJob, Job
<1>5. ASSUME NEW c \in Calls, Answer(c), ~FailOpenJob(c) PROVE UNCHANGED job
  BY <1>5 DEF Answer, CountJobs, StartErasing, MarkScrapped, ListOpenJobs, ReadAsset, ScrapAsset,
              ReverifyEnds, SaveDisposal, rows
<1>6. ASSUME NEW k \in Jobs, Work(k) \/ SaveProgress(k) \/ FailJob(k) \/ GiveUp(k)
      PROVE  job'[j].disk = job[j].disk /\ job'[j].attempt = job[j].attempt
  BY <1>0, <1>6 DEF Work, AcquireNextJob, MarkJobRunning, MarkErasing, Mismatch, MarkFailed, Passed,
              MarkVerified, CompleteVerified, UploadReport, SaveCertificate, ListDisks, FinishAsset,
              SaveProgress, FailJob, GiveUp, SetJob, Job, rows
<1>7. CASE Crash BY <1>7 DEF Crash, rows
<1> QED BY <1>1, <1>2, <1>4, <1>5, <1>6, <1>7 DEF Next

(* A request that waits to create its job counted the disk's jobs.         *)
LEMMA CountStep ==
    ASSUME DecommissionInv, AttemptsInv, Next, \A e \in Calls : ~CreateJob(e),
           NEW c \in Calls, At(c, "create_job")', \A d : JobsOf(d)' = JobsOf(d)
    PROVE  (call[c].attempt = Cardinality(JobsOf(call[c].disk)))'
<1> USE DEF DecommissionInv
<1>0. ASSUME call'[c].attempt = Cardinality(JobsOf(call'[c].disk))
      PROVE  (call[c].attempt = Cardinality(JobsOf(call[c].disk)))'
  <2>1. PICK e : e = call'[c].disk OBVIOUS
  <2>2. JobsOf(e)' = JobsOf(e) OBVIOUS
  <2>3. {j \in Jobs : job'[j].disk = call'[c].disk} = {j \in Jobs : job[j].disk = call'[c].disk}
    BY <2>1, <2>2 DEF JobsOf
  <2> QED BY <1>0, <2>3 DEF JobsOf
<1>1. ASSUME CountJobs(c) PROVE call'[c].attempt = Cardinality(JobsOf(call'[c].disk))
  <2>1. call'[c] = [call[c] EXCEPT !.attempt = Cardinality(JobsOf(call[c].disk)), !.at = "create_job"]
    BY <1>1 DEF CountJobs, TypeOK
  <2> QED BY <2>1 DEF TypeOK, Call
<1>2. ASSUME call'[c] = call[c] PROVE call'[c].attempt = Cardinality(JobsOf(call'[c].disk))
  BY <1>2 DEF AttemptsInv, At
<1>3. ASSUME ~CountJobs(c), call'[c] # call[c] PROVE FALSE
  <2> USE DEF TypeOK, At
  <2>1. CASE Pull BY <1>3, <2>1 DEF Pull, PullTransition, CreateDisk
  <2>2. ASSUME NEW e \in Calls, Ask(e) PROVE FALSE
    <3>1. CASE e = c
      <4>1. ASSUME NEW d \in Disks, CreateErasureJob(c, d) PROVE call'[c].at = "count_jobs"
        BY <4>1 DEF CreateErasureJob, NewCall
      <4>2. ASSUME NEW d \in Disks, ScrapDisk(c, d) PROVE call'[c].at = "scrap"
        BY <4>2 DEF ScrapDisk, NewCall
      <4>3. ASSUME NEW d \in Disks, Reverify(c, d) PROVE call'[c].at = "verify"
        BY <4>3 DEF Reverify, NewCall
      <4>4. ASSUME NEW m \in Methods, ConfirmDisposal(c, m) PROVE call'[c].at = "sign"
        BY <4>4 DEF ConfirmDisposal, NewCall
      <4>5. call'[c].at # "create_job" BY <2>2, <3>1, <4>1, <4>2, <4>3, <4>4 DEF Ask
      <4> QED BY <4>5
    <3>2. CASE e # c
      BY <1>3, <2>2, <3>2 DEF Ask, CreateErasureJob, ScrapDisk, Reverify, ConfirmDisposal
    <3> QED BY <3>1, <3>2
  <2>3. ASSUME NEW e \in Calls, Abandon(e) PROVE FALSE
    BY <1>3, <2>3, CallFacts DEF Abandon, Done
  <2>4. ASSUME NEW e \in Calls, Answer(e) PROVE FALSE
    <3>1. CASE CountJobs(e) BY <1>3, <3>1 DEF CountJobs
    <3>2. CASE FailOpenJob(e)
      <4>1. call'[c].at \in {call[c].at, "read_asset"} BY <1>3, <3>2 DEF FailOpenJob, Goto, Call
      <4>2. call[c].at = "create_job" /\ call[e].at = "fail_jobs" BY <4>1, <3>2 DEF FailOpenJob
      <4>3. e # c BY <4>2
      <4> QED BY <1>3, <3>2, <4>3 DEF FailOpenJob, Goto
    <3>3. CASE ListOpenJobs(e) BY <1>3, <3>3 DEF ListOpenJobs
    <3>4. CASE StartErasing(e) \/ ScrapAsset(e) \/ ReverifyEnds(e) \/ SaveDisposal(e)
      BY <1>3, <3>4, CallFacts DEF StartErasing, ScrapAsset, ReverifyEnds, SaveDisposal, Done
    <3>5. CASE MarkScrapped(e) \/ ReadAsset(e)
      BY <1>3, <3>5, CallFacts DEF MarkScrapped, ReadAsset, Goto, Done, Call
    <3> QED BY <2>4, <3>1, <3>2, <3>3, <3>4, <3>5 DEF Answer
  <2>5. ASSUME NEW k \in Jobs, Work(k) \/ SaveProgress(k) \/ FailJob(k) \/ GiveUp(k) PROVE FALSE
    BY <1>3, <2>5 DEF Work, AcquireNextJob, MarkJobRunning, MarkErasing, Mismatch, MarkFailed, Passed,
              MarkVerified, CompleteVerified, UploadReport, SaveCertificate, ListDisks, FinishAsset,
              SaveProgress, FailJob, GiveUp
  <2>6. CASE Crash BY <1>3, <2>6, CallFacts DEF Crash
  <2> QED BY <2>1, <2>2, <2>3, <2>4, <2>5, <2>6 DEF Next
<1> QED BY <1>0, <1>1, <1>2, <1>3

LEMMA AttemptsStep ==
    ASSUME OneCaller, DecommissionInv, DecommissionInv', AttemptsInv, Next
    PROVE  AttemptsInv'
<1> USE DEF DecommissionInv
<1>1. ASSUME NEW c \in Calls, CreateJob(c) PROVE AttemptsInv'
  <2> DEFINE After(e) == {i \in Jobs : job'[i].disk = e}
  <2>0. PICK d : d = call[c].disk OBVIOUS
  <2> DEFINE n == Cardinality(JobsOf(d))
  <2>1. PICK j \in Jobs :
          /\ job[j] = NoJob
          /\ job' = [job EXCEPT ![j] = [disk |-> d, status |-> "pending", attempt |-> call[c].attempt]]
    BY <1>1, <2>0 DEF CreateJob
  <2>2. d \in Disks /\ call[c].attempt = n /\ d # NoDisk
    BY <1>1, <2>0, DecommissionAssumption DEF CreateJob, CallsOK, AttemptsInv, At, TypeOK, Call
  <2>3. /\ job'[j].disk = d /\ job'[j].attempt = n /\ job[j].disk = NoDisk
        /\ \A k \in Jobs : k # j => job'[k] = job[k]
    BY <2>1, <2>2 DEF TypeOK, NoJob
  <2>4. After(d) = JobsOf(d) \cup {j} /\ j \notin JobsOf(d)
    BY <2>2, <2>3 DEF JobsOf
  <2>5. n \in Nat /\ Cardinality(After(d)) = n + 1
    BY <2>4, JobsFinite, FS_AddElement
  <2>6. \A e \in Disks : e # d => After(e) = JobsOf(e)
    BY <2>3, DecommissionAssumption DEF JobsOf
  <2>7. ASSUME NEW k \in Jobs, job[k] # NoJob
        PROVE  /\ job[k].disk \in Disks /\ job[k].attempt \in Nat
               /\ job[k].attempt < Cardinality(JobsOf(job[k].disk))
    BY <2>7, DecommissionAssumption DEF JobsOK, TypeOK, Job, Attempts, AttemptsInv
  <2>8. \A k \in Jobs : k # j /\ job'[k] # NoJob =>
           /\ job'[k] = job[k] /\ job[k] # NoJob
           /\ job[k].disk = d => job[k].attempt < n
    BY <2>3, <2>7
  <2>9. NumbersDistinct'
    <3>1. ASSUME NEW k \in Jobs, k # j, job'[k] # NoJob PROVE CertNumber(k)' # CertNumber(j)'
      <4>1. CertNumber(j)' = <<d, n>> /\ CertNumber(k)' = <<job[k].disk, job[k].attempt>>
        BY <2>3, <2>8, <3>1 DEF CertNumber
      <4>2. job[k].disk = d => job[k].attempt # n BY <2>5, <2>7, <2>8, <3>1
      <4> QED BY <4>1, <4>2
    <3>2. ASSUME NEW k \in Jobs, NEW l \in Jobs, k # j, l # j, job'[k] # NoJob, job'[l] # NoJob,
                 CertNumber(k)' = CertNumber(l)'
          PROVE  k = l
      <4>1. CertNumber(k)' = CertNumber(k) /\ CertNumber(l)' = CertNumber(l)
        BY <2>8, <3>2 DEF CertNumber
      <4> QED BY <4>1, <2>8, <3>2 DEF AttemptsInv, NumbersDistinct
    <3> QED BY <3>1, <3>2 DEF NumbersDistinct
  <2>10. ASSUME NEW k \in Jobs, job'[k] # NoJob
         PROVE  job'[k].attempt < Cardinality(After(job'[k].disk))
    <3>1. CASE k = j
      <4>1. job'[k].attempt = n /\ job'[k].disk = d BY <2>3, <3>1
      <4> HIDE DEF n, After
      <4> QED BY <4>1, <2>5
    <3>2. CASE k # j /\ job[k].disk = d
      <4>1. job'[k] = job[k] /\ job[k].attempt < n /\ job[k].attempt \in Nat BY <2>7, <2>8, <2>10, <3>2
      <4> HIDE DEF n, After
      <4> QED BY <4>1, <3>2, <2>5
    <3>3. CASE k # j /\ job[k].disk # d
      <4>1. job'[k] = job[k] /\ job[k] # NoJob BY <2>8, <2>10, <3>3
      <4>2. After(job[k].disk) = JobsOf(job[k].disk) BY <2>6, <2>7, <3>3, <4>1
      <4> HIDE DEF After
      <4> QED BY <2>7, <4>1, <4>2
    <3> QED BY <3>1, <3>2, <3>3
  <2>11. \A e \in Calls : ~At(e, "create_job")'
    BY <1>1, CallFacts, GotoFacts DEF CreateJob, OneCaller, At, Done, TypeOK, CallStages
  <2>12. (\A k \in Jobs : job[k] # NoJob => job[k].attempt < Cardinality(JobsOf(job[k].disk)))'
    BY <2>10 DEF JobsOf
  <2> QED BY <2>9, <2>11, <2>12 DEF AttemptsInv
<1>2. CASE \A c \in Calls : ~CreateJob(c)
  <2>1. \A j \in Jobs : job'[j].disk = job[j].disk /\ job'[j].attempt = job[j].attempt
    BY <1>2, JobsOfFrame
  <2>2. \A d : JobsOf(d)' = JobsOf(d) BY <2>1 DEF JobsOf
  <2>3. \A j \in Jobs : CertNumber(j)' = CertNumber(j) BY <2>1 DEF CertNumber
  <2>4. \A j \in Jobs : job'[j] # NoJob => job[j] # NoJob
    BY <2>1 DEF JobsOK
  <2>5. NumbersDistinct' BY <2>3, <2>4 DEF AttemptsInv, NumbersDistinct
  <2>6. (\A c \in Calls : At(c, "create_job") => call[c].attempt = Cardinality(JobsOf(call[c].disk)))'
    BY <1>2, <2>2, CountStep
  <2>7. (\A j \in Jobs : job[j] # NoJob => job[j].attempt < Cardinality(JobsOf(job[j].disk)))'
    <3> SUFFICES ASSUME NEW j \in Jobs, job'[j] # NoJob
                 PROVE  (job[j].attempt < Cardinality(JobsOf(job[j].disk)))'
      OBVIOUS
    <3>1. job[j].attempt < Cardinality(JobsOf(job[j].disk)) BY <2>4 DEF AttemptsInv
    <3>2. {i \in Jobs : job'[i].disk = job'[j].disk} = {i \in Jobs : job[i].disk = job[j].disk}
      BY <2>1
    <3> QED BY <2>1, <3>1, <3>2 DEF JobsOf
  <2> QED BY <2>5, <2>6, <2>7 DEF AttemptsInv
<1> QED BY <1>1, <1>2

LEMMA AttemptsInvariant == ASSUME OneCaller PROVE Spec => []AttemptsInv
<1>1. Init => AttemptsInv BY CallFacts DEF Init, AttemptsInv, NumbersDistinct, At
<1>2. DecommissionInv /\ DecommissionInv' /\ AttemptsInv /\ [Next]_vars => AttemptsInv'
  <2>1. CASE UNCHANGED vars
    BY <2>1 DEF vars, rows, AttemptsInv, NumbersDistinct, CertNumber, JobsOf, At
  <2> QED BY <2>1, AttemptsStep
<1> QED BY <1>1, <1>2, DecommissionInvariant, PTL DEF Spec

(* With one request at a time two jobs never share a certificate number,   *)
(* and the report stored under a number is the certified one, whatever     *)
(* fails, crashes and is claimed again: ReportIsCertified is only lost to  *)
(* requests that overlap.                                                  *)
THEOREM OneCallerReportsCertified ==
    ASSUME OneCaller PROVE Spec => [](NumbersDistinct /\ ReportIsCertified)
<1>1. DecommissionInv /\ AttemptsInv /\ ReportsOK => NumbersDistinct /\ ReportIsCertified
  <2> SUFFICES ASSUME DecommissionInv, AttemptsInv, ReportsOK, NEW n \in Numbers, cert[n] # 0
               PROVE  report[n] = cert[n]
    BY DEF AttemptsInv, ReportIsCertified
  <2>1. cert[n] \in Jobs /\ report[n] \in Jobs
    BY DecommissionAssumption DEF DecommissionInv, TypeOK, ReportsOK, Jobs
  <2>2. CertNumber(cert[n]) = n /\ CertNumber(report[n]) = n
    BY DEF DecommissionInv, LogsOK, CertifiedAfterFlip, ReportsOK
  <2>3. job[cert[n]] # NoJob /\ job[report[n]] # NoJob
    BY <2>1, <2>2, DecommissionAssumption DEF CertNumber, Numbers, NoJob
  <2> QED BY <2>1, <2>2, <2>3 DEF AttemptsInv, NumbersDistinct
<1> QED BY <1>1, AttemptsInvariant, ReportsInvariant, DecommissionInvariant, PTL

(* Without mishaps too, every success is certified in its own name, or its *)
(* goroutine is on the way to it (README, "one certificate for each        *)
(* success").                                                              *)
THEOREM OneCallerSuccessCertified ==
    ASSUME OneCaller, NoMishaps
    PROVE  Spec => [](\A j \in Jobs : job[j].status = "verified" =>
                        \/ run[j] \in {"mark_verified", "complete", "upload", "certify"}
                        \/ \E n \in Numbers : cert[n] = j)
<1>1. DecommissionInv /\ AttemptsInv /\ SuccessOnItsWay =>
        \A j \in Jobs : job[j].status = "verified" =>
            \/ run[j] \in {"mark_verified", "complete", "upload", "certify"}
            \/ \E n \in Numbers : cert[n] = j
  <2> SUFFICES ASSUME DecommissionInv, AttemptsInv, NEW j \in Jobs,
                      job[j].status = "verified", cert[CertNumber(j)] # 0
               PROVE  \E n \in Numbers : cert[n] = j
    BY DEF SuccessOnItsWay
  <2>1. PICK n : n = CertNumber(j) OBVIOUS
  <2>2. job[j] # NoJob /\ job[j].disk # NoDisk BY DEF DecommissionInv, JobsOK, NoJob
  <2>3. n \in Numbers /\ cert[n] # 0
    BY <2>1, <2>2 DEF CertNumber, Numbers, DecommissionInv, TypeOK, Job
  <2>4. cert[n] \in Jobs BY <2>3 DEF DecommissionInv, TypeOK, Jobs
  <2>5. CertNumber(cert[n]) = n BY <2>3 DEF DecommissionInv, LogsOK, CertifiedAfterFlip
  <2>6. job[cert[n]] # NoJob
    BY <2>3, <2>4, <2>5, DecommissionAssumption DEF CertNumber, Numbers, NoJob
  <2>7. cert[n] = j BY <2>1, <2>2, <2>4, <2>5, <2>6 DEF AttemptsInv, NumbersDistinct
  <2> QED BY <2>3, <2>7
<1> QED BY <1>1, AttemptsInvariant, SuccessAlwaysOnItsWay, DecommissionInvariant, PTL
=============================================================================
