------------------------------ MODULE JobQueue ------------------------------
(***************************************************************************)
(* The claim of erasure jobs by worker processes: fillSlots, runJob, Start *)
(* and Stop of internal/worker over AcquireNextJob and the status writes   *)
(* of internal/store.  A process instance is started once, has a lock name *)
(* of its own and is gone after a crash or a stop; a restart is the next   *)
(* instance.  What the engine does between its checkpoints is in           *)
(* ErasureEngine; here a checkpoint refreshes the heartbeat and the status.*)
(* ScrapDisk fails a job behind the back of the goroutine that runs it.    *)
(*                                                                         *)
(* A slot is a token of the semaphore together with the goroutine that     *)
(* holds it: one that runs a job, or a request's that verifies a disk once *)
(* more (Reverify).  The memory store claims a job in one critical section *)
(* and its calls do not fail.  PostgreSQL claims it in a transaction, which*)
(* locks the row, passes over the rows that others have locked, and may    *)
(* roll back; and any call may fail.  Job numbers follow creation time.    *)
(***************************************************************************)
EXTENDS Integers, FiniteSets

CONSTANTS
    Instances,  \* process instances that may be started
    Slots,      \* the tokens of one instance's semaphore (WORKERS)
    MaxJobs,    \* bound on the jobs created
    MaxReverify, \* bound on the re-verifications going on in one instance
    NoOne,      \* the empty locked_by
    Backend,    \* "memory" or "postgres"
    Overlap,    \* TRUE when an instance may start while another one lives
    Timeouts,   \* TRUE when a heartbeat may grow older than STALE_AFTER_SEC
    MaxFaults   \* bound on the PostgreSQL calls that fail for no reason of ours

ASSUME QueueAssumption ==
    /\ NoOne \notin Instances
    /\ MaxJobs \in Nat /\ MaxReverify \in Nat /\ MaxFaults \in Nat
    /\ Backend \in {"memory", "postgres"}
    /\ Overlap \in BOOLEAN /\ Timeouts \in BOOLEAN

Jobs == 1..MaxJobs
Threads == Instances \X Slots

VARIABLES
    inst,      \* life of each process instance
    grace,     \* reclaimImmediately of each instance
    filling,   \* the scheduler goroutine is inside fillSlots
    slot,      \* what each token of each instance is used for
    status,    \* durable status of each job; "none" before its creation
    lockedBy,  \* durable lock owner of each job
    stale,     \* the job's heartbeat is older than STALE_AFTER_SEC
    closing,   \* a ScrapDisk has listed the job as open and will fail it
    faults

processes == <<inst, grace>>
rows == <<status, lockedBy, stale>>
others == <<closing, faults>>
vars == <<processes, filling, slot, rows, others>>

Free == [at |-> "free", job |-> 0]
RunStages == {"claimed", "running", "verifying", "verified"}
AskStages == {"ask", "ask_restart"}
(* In the stage "picked" the transaction of a claim has locked a row.      *)
HoldStages == {"picked"} \cup RunStages
Slot == [at : {"free", "reverify"} \cup AskStages, job : {0}] \cup [at : HoldStages, job : Jobs]

Orphanable == {"running", "verifying"}
Ended == {"verified", "failed"}

Init == /\ inst = [i \in Instances |-> "new"]
        /\ grace = [i \in Instances |-> FALSE]
        /\ filling = [i \in Instances |-> FALSE]
        /\ slot = [t \in Threads |-> Free]
        /\ status = [j \in Jobs |-> "none"]
        /\ lockedBy = [j \in Jobs |-> NoOne]
        /\ stale = [j \in Jobs |-> FALSE]
        /\ closing = [j \in Jobs |-> FALSE]
        /\ faults = 0

Alive(i) == inst[i] \in {"up", "stopping"}
At(t, stage) == slot[t].at = stage
Goto(t, stage) == slot' = [slot EXCEPT ![t].at = stage]
Release(t) == slot' = [slot EXCEPT ![t] = Free]
Runs(t, j) == slot[t].at \in RunStages /\ slot[t].job = j
Holds(t, j) == slot[t].at \in HoldStages /\ slot[t].job = j

(* A bug: the claim does not lock the row it has picked.                   *)
Locked_Never(j) == FALSE

(* A claim under way has the row: other writes wait for its end.           *)
Locked(j) == \E t \in Threads : Holds(t, j) /\ At(t, "picked")

(* Some transaction may have the row locked: a claim, a write of the       *)
(* goroutine that runs the job, or ScrapDisk's.                            *)
InUse(j) == closing[j] \/ \E t \in Threads : Holds(t, j)

(* PostgreSQL calls fail once Stop has cancelled their context; the memory *)
(* store does not look at it.                                              *)
Cancelled(i) == Backend = "postgres" /\ inst[i] = "stopping"

(* A goroutine writes a status to the row of its job.                      *)
Writes(t, st) == /\ ~Cancelled(t[1]) /\ ~Locked(slot[t].job)
                 /\ status' = [status EXCEPT ![slot[t].job] = st]
                 /\ UNCHANGED <<processes, filling, lockedBy, others>>

(* A write that counts as a heartbeat.                                     *)
Beats(t, st) == /\ Writes(t, st)
                /\ stale' = [stale EXCEPT ![slot[t].job] = FALSE]
-----------------------------------------------------------------------------
(* Processes.                                                              *)

(* Lock names are alike until they are used: one stands for all of them.   *)
NextInstance == CHOOSE i \in Instances : inst[i] = "new"

Start(i) ==
    /\ inst[i] = "new" /\ i = NextInstance
    /\ Overlap \/ \A k \in Instances : ~Alive(k)
    /\ inst' = [inst EXCEPT ![i] = "up"]
    /\ grace' = [grace EXCEPT ![i] = TRUE]
    /\ filling' = [filling EXCEPT ![i] = TRUE]
    /\ UNCHANGED <<slot, rows, others>>

(* The window after which reclaiming relies on heartbeats.                 *)
GraceEnds(i) ==
    /\ inst[i] = "up" /\ grace[i]
    /\ grace' = [grace EXCEPT ![i] = FALSE]
    /\ UNCHANGED <<inst, filling, slot, rows, others>>

(* Some instance is left to take over: the bound on stops and crashes.     *)
Replaceable == \E k \in Instances : inst[k] = "new"

(* Stop cancels the context; a running fillSlots does not look at it.      *)
Stop(i) ==
    /\ inst[i] = "up" /\ Replaceable
    /\ inst' = [inst EXCEPT ![i] = "stopping"]
    /\ UNCHANGED <<grace, filling, slot, rows, others>>

(* The wait group knows the scheduler and the jobs; a re-verification that *)
(* goes on ends with the process.                                          *)
Exit(i) ==
    /\ inst[i] = "stopping" /\ ~filling[i]
    /\ \A s \in Slots : slot[<<i, s>>].at \in {"free", "reverify"}
    /\ inst' = [inst EXCEPT ![i] = "gone"]
    /\ slot' = [t \in Threads |-> IF t[1] = i THEN Free ELSE slot[t]]
    /\ UNCHANGED <<grace, filling, rows, others>>

(* Power loss or kill: the goroutines vanish, the rows stay.               *)
Crash(i) ==
    /\ Alive(i) /\ Replaceable
    /\ inst' = [inst EXCEPT ![i] = "gone"]
    /\ filling' = [filling EXCEPT ![i] = FALSE]
    /\ slot' = [t \in Threads |-> IF t[1] = i THEN Free ELSE slot[t]]
    /\ UNCHANGED <<grace, rows, others>>

Expire(j) ==
    /\ Timeouts
    /\ status[j] \in Orphanable /\ ~stale[j]
    /\ stale' = [stale EXCEPT ![j] = TRUE]
    /\ UNCHANGED <<processes, filling, slot, status, lockedBy, others>>

(* CreateErasureJob queues the next job.                                   *)
CreateJob(j) ==
    /\ status[j] = "none" /\ \A k \in Jobs : k < j => status[k] # "none"
    /\ status' = [status EXCEPT ![j] = "pending"]
    /\ UNCHANGED <<processes, filling, slot, lockedBy, stale, others>>
-----------------------------------------------------------------------------
(* fillSlots: a token is taken before the store is asked.                  *)

Tick(i) ==
    /\ inst[i] = "up" /\ ~filling[i]
    /\ filling' = [filling EXCEPT ![i] = TRUE]
    /\ UNCHANGED <<processes, slot, rows, others>>

TakeSlot(t) ==
    /\ filling[t[1]] /\ At(t, "free")
    /\ \A s \in Slots : slot[<<t[1], s>>].at \notin AskStages \cup {"picked"}
    /\ Goto(t, IF grace[t[1]] THEN "ask_restart" ELSE "ask")
    /\ UNCHANGED <<processes, filling, rows, others>>

AllBusy(i) ==
    /\ filling[i]
    /\ \A s \in Slots : slot[<<i, s>>].at \in RunStages \cup {"reverify"}
    /\ filling' = [filling EXCEPT ![i] = FALSE]
    /\ UNCHANGED <<processes, slot, rows, others>>

Pending == {j \in Jobs : status[j] = "pending"}

(* A bug: the memory store forgets to skip the jobs it already runs.       *)
Orphans_OwnToo(t) ==
    {j \in Jobs : /\ status[j] \in Orphanable
                  /\ At(t, "ask_restart") \/ stale[j]}

(* A bug: after the first window nothing is reclaimed any more.            *)
Orphans_OnlyAtRestart(t) ==
    {j \in Jobs : /\ status[j] \in Orphanable
                  /\ At(t, "ask_restart") /\ lockedBy[j] # t[1]}

(* A bug: the heartbeat branch leaves a process' own jobs alone.           *)
Orphans_OthersOnly(t) ==
    {j \in Jobs : /\ status[j] \in Orphanable
                  /\ At(t, "ask_restart") \/ stale[j]
                  /\ lockedBy[j] # t[1]}

(* Orphans an asker may claim.  PostgreSQL looks at the owner only in the  *)
(* restart case, the memory store in both.                                 *)
Orphans(t) ==
    {j \in Jobs : /\ status[j] \in Orphanable
                  /\ At(t, "ask_restart") \/ stale[j]
                  /\ (Backend = "memory" \/ At(t, "ask_restart")) => lockedBy[j] # t[1]}

Candidates(t) == Pending \cup Orphans(t)

(* PostgreSQL orders pending jobs first, then by age.                      *)
Precedes(k, j) == IF k \in Pending THEN j \notin Pending \/ k < j
                                   ELSE j \notin Pending /\ k < j

(* It passes over locked rows (SKIP LOCKED).  The memory store walks its   *)
(* map in any order, and each orphan it meets replaces its pick so far:    *)
(* one orphan is enough to make every candidate a possible pick.           *)
MayPick(t, j) ==
    /\ j \in Candidates(t)
    /\ IF Backend = "memory"
       THEN Orphans(t) # {} \/ \A k \in Pending : j <= k
       ELSE ~Locked(j) /\ \A k \in Candidates(t) : Precedes(k, j) => InUse(k)

MayFindNone(t) == IF Backend = "memory" THEN Candidates(t) = {}
                                        ELSE \A k \in Candidates(t) : InUse(k)

(* A pending job becomes running with the claim.                           *)
ClaimedStatus(st) == IF st = "pending" THEN "running" ELSE st

Claim(t, j) ==
    /\ slot' = [slot EXCEPT ![t] = [at |-> "claimed", job |-> j]]
    /\ status' = [status EXCEPT ![j] = ClaimedStatus(@)]
    /\ lockedBy' = [lockedBy EXCEPT ![j] = t[1]]
    /\ stale' = [stale EXCEPT ![j] = FALSE]
    /\ UNCHANGED <<processes, filling, others>>

(* fillSlots gives the token back and waits for the next tick.             *)
NothingToDo(t) ==
    /\ MayFindNone(t)
    /\ Release(t)
    /\ filling' = [filling EXCEPT ![t[1]] = FALSE]
    /\ UNCHANGED <<processes, rows, others>>

(* The memory store finds and claims a job in one critical section; the    *)
(* transaction of PostgreSQL first locks the row.                          *)
AcquireNextJob(t) ==
    /\ slot[t].at \in AskStages /\ ~Cancelled(t[1])
    /\ \/ NothingToDo(t)
       \/ \E j \in Jobs :
             /\ MayPick(t, j)
             /\ IF Backend = "memory"
                THEN Claim(t, j)
                ELSE /\ slot' = [slot EXCEPT ![t] = [at |-> "picked", job |-> j]]
                     /\ UNCHANGED <<processes, filling, rows, others>>

(* The transaction commits.                                                *)
CommitClaim(t) ==
    /\ At(t, "picked") /\ ~Cancelled(t[1])
    /\ Claim(t, slot[t].job)
-----------------------------------------------------------------------------
(* runJob, from the claim to the release of the slot.                      *)

(* No write of a status asks what the row says: one that comes after       *)
(* ScrapDisk's brings the job back.                                        *)

(* In PostgreSQL this write leaves the heartbeat alone.                    *)
MarkJobRunning(t) ==
    /\ At(t, "claimed")
    /\ Writes(t, "running")
    /\ stale' = [stale EXCEPT ![slot[t].job] = @ /\ Backend = "postgres"]
    /\ Goto(t, "running")

(* A checkpoint of the overwrite phase.                                    *)
SaveProgress(t) ==
    /\ At(t, "running")
    /\ Beats(t, "running")
    /\ UNCHANGED slot

(* A checkpoint of the verification.                                       *)
SaveVerifying(t) ==
    /\ slot[t].at \in {"running", "verifying"}
    /\ Beats(t, "verifying")
    /\ Goto(t, "verifying")

(* The verified result becomes durable with the last SaveProgress; the     *)
(* CompleteJob after it repeats the status.                                *)
Verified(t) ==
    /\ slot[t].at \in {"running", "verifying"}
    /\ Beats(t, "verified")
    /\ Goto(t, "verified")

CompleteVerified(t) ==
    /\ At(t, "verified")
    /\ Writes(t, "verified")
    /\ Release(t)
    /\ UNCHANGED stale

(* A refused device path or standard, a device fault, or mismatches.       *)
CompleteFailed(t) ==
    /\ slot[t].at \in {"claimed", "running", "verifying"}
    /\ Writes(t, "failed")
    /\ Release(t)
    /\ UNCHANGED stale

(* The cancelled context ends the engine; the rows keep the job running.   *)
Interrupt(t) ==
    /\ inst[t[1]] = "stopping"
    /\ slot[t].at \in {"running", "verifying"}
    /\ Release(t)
    /\ UNCHANGED <<processes, filling, rows, others>>
-----------------------------------------------------------------------------
(* Calls that fail.                                                        *)

(* runJob and fillSlots log the error or drop it, and return, whatever     *)
(* they were about to write; the transaction of a claim rolls back.  A     *)
(* call that fails after its commit is one that succeeds before the next   *)
(* fails.                                                                  *)
GiveUp(t) ==
    /\ slot[t].at \in AskStages \cup HoldStages
    /\ Release(t)
    /\ filling' = [filling EXCEPT ![t[1]] = @ /\ slot[t].at \in RunStages]
    /\ UNCHANGED <<processes, rows, closing>>

(* Any store call of a cancelled context.                                  *)
CallFails(t) == Cancelled(t[1]) /\ GiveUp(t) /\ UNCHANGED faults

Fault == Backend = "postgres" /\ faults < MaxFaults /\ faults' = faults + 1

(* A call that fails while the process goes on: the claim, MarkJobRunning, *)
(* the last UpdateDiskStatus, or a SaveProgress or a device and then the   *)
(* CompleteJob that should record it.                                      *)
StoreFails(t) == Fault /\ GiveUp(t)

(* The last SaveProgress fails, whose error is dropped.                    *)
VerifiedUnwritten(t) ==
    /\ Fault
    /\ slot[t].at \in {"running", "verifying"}
    /\ Goto(t, "verified")
    /\ UNCHANGED <<processes, filling, rows, closing>>
-----------------------------------------------------------------------------
(* ScrapDisk, which asks for the disk's status only at its beginning: that *)
(* may be long ago, before the job was claimed.  A call that fails or dies *)
(* before its write changes no job, and is left out; of several calls that *)
(* are going to write the same, one is enough.                             *)

ScrapDisk(j) ==
    /\ status[j] \in {"pending", "running"} /\ ~closing[j]
    /\ closing' = [closing EXCEPT ![j] = TRUE]
    /\ UNCHANGED <<processes, filling, slot, rows, faults>>

(* CompleteJob(failed), on whatever has become of the job since.           *)
CloseJob(j) ==
    /\ closing[j] /\ ~Locked(j)
    /\ closing' = [closing EXCEPT ![j] = FALSE]
    /\ status' = [status EXCEPT ![j] = "failed"]
    /\ UNCHANGED <<processes, filling, slot, lockedBy, stale, faults>>
-----------------------------------------------------------------------------
(* Worker.Reverify: the request waits for a token, whatever the scheduler  *)
(* does meanwhile, and keeps it while it reads the device.  Its context is *)
(* the request's, so Stop does not end it.                                 *)

Reverifying(i) == {s \in Slots : At(<<i, s>>, "reverify")}

Reverify(t) ==
    /\ Alive(t[1]) /\ At(t, "free")
    /\ Cardinality(Reverifying(t[1])) < MaxReverify
    /\ Goto(t, "reverify")
    /\ UNCHANGED <<processes, filling, rows, others>>

(* Match, mismatch, error or a client that goes away: the token comes back.*)
EndReverify(t) ==
    /\ At(t, "reverify")
    /\ Release(t)
    /\ UNCHANGED <<processes, filling, rows, others>>
-----------------------------------------------------------------------------
Schedule(i) == Tick(i) \/ AllBusy(i) \/ \E s \in Slots : TakeSlot(<<i, s>>)
Conclude(t) == \/ Verified(t) \/ CompleteVerified(t) \/ CompleteFailed(t) \/ Interrupt(t)
               \/ CallFails(t)

Next == \/ \E i \in Instances : \/ Start(i) \/ GraceEnds(i) \/ Stop(i) \/ Exit(i) \/ Crash(i)
                                \/ Schedule(i)
        \/ \E j \in Jobs : Expire(j) \/ CreateJob(j) \/ ScrapDisk(j) \/ CloseJob(j)
        \/ \E t \in Threads : \/ AcquireNextJob(t) \/ CommitClaim(t) \/ MarkJobRunning(t)
                              \/ SaveProgress(t) \/ SaveVerifying(t)
                              \/ Conclude(t) \/ StoreFails(t) \/ VerifiedUnwritten(t)
                              \/ Reverify(t) \/ EndReverify(t)

(* The ticker, the timers, the goroutines, requests that are being served  *)
(* and the clock go on; the operator replaces a process that is gone.      *)
(* Stops, crashes, faults, new jobs and new requests owe nothing.          *)
Fairness ==
    /\ \A i \in Instances : /\ WF_vars(Start(i)) /\ WF_vars(GraceEnds(i)) /\ WF_vars(Exit(i))
                            /\ WF_vars(Schedule(i))
    /\ \A j \in Jobs : WF_vars(Expire(j)) /\ WF_vars(CloseJob(j))
    /\ \A t \in Threads : /\ WF_vars(AcquireNextJob(t)) /\ WF_vars(CommitClaim(t))
                          /\ WF_vars(MarkJobRunning(t)) /\ WF_vars(Conclude(t))
                          /\ WF_vars(EndReverify(t))

Spec == Init /\ [][Next]_vars /\ Fairness
-----------------------------------------------------------------------------
TypeOK == /\ inst \in [Instances -> {"new", "up", "stopping", "gone"}]
          /\ grace \in [Instances -> BOOLEAN]
          /\ filling \in [Instances -> BOOLEAN]
          /\ slot \in [Threads -> Slot]
          /\ status \in [Jobs -> {"none", "pending"} \cup Orphanable \cup Ended]
          /\ lockedBy \in [Jobs -> Instances \cup {NoOne}]
          /\ stale \in [Jobs -> BOOLEAN]
          /\ closing \in [Jobs -> BOOLEAN]
          /\ faults \in 0..MaxFaults

(* Without timeouts every heartbeat is young.                              *)
Fresh == Timeouts \/ \A j \in Jobs : ~stale[j]

(* A claim under way has locked a row that it may claim, and no write can  *)
(* change that before its end.                                             *)
Claimable == {"pending"} \cup Orphanable
PickedInv == \A t \in Threads :
    At(t, "picked") => Backend = "postgres" /\ status[slot[t].job] \in Claimable

(* The inductive invariant for one process at a time, over a store that    *)
(* never gives it its own jobs: what a goroutine may count on about the    *)
(* row of its job.                                                         *)
OwnsItsJob(t) ==
    slot[t].at \in RunStages =>
        /\ lockedBy[slot[t].job] = t[1]
        /\ status[slot[t].job] \notin {"none", "pending"}

QueueInv ==
    /\ TypeOK
    /\ PickedInv
    /\ \A i, k \in Instances : Alive(i) /\ Alive(k) => i = k
    /\ \A i \in Instances : filling[i] => Alive(i)
    /\ \A t \in Threads : ~At(t, "free") => Alive(t[1])
    /\ \A t \in Threads : OwnsItsJob(t)
    /\ \A t, u \in Threads : \A j \in Jobs : Holds(t, j) /\ Holds(u, j) => t = u

(* No two goroutines ever work on one job, in one process or over a        *)
(* restart: the claim is atomic and a process' own jobs are never stolen.  *)
NoDoubleExecution == \A t, u \in Threads : \A j \in Jobs :
                        Runs(t, j) /\ Runs(u, j) => t = u

(* A job under way is run by some goroutine or belongs to a process that   *)
(* is stopping or gone, so that a later claim may have it: no release of a *)
(* slot forgets the row.                                                   *)
Attended(j) == status[j] \in Orphanable =>
                  \/ \E t \in Threads : Runs(t, j)
                  \/ /\ lockedBy[j] \in Instances
                     /\ inst[lockedBy[j]] \in {"stopping", "gone"}

NoJobStranded == \A j \in Jobs : Attended(j)

(* The job is finished, and no goroutine is left to write to it.           *)
Settled(j) == status[j] \in Ended /\ \A t \in Threads : ~Runs(t, j)

(* A job that is finished and left never runs again, however a claim, the  *)
(* last writes of its goroutines and a ScrapDisk overlap.                  *)
SettledForGood == [][\A j \in Jobs : Settled(j) => Settled(j)']_vars

(* The promise without the goroutines: a finished job never runs again.  A *)
(* job that ScrapDisk has failed does, as long as a goroutine has it.      *)
FinishedStaysFinished == [][\A j \in Jobs : status[j] \in Ended => status'[j] = status[j]]_vars

(* Jobs leave the queue in the order of their creation: "prefer oldest     *)
(* pending" (memory.go), ORDER BY created_at (pg.go).  An orphan that the  *)
(* memory store meets, a row that PostgreSQL passes over and a ScrapDisk   *)
(* each refute it.                                                         *)
PendingInOrder == \A j, k \in Jobs : j < k /\ status[j] = "pending" =>
                                       status[k] \in {"none", "pending"}

(* Every queued job ends for good, over crashes, restarts and failing      *)
(* calls, as long as some instance is finally left alone and               *)
(* re-verifications never take all of its slots: they wait in line for a   *)
(* token, fillSlots only tries for one.                                    *)
JobsEnd == \A j \in Jobs : status[j] = "pending" ~> Settled(j)
=============================================================================
