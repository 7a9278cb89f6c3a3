--------------------------- MODULE JobQueue_proofs ---------------------------
(***************************************************************************)
(* Proofs about JobQueue for every number of process instances, slots and  *)
(* jobs.  What rests on the row lock of a claim holds however processes    *)
(* overlap.  What rests on the owner of a job holds where the code's own   *)
(* argument applies: a process that is started only when no other one      *)
(* lives, over the memory store or over PostgreSQL with heartbeats that    *)
(* never grow old.                                                         *)
(***************************************************************************)
EXTENDS JobQueue, TLAPS

OneProcess == Overlap = FALSE /\ (Backend = "memory" \/ Timeouts = FALSE)

(* The writes of a goroutine to the row of its job, and its ends without.  *)
Works(t) == \/ MarkJobRunning(t) \/ SaveProgress(t) \/ SaveVerifying(t) \/ Verified(t)
            \/ CompleteVerified(t) \/ CompleteFailed(t)
Leaves(t) == Interrupt(t) \/ CallFails(t) \/ StoreFails(t)

(* Steps that take a token for something else than a job, or give it back. *)
Tokens(t) == TakeSlot(t) \/ Reverify(t) \/ EndReverify(t)

(* The transaction of a claim locks the row of j.                          *)
Picks(t, j) == /\ slot' = [slot EXCEPT ![t] = [at |-> "picked", job |-> j]]
               /\ UNCHANGED <<inst, grace, filling, status, lockedBy, stale, closing, faults>>

Lives(i) == \/ Start(i) \/ GraceEnds(i) \/ Stop(i) \/ Exit(i) \/ Crash(i) \/ Tick(i)
            \/ AllBusy(i)
RowSteps(j) == Expire(j) \/ CreateJob(j) \/ ScrapDisk(j) \/ CloseJob(j)

BasicInv == TypeOK /\ Fresh /\ PickedInv
-----------------------------------------------------------------------------
(* The shape of each kind of step.                                         *)

LEMMA NextCases ==
    ASSUME [Next]_vars
    PROVE  \/ UNCHANGED vars
           \/ \E i \in Instances : Lives(i)
           \/ \E j \in Jobs : RowSteps(j)
           \/ \E t \in Threads : \/ Tokens(t) \/ AcquireNextJob(t) \/ CommitClaim(t)
                                 \/ Works(t) \/ Leaves(t) \/ VerifiedUnwritten(t)
<1>1. CASE UNCHANGED vars BY <1>1
<1>2. ASSUME NEW i \in Instances, NEW s \in Slots, TakeSlot(<<i, s>>)
      PROVE  \E t \in Threads : Tokens(t)
  BY <1>2 DEF Threads, Tokens
<1> QED BY <1>1, <1>2 DEF Next, Schedule, Conclude, Lives, RowSteps, Tokens, Works, Leaves

LEMMA StageFacts ==
    /\ RunStages = {"claimed", "running", "verifying", "verified"}
    /\ HoldStages = {"picked", "claimed", "running", "verifying", "verified"}
    /\ AskStages = {"ask", "ask_restart"}
    /\ Free \in Slot /\ Free.at = "free"
    /\ \A j \in Jobs : \A a \in HoldStages : [at |-> a, job |-> j] \in Slot
    /\ \A a \in AskStages \cup {"reverify"} : [at |-> a, job |-> 0] \in Slot
BY DEF HoldStages, RunStages, AskStages, Free, Slot

LEMMA StatusFacts ==
    /\ Orphanable = {"running", "verifying"}
    /\ Ended = {"verified", "failed"}
    /\ Claimable = {"pending", "running", "verifying"}
BY DEF Orphanable, Ended, Claimable

LEMMA SlotFacts ==
    ASSUME NEW x \in Slot
    PROVE  /\ x = [at |-> x.at, job |-> x.job]
           /\ x.at \in HoldStages => x.job \in Jobs
           /\ x.at \in {"free", "reverify"} \cup AskStages => x.job = 0
BY DEF Slot, HoldStages, RunStages, AskStages

(* A slot that goes from stage to stage keeps its job.                     *)
LEMMA StageStep ==
    ASSUME TypeOK, NEW t \in Threads, NEW a, Goto(t, a),
           \/ slot[t].at \in HoldStages /\ a \in HoldStages
           \/ slot[t].at = "free" /\ a \in AskStages \cup {"reverify"}
    PROVE  \E x \in Slot : /\ slot' = [slot EXCEPT ![t] = x]
                           /\ x.at = a /\ x.job = slot[t].job
<1> DEFINE x == [at |-> a, job |-> slot[t].job]
<1>1. slot[t] \in Slot BY DEF TypeOK
<1>2. [slot[t] EXCEPT !.at = a] = x BY <1>1, SlotFacts
<1>3. slot' = [slot EXCEPT ![t] = x] BY <1>2 DEF Goto
<1>4. x \in Slot BY <1>1, SlotFacts, StageFacts
<1> QED BY <1>3, <1>4

LEMMA TokenStep ==
    ASSUME TypeOK, NEW t \in Threads, Tokens(t)
    PROVE  /\ \E x \in Slot : /\ slot' = [slot EXCEPT ![t] = x]
                              /\ x.at \notin HoldStages
                              /\ x.at = "free" \/ Alive(t[1]) \/ filling[t[1]]
           /\ slot[t].at \notin HoldStages
           /\ UNCHANGED <<inst, grace, filling, status, lockedBy, stale, closing, faults>>
<1>1. CASE TakeSlot(t)
  <2>1. PICK a \in AskStages : Goto(t, a) BY <1>1, StageFacts DEF TakeSlot
  <2>2. slot[t].at = "free" /\ filling[t[1]] BY <1>1 DEF TakeSlot, At
  <2>3. PICK x \in Slot : slot' = [slot EXCEPT ![t] = x] /\ x.at = a
    BY <2>1, <2>2, StageStep
  <2> QED BY <1>1, <2>2, <2>3, StageFacts DEF TakeSlot, processes, rows, others
<1>2. CASE Reverify(t)
  <2>1. slot[t].at = "free" /\ Alive(t[1]) /\ Goto(t, "reverify") BY <1>2 DEF Reverify, At
  <2>2. PICK x \in Slot : slot' = [slot EXCEPT ![t] = x] /\ x.at = "reverify"
    BY <2>1, StageStep
  <2> QED BY <1>2, <2>1, <2>2, StageFacts DEF Reverify, processes, rows, others
<1>3. CASE EndReverify(t)
  BY <1>3, StageFacts DEF EndReverify, Release, At, processes, rows, others
<1> QED BY <1>1, <1>2, <1>3 DEF Tokens

LEMMA WorkStep ==
    ASSUME TypeOK, NEW t \in Threads, Works(t)
    PROVE  /\ slot[t].at \in RunStages /\ slot[t].job \in Jobs /\ ~Locked(slot[t].job)
           /\ \E x \in Slot : \E st \in Orphanable \cup Ended :
                 /\ slot' = [slot EXCEPT ![t] = x]
                 /\ status' = [status EXCEPT ![slot[t].job] = st]
                 /\ \/ x = Free /\ st \in Ended
                    \/ x.at \in RunStages /\ x.job = slot[t].job
           /\ stale' \in [Jobs -> BOOLEAN] /\ \A j \in Jobs : stale'[j] => stale[j]
           /\ UNCHANGED <<inst, grace, filling, lockedBy, closing, faults>>
<1>1. slot[t].at \in RunStages
  BY StageFacts DEF Works, MarkJobRunning, SaveProgress, SaveVerifying, Verified,
     CompleteVerified, CompleteFailed, At
<1>2. slot[t] \in Slot /\ slot[t].at \in HoldStages BY <1>1, StageFacts DEF TypeOK
<1>3. slot[t].job \in Jobs BY <1>2, SlotFacts
<1>4. /\ ~Locked(slot[t].job)
      /\ UNCHANGED <<inst, grace, filling, lockedBy, closing, faults>>
  BY DEF Works, MarkJobRunning, SaveProgress, SaveVerifying, Verified, CompleteVerified,
     CompleteFailed, Writes, Beats, processes, others
<1>5. stale' \in [Jobs -> BOOLEAN] /\ \A j \in Jobs : stale'[j] => stale[j]
  BY <1>3 DEF Works, MarkJobRunning, SaveProgress, SaveVerifying, Verified, CompleteVerified,
     CompleteFailed, Beats, TypeOK
<1> DEFINE Shape == \E x \in Slot : \E st \in Orphanable \cup Ended :
                       /\ slot' = [slot EXCEPT ![t] = x]
                       /\ status' = [status EXCEPT ![slot[t].job] = st]
                       /\ \/ x = Free /\ st \in Ended
                          \/ x.at \in RunStages /\ x.job = slot[t].job
<1>6. Shape
  <2>1. CASE SaveProgress(t)
    <3>1. slot' = [slot EXCEPT ![t] = slot[t]] BY <2>1 DEF SaveProgress, TypeOK
    <3> QED BY <1>1, <1>2, <2>1, <3>1, StatusFacts DEF SaveProgress, Beats, Writes
  <2>2. ASSUME NEW a \in {"running", "verifying", "verified"}, Goto(t, a), Writes(t, a)
        PROVE  Shape
    <3>1. PICK x \in Slot : slot' = [slot EXCEPT ![t] = x] /\ x.at = a /\ x.job = slot[t].job
      BY <1>2, <2>2, StageFacts, StageStep
    <3> QED BY <2>2, <3>1, StageFacts, StatusFacts DEF Writes
  <2>3. ASSUME NEW st \in Ended, Release(t), Writes(t, st) PROVE Shape
    BY <2>3, StageFacts DEF Release, Writes
  <2> QED BY <2>1, <2>2, <2>3, StatusFacts DEF Works, MarkJobRunning, SaveVerifying, Verified,
          CompleteVerified, CompleteFailed, Beats
<1> QED BY <1>1, <1>3, <1>4, <1>5, <1>6

LEMMA LeaveStep ==
    ASSUME TypeOK, NEW t \in Threads, Leaves(t)
    PROVE  /\ slot' = [slot EXCEPT ![t] = Free]
           /\ filling' \in [Instances -> BOOLEAN]
           /\ \A i \in Instances : filling'[i] => filling[i]
           /\ faults' \in 0..MaxFaults
           /\ inst[t[1]] = "stopping" \/ Fault
           /\ UNCHANGED <<inst, grace, status, lockedBy, stale, closing>>
<1>1. CASE Interrupt(t)
  BY <1>1 DEF Interrupt, Release, TypeOK, processes, rows, others
<1>2. CASE CallFails(t)
  BY <1>2 DEF CallFails, GiveUp, Cancelled, Release, TypeOK, processes, rows
<1>3. CASE StoreFails(t)
  <2>1. faults' \in 0..MaxFaults BY <1>3, QueueAssumption DEF StoreFails, Fault, TypeOK
  <2> QED BY <1>3, <2>1 DEF StoreFails, GiveUp, Release, TypeOK, processes, rows
<1> QED BY <1>1, <1>2, <1>3 DEF Leaves

LEMMA UnwrittenStep ==
    ASSUME TypeOK, NEW t \in Threads, VerifiedUnwritten(t)
    PROVE  /\ slot[t].at \in RunStages
           /\ \E x \in Slot : /\ slot' = [slot EXCEPT ![t] = x]
                              /\ x.at = "verified" /\ x.job = slot[t].job
           /\ Fault /\ faults' \in 0..MaxFaults
           /\ UNCHANGED <<inst, grace, filling, status, lockedBy, stale, closing>>
<1>1. slot[t].at \in RunStages /\ slot[t].at \in HoldStages
  BY StageFacts DEF VerifiedUnwritten
<1>2. PICK x \in Slot : /\ slot' = [slot EXCEPT ![t] = x]
                        /\ x.at = "verified" /\ x.job = slot[t].job
  BY <1>1, StageFacts, StageStep DEF VerifiedUnwritten
<1>3. Fault /\ faults' \in 0..MaxFaults
  BY QueueAssumption DEF VerifiedUnwritten, Fault, TypeOK
<1> QED BY <1>1, <1>2, <1>3 DEF VerifiedUnwritten, processes, rows

(* A claim finds nothing, locks a row, or takes a job that it may take: at *)
(* once, or because the row has been locked since it was pending or an     *)
(* orphan.                                                                 *)
LEMMA ClaimCases ==
    ASSUME TypeOK, PickedInv, NEW t \in Threads, AcquireNextJob(t) \/ CommitClaim(t)
    PROVE  /\ slot[t].at \notin RunStages /\ slot[t].at # "free"
           /\ \/ NothingToDo(t)
              \/ \E j \in Jobs : /\ slot[t].at \in AskStages /\ MayPick(t, j)
                                 /\ Backend = "postgres" /\ Picks(t, j)
              \/ \E j \in Jobs : /\ status[j] \in Claimable /\ Claim(t, j)
                                 /\ \/ slot[t].at \in AskStages /\ MayPick(t, j)
                                    \/ Holds(t, j)
<1>1. CASE AcquireNextJob(t)
  <2>1. slot[t].at \in AskStages BY <1>1 DEF AcquireNextJob
  <2>2. \A j \in Jobs : MayPick(t, j) => status[j] \in Claimable
    BY StatusFacts DEF MayPick, Candidates, Pending, Orphans
  <2>3. Backend = "memory" \/ Backend = "postgres" BY QueueAssumption
  <2> QED
    BY <1>1, <2>1, <2>2, <2>3, StageFacts DEF AcquireNextJob, Picks, processes, rows, others
<1>2. CASE CommitClaim(t)
  <2>1. slot[t].at = "picked" /\ slot[t] \in Slot BY <1>2 DEF CommitClaim, At, TypeOK
  <2>2. slot[t].job \in Jobs /\ Holds(t, slot[t].job)
    BY <2>1, StageFacts, SlotFacts DEF Holds
  <2>3. status[slot[t].job] \in Claimable BY <2>1 DEF PickedInv, At
  <2> QED BY <1>2, <2>1, <2>2, <2>3, StageFacts DEF CommitClaim
<1> QED BY <1>1, <1>2

LEMMA ClaimStep ==
    ASSUME TypeOK, NEW t \in Threads, NEW j \in Jobs, status[j] \in Claimable, Claim(t, j)
    PROVE  /\ slot' = [slot EXCEPT ![t] = [at |-> "claimed", job |-> j]]
           /\ [at |-> "claimed", job |-> j] \in Slot
           /\ \A k \in Jobs : status'[k] = IF k = j THEN ClaimedStatus(status[j]) ELSE status[k]
           /\ \A k \in Jobs : lockedBy'[k] = IF k = j THEN t[1] ELSE lockedBy[k]
           /\ \A k \in Jobs : k # j => status'[k] = status[k] /\ lockedBy'[k] = lockedBy[k]
           /\ ClaimedStatus(status[j]) \in Orphanable
           /\ TypeOK' /\ \A k \in Jobs : stale'[k] => stale[k]
           /\ UNCHANGED <<inst, grace, filling, closing, faults>>
<1>1. t[1] \in Instances BY DEF Threads
<1>2. ClaimedStatus(status[j]) \in Orphanable BY StatusFacts DEF ClaimedStatus
<1>3. [at |-> "claimed", job |-> j] \in Slot BY StageFacts
<1>4. /\ slot' = [slot EXCEPT ![t] = [at |-> "claimed", job |-> j]]
      /\ status' = [status EXCEPT ![j] = ClaimedStatus(status[j])]
      /\ lockedBy' = [lockedBy EXCEPT ![j] = t[1]]
      /\ stale' = [stale EXCEPT ![j] = FALSE]
      /\ UNCHANGED <<inst, grace, filling, closing, faults>>
  BY DEF Claim, processes, others
<1>5. TypeOK' BY <1>1, <1>2, <1>3, <1>4 DEF TypeOK
<1> QED BY <1>2, <1>3, <1>4, <1>5 DEF TypeOK

LEMMA NothingStep ==
    ASSUME TypeOK, NEW t \in Threads, NothingToDo(t)
    PROVE  /\ slot' = [slot EXCEPT ![t] = Free]
           /\ filling' \in [Instances -> BOOLEAN]
           /\ \A i \in Instances : filling'[i] => filling[i]
           /\ UNCHANGED <<inst, grace, status, lockedBy, stale, closing, faults>>
BY DEF NothingToDo, Release, TypeOK, processes, rows, others
-----------------------------------------------------------------------------
(* What holds of both stores, whatever processes overlap: types, and rows  *)
(* that stay claimable while a claim has them locked.                      *)

LEMMA TypeStep == TypeOK /\ Fresh /\ PickedInv /\ [Next]_vars => (TypeOK /\ Fresh)'
<1> SUFFICES ASSUME TypeOK, Fresh, PickedInv, [Next]_vars PROVE (TypeOK /\ Fresh)' OBVIOUS
<1>1. CASE UNCHANGED vars
  BY <1>1 DEF vars, TypeOK, Fresh, processes, rows, others
<1>2. ASSUME NEW i \in Instances, Lives(i) PROVE (TypeOK /\ Fresh)'
  <2>1. UNCHANGED <<status, lockedBy, stale, closing, faults>>
    BY <1>2 DEF Lives, Start, GraceEnds, Stop, Exit, Crash, Tick, AllBusy, rows, others
  <2>2. inst' \in [Instances -> {"new", "up", "stopping", "gone"}]
    BY <1>2 DEF Lives, Start, GraceEnds, Stop, Exit, Crash, Tick, AllBusy, TypeOK, processes
  <2>3. grace' \in [Instances -> BOOLEAN] /\ filling' \in [Instances -> BOOLEAN]
    BY <1>2 DEF Lives, Start, GraceEnds, Stop, Exit, Crash, Tick, AllBusy, TypeOK, processes
  <2>4. slot' \in [Threads -> Slot]
    BY <1>2, StageFacts DEF Lives, Start, GraceEnds, Stop, Exit, Crash, Tick, AllBusy, TypeOK
  <2> QED BY <2>1, <2>2, <2>3, <2>4 DEF TypeOK, Fresh
<1>3. ASSUME NEW j \in Jobs, RowSteps(j) PROVE (TypeOK /\ Fresh)'
  BY <1>3, StatusFacts
  DEF RowSteps, Expire, CreateJob, ScrapDisk, CloseJob, TypeOK, Fresh, processes, rows, others
<1>4. ASSUME NEW t \in Threads, Tokens(t) PROVE (TypeOK /\ Fresh)'
  <2>1. PICK x \in Slot : slot' = [slot EXCEPT ![t] = x] BY <1>4, TokenStep
  <2> QED BY <1>4, <2>1, TokenStep DEF TypeOK, Fresh
<1>5. ASSUME NEW t \in Threads, AcquireNextJob(t) \/ CommitClaim(t)
      PROVE  (TypeOK /\ Fresh)'
  <2>1. CASE NothingToDo(t) BY <2>1, NothingStep, StageFacts DEF TypeOK, Fresh
  <2>2. ASSUME NEW j \in Jobs, Picks(t, j) PROVE (TypeOK /\ Fresh)'
    <3>1. [at |-> "picked", job |-> j] \in Slot BY StageFacts
    <3> QED BY <2>2, <3>1 DEF Picks, TypeOK, Fresh
  <2>3. ASSUME NEW j \in Jobs, status[j] \in Claimable, Claim(t, j) PROVE (TypeOK /\ Fresh)'
    BY <2>3, ClaimStep DEF Fresh
  <2> QED BY <1>5, <2>1, <2>2, <2>3, ClaimCases
<1>6. ASSUME NEW t \in Threads, Works(t) PROVE (TypeOK /\ Fresh)'
  <2>1. PICK x \in Slot, st \in Orphanable \cup Ended :
           /\ slot' = [slot EXCEPT ![t] = x]
           /\ status' = [status EXCEPT ![slot[t].job] = st]
    BY <1>6, WorkStep
  <2> QED BY <1>6, <2>1, WorkStep DEF TypeOK, Fresh
<1>7. ASSUME NEW t \in Threads, Leaves(t) PROVE (TypeOK /\ Fresh)'
  BY <1>7, LeaveStep, StageFacts DEF TypeOK, Fresh
<1>8. ASSUME NEW t \in Threads, VerifiedUnwritten(t) PROVE (TypeOK /\ Fresh)'
  <2>1. PICK x \in Slot : slot' = [slot EXCEPT ![t] = x] BY <1>8, UnwrittenStep
  <2> QED BY <1>8, <2>1, UnwrittenStep DEF TypeOK, Fresh
<1> QED BY <1>1, <1>2, <1>3, <1>4, <1>5, <1>6, <1>7, <1>8, NextCases

(* No step but a claim's touches the slot of a claim under way, and the    *)
(* row lock keeps every status write off its row.                          *)
LEMMA PickedKept ==
    ASSUME TypeOK, PickedInv,
           \A u \in Threads : slot'[u].at = "picked" => slot'[u] = slot[u],
           \A u \in Threads : At(u, "picked") /\ status[slot[u].job] \in Claimable
                                => status'[slot[u].job] \in Claimable
    PROVE  PickedInv'
BY DEF PickedInv, At

LEMMA LockedFacts ==
    ASSUME TypeOK, NEW u \in Threads, At(u, "picked")
    PROVE  slot[u].job \in Jobs /\ Locked(slot[u].job)
<1>1. slot[u] \in Slot /\ slot[u].at = "picked" BY DEF TypeOK, At
<1> QED BY <1>1, SlotFacts, StageFacts DEF Locked, Holds

LEMMA PickedStep == TypeOK /\ PickedInv /\ [Next]_vars => PickedInv'
<1> SUFFICES ASSUME TypeOK, PickedInv, [Next]_vars PROVE PickedInv' OBVIOUS
<1>1. CASE UNCHANGED vars BY <1>1 DEF vars, PickedInv, At, rows
<1>2. ASSUME NEW i \in Instances, Lives(i) PROVE PickedInv'
  <2>1. \A u \in Threads : slot'[u] \in {Free, slot[u]}
    BY <1>2 DEF Lives, Start, GraceEnds, Stop, Exit, Crash, Tick, AllBusy, TypeOK
  <2>2. UNCHANGED status
    BY <1>2 DEF Lives, Start, GraceEnds, Stop, Exit, Crash, Tick, AllBusy, rows
  <2> QED BY <2>1, <2>2, StageFacts, PickedKept
<1>3. ASSUME NEW j \in Jobs, RowSteps(j) PROVE PickedInv'
  <2>1. UNCHANGED slot BY <1>3 DEF RowSteps, Expire, CreateJob, ScrapDisk, CloseJob
  <2>2. CASE Expire(j) \/ ScrapDisk(j)
    BY <2>1, <2>2, PickedKept DEF Expire, ScrapDisk, rows
  <2>3. CASE CreateJob(j) BY <2>1, <2>3, StatusFacts, PickedKept DEF CreateJob, TypeOK
  <2>4. CASE CloseJob(j)
    <3>1. \A u \in Threads : At(u, "picked") => slot[u].job # j
      BY <2>4, LockedFacts DEF CloseJob
    <3> QED BY <2>1, <2>4, <3>1, PickedKept DEF CloseJob, TypeOK
  <2> QED BY <1>3, <2>2, <2>3, <2>4 DEF RowSteps
<1>4. ASSUME NEW t \in Threads, Tokens(t) PROVE PickedInv'
  <2>1. PICK x \in Slot : slot' = [slot EXCEPT ![t] = x] /\ x.at # "picked"
    BY <1>4, TokenStep, StageFacts
  <2>2. \A u \in Threads : slot'[u] = IF u = t THEN x ELSE slot[u] BY <2>1 DEF TypeOK
  <2> QED BY <1>4, <2>1, <2>2, TokenStep, PickedKept
<1>5. ASSUME NEW t \in Threads, AcquireNextJob(t) \/ CommitClaim(t) PROVE PickedInv'
  <2>1. CASE NothingToDo(t)
    <3>1. \A u \in Threads : slot'[u] = IF u = t THEN Free ELSE slot[u]
      BY <2>1, NothingStep DEF TypeOK
    <3> QED BY <2>1, <3>1, NothingStep, StageFacts, PickedKept
  <2>2. ASSUME NEW j \in Jobs, MayPick(t, j), Backend = "postgres", Picks(t, j)
        PROVE  PickedInv'
    <3>1. status[j] \in Claimable
      BY <2>2, StatusFacts DEF MayPick, Candidates, Pending, Orphans
    <3>2. \A u \in Threads :
             slot'[u] = IF u = t THEN [at |-> "picked", job |-> j] ELSE slot[u]
      BY <2>2 DEF Picks, TypeOK
    <3>3. status' = status BY <2>2 DEF Picks
    <3> QED BY <2>2, <3>1, <3>2, <3>3 DEF PickedInv, At
  <2>3. ASSUME NEW j \in Jobs, status[j] \in Claimable, Claim(t, j) PROVE PickedInv'
    <3>1. \A u \in Threads :
             slot'[u] = IF u = t THEN [at |-> "claimed", job |-> j] ELSE slot[u]
      BY <2>3, ClaimStep DEF TypeOK
    <3>2. \A k \in Jobs : status[k] \in Claimable => status'[k] \in Claimable
      BY <2>3, ClaimStep, StatusFacts
    <3> QED BY <3>1, <3>2, LockedFacts, PickedKept
  <2> QED BY <1>5, <2>1, <2>2, <2>3, ClaimCases
<1>6. ASSUME NEW t \in Threads, Works(t) PROVE PickedInv'
  <2>1. PICK x \in Slot, st \in Orphanable \cup Ended :
           /\ slot' = [slot EXCEPT ![t] = x]
           /\ status' = [status EXCEPT ![slot[t].job] = st]
           /\ x = Free \/ x.at \in RunStages
    BY <1>6, WorkStep
  <2>2. \A u \in Threads : slot'[u] = IF u = t THEN x ELSE slot[u] BY <2>1 DEF TypeOK
  <2>3. \A u \in Threads : At(u, "picked") => slot[u].job # slot[t].job
    BY <1>6, WorkStep, LockedFacts
  <2>4. \A u \in Threads : At(u, "picked") => status'[slot[u].job] = status[slot[u].job]
    BY <2>1, <2>3 DEF TypeOK
  <2> QED BY <2>1, <2>2, <2>4, StageFacts, PickedKept
<1>7. ASSUME NEW t \in Threads, Leaves(t) PROVE PickedInv'
  <2>1. \A u \in Threads : slot'[u] = IF u = t THEN Free ELSE slot[u]
    BY <1>7, LeaveStep DEF TypeOK
  <2> QED BY <1>7, <2>1, LeaveStep, StageFacts, PickedKept
<1>8. ASSUME NEW t \in Threads, VerifiedUnwritten(t) PROVE PickedInv'
  <2>1. PICK x \in Slot : slot' = [slot EXCEPT ![t] = x] /\ x.at = "verified"
    BY <1>8, UnwrittenStep
  <2>2. \A u \in Threads : slot'[u] = IF u = t THEN x ELSE slot[u] BY <2>1 DEF TypeOK
  <2> QED BY <1>8, <2>1, <2>2, UnwrittenStep, PickedKept
<1> QED BY <1>1, <1>2, <1>3, <1>4, <1>5, <1>6, <1>7, <1>8, NextCases

LEMMA InitFacts ==
    ASSUME Init
    PROVE  /\ TypeOK /\ Fresh
           /\ \A t \in Threads : slot[t].at = "free"
           /\ \A i \in Instances : ~Alive(i) /\ ~filling[i]
<1>1. TypeOK BY StageFacts, QueueAssumption DEF Init, TypeOK
<1> QED BY <1>1, StageFacts DEF Init, Fresh, Alive

THEOREM BasicInvariant == Spec => []BasicInv
<1>1. Init => BasicInv BY InitFacts DEF BasicInv, PickedInv, At
<1>2. BasicInv /\ [Next]_vars => BasicInv' BY TypeStep, PickedStep DEF BasicInv
<1> QED BY <1>1, <1>2, PTL DEF Spec

(* Type correctness of the queue, for both stores and any overlap.         *)
THEOREM QueueTypeCorrect == Spec => []TypeOK
<1>1. BasicInv => TypeOK BY DEF BasicInv
<1> QED BY <1>1, BasicInvariant, PTL
-----------------------------------------------------------------------------
(* The status writes of runJob and of ScrapDisk ask nothing about the row: *)
(* what keeps a claim from taking a job that has just ended is its lock.   *)

LEMMA SettledStep ==
    ASSUME BasicInv, [Next]_vars, NEW j \in Jobs, Settled(j)
    PROVE  Settled(j)'
<1>0. TypeOK /\ PickedInv BY DEF BasicInv
<1>1. /\ status[j] \in Ended /\ status[j] \notin Claimable /\ status[j] # "none"
      /\ \A u \in Threads : slot[u].at \in RunStages => slot[u].job # j
  BY StatusFacts DEF Settled, Runs
<1>2. ASSUME status'[j] \in Ended,
             \A u \in Threads : slot'[u].at \in RunStages =>
                                   slot[u].at \in RunStages /\ slot'[u].job = slot[u].job
      PROVE  Settled(j)'
  BY <1>1, <1>2 DEF Settled, Runs
<1>3. CASE UNCHANGED vars BY <1>1, <1>2, <1>3 DEF vars, rows
<1>4. ASSUME NEW i \in Instances, Lives(i) PROVE Settled(j)'
  <2>1. \A u \in Threads : slot'[u] \in {Free, slot[u]}
    BY <1>0, <1>4 DEF Lives, Start, GraceEnds, Stop, Exit, Crash, Tick, AllBusy, TypeOK
  <2>2. UNCHANGED status
    BY <1>4 DEF Lives, Start, GraceEnds, Stop, Exit, Crash, Tick, AllBusy, rows
  <2> QED BY <1>1, <1>2, <2>1, <2>2, StageFacts
<1>5. ASSUME NEW k \in Jobs, RowSteps(k) PROVE Settled(j)'
  <2>1. UNCHANGED slot BY <1>5 DEF RowSteps, Expire, CreateJob, ScrapDisk, CloseJob
  <2>2. status'[j] \in Ended
    BY <1>0, <1>1, <1>5, StatusFacts DEF RowSteps, Expire, CreateJob, ScrapDisk, CloseJob,
       rows, TypeOK
  <2> QED BY <1>2, <2>1, <2>2
<1>6. ASSUME NEW t \in Threads, Tokens(t) PROVE Settled(j)'
  <2>1. PICK x \in Slot : slot' = [slot EXCEPT ![t] = x] /\ x.at \notin RunStages
    BY <1>0, <1>6, TokenStep, StageFacts
  <2>2. \A u \in Threads : slot'[u] = IF u = t THEN x ELSE slot[u] BY <1>0, <2>1 DEF TypeOK
  <2>3. status' = status BY <1>0, <1>6, TokenStep
  <2> QED BY <1>1, <1>2, <2>1, <2>2, <2>3
<1>7. ASSUME NEW t \in Threads, AcquireNextJob(t) \/ CommitClaim(t) PROVE Settled(j)'
  <2>1. CASE NothingToDo(t)
    <3>1. \A u \in Threads : slot'[u] = IF u = t THEN Free ELSE slot[u]
      BY <1>0, <2>1, NothingStep DEF TypeOK
    <3>2. status' = status BY <1>0, <2>1, NothingStep
    <3> QED BY <1>1, <1>2, <3>1, <3>2, StageFacts
  <2>2. ASSUME NEW k \in Jobs, Picks(t, k) PROVE Settled(j)'
    <3>1. \A u \in Threads :
             slot'[u] = IF u = t THEN [at |-> "picked", job |-> k] ELSE slot[u]
      BY <1>0, <2>2 DEF Picks, TypeOK
    <3>2. status' = status BY <2>2 DEF Picks
    <3> QED BY <1>1, <1>2, <3>1, <3>2, StageFacts
  <2>3. ASSUME NEW k \in Jobs, status[k] \in Claimable, Claim(t, k) PROVE Settled(j)'
    <3>1. k # j BY <1>1, <2>3
    <3>2. status'[j] = status[j] BY <1>0, <2>3, <3>1, ClaimStep
    <3>3. \A u \in Threads :
             slot'[u] = IF u = t THEN [at |-> "claimed", job |-> k] ELSE slot[u]
      BY <1>0, <2>3, ClaimStep DEF TypeOK
    <3> QED BY <1>1, <3>1, <3>2, <3>3 DEF Settled, Runs
  <2> QED BY <1>0, <1>7, <2>1, <2>2, <2>3, ClaimCases
<1>8. ASSUME NEW t \in Threads, Works(t) PROVE Settled(j)'
  <2>1. PICK x \in Slot, st \in Orphanable \cup Ended :
           /\ slot' = [slot EXCEPT ![t] = x]
           /\ status' = [status EXCEPT ![slot[t].job] = st]
           /\ x = Free \/ (x.at \in RunStages /\ x.job = slot[t].job)
    BY <1>0, <1>8, WorkStep
  <2>2. slot[t].at \in RunStages BY <1>0, <1>8, WorkStep
  <2>3. \A u \in Threads : slot'[u] = IF u = t THEN x ELSE slot[u] BY <1>0, <2>1 DEF TypeOK
  <2>4. status'[j] = status[j] BY <1>0, <1>1, <2>1, <2>2 DEF TypeOK
  <2> QED BY <1>1, <1>2, <2>1, <2>2, <2>3, <2>4, StageFacts
<1>9. ASSUME NEW t \in Threads, Leaves(t) PROVE Settled(j)'
  <2>1. \A u \in Threads : slot'[u] = IF u = t THEN Free ELSE slot[u]
    BY <1>0, <1>9, LeaveStep DEF TypeOK
  <2>2. status' = status BY <1>0, <1>9, LeaveStep
  <2> QED BY <1>1, <1>2, <2>1, <2>2, StageFacts
<1>10. ASSUME NEW t \in Threads, VerifiedUnwritten(t) PROVE Settled(j)'
  <2>1. PICK x \in Slot : slot' = [slot EXCEPT ![t] = x] /\ x.job = slot[t].job
    BY <1>0, <1>10, UnwrittenStep
  <2>2. slot[t].at \in RunStages BY <1>0, <1>10, UnwrittenStep
  <2>3. \A u \in Threads : slot'[u] = IF u = t THEN x ELSE slot[u] BY <1>0, <2>1 DEF TypeOK
  <2>4. status' = status BY <1>0, <1>10, UnwrittenStep
  <2> QED BY <1>1, <1>2, <2>1, <2>2, <2>3, <2>4
<1> QED BY <1>3, <1>4, <1>5, <1>6, <1>7, <1>8, <1>9, <1>10, NextCases

(* A job that is finished and left is never claimed again, in both stores, *)
(* however claims, late writes, failing calls, ScrapDisk and even several  *)
(* processes overlap: nobody writes to the row that a claim has locked,    *)
(* and apart from claims only a goroutine that still has the job writes    *)
(* anything but an end to its row.                                         *)
THEOREM SettledAlwaysForGood == Spec => SettledForGood
<1>1. BasicInv /\ [Next]_vars => [\A j \in Jobs : Settled(j) => Settled(j)']_vars
  BY SettledStep
<1> QED BY <1>1, BasicInvariant, PTL DEF Spec, SettledForGood
-----------------------------------------------------------------------------
(* One process at a time: every goroutine owns the row it works on.        *)

(* A step of one goroutine that rewrites its slot, and rows that no other  *)
(* goroutine holds.                                                        *)
LEMMA SlotStep ==
    ASSUME QueueInv, BasicInv', NEW t \in Threads, NEW x \in Slot,
           slot' = [slot EXCEPT ![t] = x], UNCHANGED inst,
           \A i \in Instances : filling'[i] => filling[i],
           x.at # "free" => Alive(t[1]),
           x.at \in RunStages =>
              lockedBy'[x.job] = t[1] /\ status'[x.job] \notin {"none", "pending"},
           x.at \in HoldStages => \A u \in Threads : u # t => ~Holds(u, x.job),
           \A j \in Jobs : \/ lockedBy'[j] = lockedBy[j]
                           \/ \A u \in Threads : u # t => ~Holds(u, j),
           \A j \in Jobs : status[j] \notin {"none", "pending"} =>
                              status'[j] \notin {"none", "pending"}
    PROVE  QueueInv'
<1>1. \A u \in Threads : slot'[u] = IF u = t THEN x ELSE slot[u] BY DEF QueueInv, TypeOK
<1>2. \A i \in Instances : Alive(i)' <=> Alive(i) BY DEF Alive
<1>3. (\A i, k \in Instances : Alive(i) /\ Alive(k) => i = k)' BY <1>2 DEF QueueInv
<1>4. (\A i \in Instances : filling[i] => Alive(i))' BY <1>2 DEF QueueInv
<1>5. (\A u \in Threads : ~At(u, "free") => Alive(u[1]))'
  BY <1>1, <1>2 DEF At, Threads, QueueInv
<1>6. ASSUME NEW u \in Threads PROVE OwnsItsJob(u)'
  <2>1. CASE u = t BY <1>1, <2>1 DEF OwnsItsJob
  <2>2. CASE u # t
    <3>1. slot'[u] = slot[u] BY <1>1, <2>2
    <3>2. CASE slot[u].at \in RunStages
      <4>1. slot[u] \in Slot /\ slot[u].at \in HoldStages
        BY <3>2, StageFacts DEF QueueInv, TypeOK
      <4>2. slot[u].job \in Jobs /\ Holds(u, slot[u].job) BY <4>1, SlotFacts DEF Holds
      <4>3. lockedBy'[slot[u].job] = lockedBy[slot[u].job] BY <2>2, <4>2
      <4>4. OwnsItsJob(u) BY DEF QueueInv
      <4> QED BY <3>1, <4>2, <4>3, <4>4 DEF OwnsItsJob
    <3>3. CASE slot[u].at \notin RunStages BY <3>1, <3>3 DEF OwnsItsJob
    <3> QED BY <3>2, <3>3
  <2> QED BY <2>1, <2>2
<1>7. (\A u, v \in Threads : \A j \in Jobs : Holds(u, j) /\ Holds(v, j) => u = v)'
  <2> SUFFICES ASSUME NEW u \in Threads, NEW v \in Threads, NEW j \in Jobs,
                      Holds(u, j)', Holds(v, j)'
               PROVE  u = v
    OBVIOUS
  <2>1. CASE u # t /\ v # t BY <1>1, <2>1 DEF Holds, QueueInv
  <2>2. CASE u = t /\ v # t BY <1>1, <2>2 DEF Holds
  <2>3. CASE u # t /\ v = t BY <1>1, <2>3 DEF Holds
  <2> QED BY <2>1, <2>2, <2>3
<1> QED BY <1>3, <1>4, <1>5, <1>6, <1>7 DEF QueueInv, BasicInv

(* What a goroutine that runs a job knows of it.                           *)
LEMMA Running ==
    ASSUME QueueInv, NEW t \in Threads, slot[t].at \in RunStages
    PROVE  /\ slot[t].job \in Jobs /\ Holds(t, slot[t].job)
           /\ Alive(t[1])
           /\ lockedBy[slot[t].job] = t[1]
           /\ status[slot[t].job] \notin {"none", "pending"}
<1>1. slot[t] \in Slot /\ slot[t].at \in HoldStages /\ slot[t].at # "free"
  BY StageFacts DEF QueueInv, TypeOK
<1>2. slot[t].job \in Jobs /\ Holds(t, slot[t].job) BY <1>1, SlotFacts DEF Holds
<1> QED BY <1>1, <1>2 DEF QueueInv, OwnsItsJob, At

(* A job that may be claimed is held by nobody.                            *)
LEMMA Unclaimed ==
    ASSUME QueueInv, Fresh, OneProcess, NEW t \in Threads, slot[t].at \in AskStages,
           NEW j \in Jobs, MayPick(t, j), NEW u \in Threads, Holds(u, j)
    PROVE  FALSE
<1>1. slot[t].at # "free" /\ slot[u].at # "free" BY StageFacts DEF Holds
<1>2. Alive(t[1]) /\ Alive(u[1]) BY <1>1 DEF QueueInv, At
<1>3. t[1] = u[1] BY <1>2 DEF QueueInv, Threads
<1>4. CASE slot[u].at = "picked"
  <2>1. Backend = "postgres" BY <1>4 DEF QueueInv, PickedInv, At
  <2>2. Locked(j) BY <1>4 DEF Locked, At
  <2> QED BY <2>1, <2>2 DEF MayPick
<1>5. CASE slot[u].at \in RunStages
  <2>1. slot[u].job = j BY DEF Holds
  <2>2. lockedBy[j] = t[1] /\ status[j] # "pending" BY <1>3, <1>5, <2>1, Running
  <2>3. j \in Orphans(t) BY <2>2 DEF MayPick, Candidates, Pending
  <2>4. lockedBy[j] # t[1] BY <2>3 DEF Orphans, OneProcess, Fresh
  <2> QED BY <2>2, <2>4
<1> QED BY <1>4, <1>5, StageFacts DEF Holds

LEMMA ProcessInv ==
    ASSUME QueueInv, BasicInv', OneProcess, NEW i \in Instances, Lives(i)
    PROVE  QueueInv'
<1>0. UNCHANGED <<status, lockedBy>>
  BY DEF Lives, Start, GraceEnds, Stop, Exit, Crash, Tick, AllBusy, rows
<1>1. CASE Start(i)
  <2>1. \A k \in Instances : Alive(k)' <=> k = i
    BY <1>1 DEF Start, Alive, OneProcess, QueueInv, TypeOK
  <2>2. \A t \in Threads : At(t, "free") BY <1>1 DEF Start, OneProcess, Threads, QueueInv
  <2>3. \A t \in Threads : slot'[t] = slot[t] /\ slot[t].at = "free"
    BY <1>1, <2>2 DEF Start, At
  <2>4. \A k \in Instances : filling'[k] => Alive(k)'
    BY <1>1, <2>1 DEF Start, OneProcess, QueueInv, TypeOK
  <2> QED BY <2>1, <2>3, <2>4, StageFacts DEF OwnsItsJob, Holds, At, QueueInv, BasicInv
<1>2. CASE GraceEnds(i)
  BY <1>0, <1>2 DEF GraceEnds, Alive, At, OwnsItsJob, Holds, QueueInv, BasicInv
<1>3. CASE Stop(i)
  <2>1. \A k \in Instances : Alive(k)' <=> Alive(k) BY <1>3 DEF Stop, Alive, QueueInv, TypeOK
  <2>2. UNCHANGED <<slot, filling>> BY <1>3 DEF Stop
  <2> QED BY <1>0, <2>1, <2>2 DEF At, OwnsItsJob, Holds, Threads, QueueInv, BasicInv
<1>4. CASE Exit(i) \/ Crash(i)
  <2>1. \A k \in Instances : Alive(k)' <=> Alive(k) /\ k # i
    BY <1>4 DEF Exit, Crash, Alive, QueueInv, TypeOK
  <2>2. \A t \in Threads : slot'[t] = IF t[1] = i THEN Free ELSE slot[t]
    BY <1>4 DEF Exit, Crash
  <2>3. \A k \in Instances : filling'[k] => filling[k] /\ k # i
    BY <1>4 DEF Exit, Crash, QueueInv, TypeOK
  <2>4. \A t \in Threads : slot'[t].at = "free" \/ (t[1] # i /\ slot'[t] = slot[t])
    BY <2>2, StageFacts
  <2>5. (\A t \in Threads : ~At(t, "free") => Alive(t[1]))'
    BY <2>1, <2>4 DEF At, Threads, QueueInv
  <2>6. \A t \in Threads : OwnsItsJob(t)'
    BY <1>0, <2>4, StageFacts DEF OwnsItsJob, QueueInv
  <2>7. (\A t, u \in Threads : \A j \in Jobs : Holds(t, j) /\ Holds(u, j) => t = u)'
    BY <2>4, StageFacts DEF Holds, QueueInv
  <2> QED BY <2>1, <2>3, <2>5, <2>6, <2>7 DEF QueueInv, BasicInv
<1>5. CASE Tick(i) \/ AllBusy(i)
  <2>1. UNCHANGED <<inst, slot>> BY <1>5 DEF Tick, AllBusy, processes
  <2>2. \A k \in Instances : filling'[k] => filling[k] \/ Alive(k)
    BY <1>5 DEF Tick, AllBusy, Alive, QueueInv, TypeOK
  <2> QED BY <1>0, <2>1, <2>2 DEF Alive, At, OwnsItsJob, Holds, QueueInv, BasicInv
<1> QED BY <1>1, <1>2, <1>3, <1>4, <1>5 DEF Lives

LEMMA JobRowInv ==
    ASSUME QueueInv, BasicInv', NEW j \in Jobs, RowSteps(j)
    PROVE  QueueInv'
<1>1. UNCHANGED <<inst, filling, slot, lockedBy>>
  BY DEF RowSteps, Expire, CreateJob, ScrapDisk, CloseJob, processes, rows
<1>2. \A k \in Jobs : status[k] \notin {"none", "pending"} => status'[k] \notin {"none", "pending"}
  BY DEF RowSteps, Expire, CreateJob, ScrapDisk, CloseJob, rows, QueueInv, TypeOK
<1>3. ASSUME NEW t \in Threads PROVE OwnsItsJob(t)'
  BY <1>1, <1>2, Running DEF OwnsItsJob
<1> QED BY <1>1, <1>3 DEF Alive, At, Holds, QueueInv, BasicInv

LEMMA ClaimInv ==
    ASSUME QueueInv, Fresh, BasicInv', OneProcess, NEW t \in Threads,
           AcquireNextJob(t) \/ CommitClaim(t)
    PROVE  QueueInv'
<1>0. TypeOK /\ PickedInv BY DEF QueueInv
<1>1. Alive(t[1]) BY <1>0, ClaimCases DEF QueueInv, At
<1>2. CASE NothingToDo(t)
  <2>1. slot' = [slot EXCEPT ![t] = Free] /\ UNCHANGED <<inst, status, lockedBy>>
    BY <1>0, <1>2, NothingStep
  <2>2. \A i \in Instances : filling'[i] => filling[i] BY <1>0, <1>2, NothingStep
  <2> QED BY <2>1, <2>2, StageFacts, SlotStep
<1>3. ASSUME NEW j \in Jobs, slot[t].at \in AskStages, MayPick(t, j), Picks(t, j)
      PROVE  QueueInv'
  <2> DEFINE x == [at |-> "picked", job |-> j]
  <2>1. x \in Slot /\ x.at \in HoldStages \ RunStages /\ x.job = j BY StageFacts
  <2>2. slot' = [slot EXCEPT ![t] = x] /\ UNCHANGED <<inst, filling, status, lockedBy>>
    BY <1>3 DEF Picks
  <2>3. \A u \in Threads : u # t => ~Holds(u, j) BY <1>3, Unclaimed
  <2> HIDE DEF x
  <2> QED BY <1>1, <2>1, <2>2, <2>3, SlotStep
<1>4. ASSUME NEW j \in Jobs, status[j] \in Claimable, Claim(t, j),
             (slot[t].at \in AskStages /\ MayPick(t, j)) \/ Holds(t, j)
      PROVE  QueueInv'
  <2> DEFINE x == [at |-> "claimed", job |-> j]
  <2>1. x.at \in RunStages /\ x.job = j BY StageFacts
  <2>2. /\ slot' = [slot EXCEPT ![t] = x] /\ x \in Slot
        /\ UNCHANGED <<inst, filling>>
    BY <1>0, <1>4, ClaimStep
  <2>3. \A u \in Threads : u # t => ~Holds(u, j) BY <1>4, Unclaimed DEF QueueInv
  <2>4. lockedBy'[j] = t[1] /\ status'[j] \notin {"none", "pending"}
    BY <1>0, <1>4, ClaimStep, StatusFacts
  <2>5. \A k \in Jobs : k # j => lockedBy'[k] = lockedBy[k] /\ status'[k] = status[k]
    BY <1>0, <1>4, ClaimStep
  <2> HIDE DEF x
  <2> QED BY <1>1, <2>1, <2>2, <2>3, <2>4, <2>5, SlotStep
<1> QED BY <1>0, <1>2, <1>3, <1>4, ClaimCases

LEMMA RunInv ==
    ASSUME QueueInv, BasicInv', NEW t \in Threads,
           Tokens(t) \/ Works(t) \/ Leaves(t) \/ VerifiedUnwritten(t)
    PROVE  QueueInv'
<1>0. TypeOK /\ t[1] \in Instances BY DEF QueueInv, Threads
<1>1. CASE Tokens(t)
  <2>1. PICK x \in Slot : /\ slot' = [slot EXCEPT ![t] = x]
                          /\ x.at \notin HoldStages
                          /\ x.at = "free" \/ Alive(t[1]) \/ filling[t[1]]
    BY <1>0, <1>1, TokenStep
  <2>2. x.at = "free" \/ Alive(t[1]) BY <1>0, <2>1 DEF QueueInv
  <2>3. UNCHANGED <<inst, filling, status, lockedBy>> BY <1>0, <1>1, TokenStep
  <2> QED BY <2>1, <2>2, <2>3, StageFacts, SlotStep
<1>2. CASE Works(t)
  <2>1. PICK x \in Slot, st \in Orphanable \cup Ended :
           /\ slot' = [slot EXCEPT ![t] = x]
           /\ status' = [status EXCEPT ![slot[t].job] = st]
           /\ x = Free \/ (x.at \in RunStages /\ x.job = slot[t].job)
    BY <1>0, <1>2, WorkStep
  <2>2. slot[t].at \in RunStages /\ UNCHANGED <<inst, filling, lockedBy>>
    BY <1>0, <1>2, WorkStep
  <2>3. /\ slot[t].job \in Jobs /\ Holds(t, slot[t].job) /\ Alive(t[1])
        /\ lockedBy[slot[t].job] = t[1]
    BY <2>2, Running
  <2>4. \A u \in Threads : u # t => ~Holds(u, slot[t].job) BY <2>3 DEF QueueInv
  <2>5. \A k \in Jobs : status'[k] = IF k = slot[t].job THEN st ELSE status[k]
    BY <1>0, <2>1, <2>3 DEF TypeOK
  <2>6. st \notin {"none", "pending"} BY StatusFacts
  <2> QED BY <2>1, <2>2, <2>3, <2>4, <2>5, <2>6, StageFacts, SlotStep
<1>3. CASE Leaves(t)
  <2>1. slot' = [slot EXCEPT ![t] = Free] /\ UNCHANGED <<inst, status, lockedBy>>
    BY <1>0, <1>3, LeaveStep
  <2>2. \A i \in Instances : filling'[i] => filling[i] BY <1>0, <1>3, LeaveStep
  <2> QED BY <2>1, <2>2, StageFacts, SlotStep
<1>4. CASE VerifiedUnwritten(t)
  <2>1. PICK x \in Slot : /\ slot' = [slot EXCEPT ![t] = x]
                          /\ x.at = "verified" /\ x.job = slot[t].job
    BY <1>0, <1>4, UnwrittenStep
  <2>2. slot[t].at \in RunStages /\ UNCHANGED <<inst, filling, status, lockedBy>>
    BY <1>0, <1>4, UnwrittenStep
  <2>3. /\ slot[t].job \in Jobs /\ Holds(t, slot[t].job) /\ Alive(t[1])
        /\ lockedBy[slot[t].job] = t[1]
        /\ status[slot[t].job] \notin {"none", "pending"}
    BY <2>2, Running
  <2>4. \A u \in Threads : u # t => ~Holds(u, slot[t].job) BY <2>3 DEF QueueInv
  <2> QED BY <2>1, <2>2, <2>3, <2>4, StageFacts, SlotStep
<1> QED BY <1>1, <1>2, <1>3, <1>4

LEMMA NextInv == OneProcess /\ QueueInv /\ BasicInv /\ BasicInv' /\ [Next]_vars => QueueInv'
<1> SUFFICES ASSUME OneProcess, QueueInv, BasicInv, BasicInv', [Next]_vars PROVE QueueInv'
  OBVIOUS
<1>1. CASE UNCHANGED vars
  BY <1>1 DEF vars, QueueInv, BasicInv, Alive, At, OwnsItsJob, Holds, processes, rows
<1> QED BY <1>1, ProcessInv, JobRowInv, ClaimInv, RunInv, NextCases DEF BasicInv

(* Every goroutine owns the row it works on.                               *)
THEOREM QueueInvariant == ASSUME OneProcess PROVE Spec => []QueueInv
<1>1. Init => QueueInv
  BY InitFacts, StageFacts DEF QueueInv, PickedInv, OwnsItsJob, Holds, At
<1> QED BY <1>1, NextInv, BasicInvariant, PTL DEF Spec

(* With one process at a time no job is ever worked on by two goroutines,  *)
(* whatever crashes and stops do: over the memory store always, over       *)
(* PostgreSQL as long as no heartbeat grows old.                           *)
THEOREM NeverExecutedTwice == ASSUME OneProcess PROVE Spec => []NoDoubleExecution
<1>1. QueueInv => NoDoubleExecution
  BY StageFacts DEF QueueInv, NoDoubleExecution, Runs, Holds
<1> QED BY <1>1, QueueInvariant, PTL
-----------------------------------------------------------------------------
(* No release of a slot forgets the row of its job, but one after a call   *)
(* that fails while the process goes on.                                   *)

LEMMA AttendedKept ==
    ASSUME NEW j \in Jobs, Attended(j),
           status'[j] \in Orphanable => status[j] \in Orphanable,
           lockedBy'[j] = lockedBy[j],
           \A i \in Instances : inst[i] \in {"stopping", "gone"} =>
                                  inst'[i] \in {"stopping", "gone"},
           \A t \in Threads : Runs(t, j) =>
              \/ Runs(t, j)'
              \/ status'[j] \notin Orphanable
              \/ lockedBy[j] \in Instances /\ inst'[lockedBy[j]] \in {"stopping", "gone"}
    PROVE  Attended(j)'
BY DEF Attended

LEMMA AttendedStep ==
    ASSUME QueueInv, Backend = "memory" \/ MaxFaults = 0, NEW j \in Jobs, Attended(j),
           [Next]_vars
    PROVE  Attended(j)'
<1>0. TypeOK /\ PickedInv /\ ~Fault BY DEF QueueInv, TypeOK, Fault
<1>1. CASE UNCHANGED vars BY <1>1 DEF vars, processes, rows, Attended, Runs
<1>2. ASSUME NEW i \in Instances, Lives(i) PROVE Attended(j)'
  <2>1. UNCHANGED <<status, lockedBy>>
    BY <1>2 DEF Lives, Start, GraceEnds, Stop, Exit, Crash, Tick, AllBusy, rows
  <2>2. \A k \in Instances : inst[k] \in {"stopping", "gone"} => inst'[k] \in {"stopping", "gone"}
    BY <1>0, <1>2 DEF Lives, Start, GraceEnds, Stop, Exit, Crash, Tick, AllBusy, TypeOK, processes
  <2>3. CASE Exit(i) \/ Crash(i)
    <3>1. inst'[i] = "gone" /\ \A t \in Threads : slot'[t] = IF t[1] = i THEN Free ELSE slot[t]
      BY <1>0, <2>3 DEF Exit, Crash, TypeOK
    <3>2. \A t \in Threads : Runs(t, j) =>
             Runs(t, j)' \/ (lockedBy[j] \in Instances /\ inst'[lockedBy[j]] = "gone")
      BY <3>1, Running DEF Runs, Threads
    <3> QED BY <2>1, <2>2, <3>2, AttendedKept
  <2>4. CASE ~(Exit(i) \/ Crash(i))
    <3>1. UNCHANGED slot BY <1>2, <2>4 DEF Lives, Start, GraceEnds, Stop, Tick, AllBusy
    <3> QED BY <2>1, <2>2, <3>1, AttendedKept DEF Runs
  <2> QED BY <2>3, <2>4
<1>3. ASSUME NEW k \in Jobs, RowSteps(k) PROVE Attended(j)'
  <2>1. status'[j] \in Orphanable => status[j] \in Orphanable
    BY <1>0, <1>3, StatusFacts DEF RowSteps, Expire, CreateJob, ScrapDisk, CloseJob, TypeOK, rows
  <2>2. UNCHANGED <<inst, slot, lockedBy>>
    BY <1>3 DEF RowSteps, Expire, CreateJob, ScrapDisk, CloseJob, processes, rows
  <2> QED BY <2>1, <2>2, AttendedKept DEF Runs
<1>4. ASSUME NEW t \in Threads, slot[t].at \notin RunStages,
             NEW x, slot' = [slot EXCEPT ![t] = x], UNCHANGED <<inst, status, lockedBy>>
      PROVE  Attended(j)'
  <2>1. \A u \in Threads : Runs(u, j) => Runs(u, j)' BY <1>0, <1>4 DEF Runs, TypeOK
  <2> QED BY <1>4, <2>1, AttendedKept
<1>5. ASSUME NEW t \in Threads, Tokens(t) PROVE Attended(j)'
  <2>1. slot[t].at \notin RunStages BY <1>0, <1>5, TokenStep, StageFacts
  <2>2. PICK x \in Slot : slot' = [slot EXCEPT ![t] = x] BY <1>0, <1>5, TokenStep
  <2>3. UNCHANGED <<inst, status, lockedBy>> BY <1>0, <1>5, TokenStep
  <2> QED BY <1>4, <2>1, <2>2, <2>3
<1>6. ASSUME NEW t \in Threads, AcquireNextJob(t) \/ CommitClaim(t) PROVE Attended(j)'
  <2>0. slot[t].at \notin RunStages BY <1>0, <1>6, ClaimCases
  <2>1. CASE NothingToDo(t) BY <1>0, <1>4, <2>0, <2>1, NothingStep
  <2>2. ASSUME NEW k \in Jobs, Picks(t, k) PROVE Attended(j)'
    BY <1>4, <2>0, <2>2 DEF Picks
  <2>3. ASSUME NEW k \in Jobs, status[k] \in Claimable, Claim(t, k) PROVE Attended(j)'
    <3>1. \A u \in Threads :
             slot'[u] = IF u = t THEN [at |-> "claimed", job |-> k] ELSE slot[u]
      BY <1>0, <2>3, ClaimStep DEF TypeOK
    <3>2. CASE k = j BY <3>1, <3>2, StageFacts DEF Attended, Runs
    <3>3. CASE k # j
      <4>1. status'[j] = status[j] /\ lockedBy'[j] = lockedBy[j] /\ inst' = inst
        BY <1>0, <2>3, <3>3, ClaimStep
      <4>2. \A u \in Threads : Runs(u, j) => Runs(u, j)' BY <2>0, <3>1 DEF Runs
      <4> QED BY <4>1, <4>2, AttendedKept
    <3> QED BY <3>2, <3>3
  <2> QED BY <1>0, <1>6, <2>1, <2>2, <2>3, ClaimCases
<1>7. ASSUME NEW t \in Threads, Works(t) PROVE Attended(j)'
  <2>1. PICK x \in Slot, st \in Orphanable \cup Ended :
           /\ slot' = [slot EXCEPT ![t] = x]
           /\ status' = [status EXCEPT ![slot[t].job] = st]
           /\ \/ x = Free /\ st \in Ended
              \/ x.at \in RunStages /\ x.job = slot[t].job
    BY <1>0, <1>7, WorkStep
  <2>2. slot[t].job \in Jobs /\ UNCHANGED <<inst, lockedBy>> BY <1>0, <1>7, WorkStep
  <2>3. \A u \in Threads : slot'[u] = IF u = t THEN x ELSE slot[u] BY <1>0, <2>1 DEF TypeOK
  <2>4. status'[j] = IF j = slot[t].job THEN st ELSE status[j] BY <1>0, <2>1, <2>2 DEF TypeOK
  <2>5. CASE slot[t].job # j
    <3>1. \A u \in Threads : Runs(u, j) => Runs(u, j)' BY <2>3, <2>5 DEF Runs
    <3> QED BY <2>2, <2>4, <2>5, <3>1, AttendedKept
  <2>6. CASE slot[t].job = j
    <3>1. status'[j] \notin Orphanable \/ Runs(t, j)'
      BY <2>1, <2>3, <2>4, <2>6, StatusFacts DEF Runs
    <3> QED BY <3>1 DEF Attended
  <2> QED BY <2>5, <2>6
<1>8. ASSUME NEW t \in Threads, Leaves(t) PROVE Attended(j)'
  <2>1. /\ inst[t[1]] = "stopping" /\ t[1] \in Instances
        /\ UNCHANGED <<inst, status, lockedBy>>
    BY <1>0, <1>8, LeaveStep DEF Threads
  <2>2. \A u \in Threads : slot'[u] = IF u = t THEN Free ELSE slot[u]
    BY <1>0, <1>8, LeaveStep DEF TypeOK
  <2>3. Runs(t, j) => lockedBy[j] = t[1] BY Running DEF Runs
  <2>4. \A u \in Threads : Runs(u, j) =>
           Runs(u, j)' \/ (lockedBy[j] \in Instances /\ inst'[lockedBy[j]] = "stopping")
    BY <2>1, <2>2, <2>3 DEF Runs
  <2> QED BY <2>1, <2>4, AttendedKept
<1>9. ASSUME NEW t \in Threads, VerifiedUnwritten(t) PROVE Attended(j)'
  BY <1>0, <1>9, UnwrittenStep
<1> QED BY <1>1, <1>2, <1>3, <1>5, <1>6, <1>7, <1>8, <1>9, NextCases

(* With one process at a time no job under way is ever left to itself: a   *)
(* goroutine has it, or its process is stopping or gone and the next claim *)
(* may take it over.  The safety half of JobsEnd, for the memory store and *)
(* for a PostgreSQL whose calls do not fail: a call that fails while the   *)
(* process goes on leaves a row that only its old heartbeat gives back.    *)
THEOREM NoJobEverStranded ==
    ASSUME OneProcess, Backend = "memory" \/ MaxFaults = 0
    PROVE  Spec => []NoJobStranded
<1>1. Init => NoJobStranded BY DEF Init, NoJobStranded, Attended, Orphanable
<1>2. QueueInv /\ NoJobStranded /\ [Next]_vars => NoJobStranded'
  BY AttendedStep DEF NoJobStranded
<1> QED BY <1>1, <1>2, QueueInvariant, PTL DEF Spec
=============================================================================
