--------------------------- MODULE Approval_proofs ---------------------------
(***************************************************************************)
(* Proofs about Approval for every number of concurrent requests, approval *)
(* rows, operators and disks, and whether or not the asset has an owner.   *)
(***************************************************************************)
EXTENDS Approval, TLAPS

LEMMA IdleIsCall == Idle \in Call /\ CallOK(Idle)
BY ApprovalAssumption DEF Idle, NewCall, Call, Stages, CallOK

LEMMA InitInv == Init => ApprovalInv
<1> SUFFICES ASSUME Init PROVE ApprovalInv OBVIOUS
<1>1. NoRow \in Row /\ RowOK(NoRow) BY DEF NoRow, Row, Statuses, RowOK
<1>2. TypeOK BY <1>1, IdleIsCall, ApprovalAssumption DEF Init, TypeOK
<1>3. OneActive BY DEF Init, OneActive, Active, NoRow
<1>4. \A i \in Ids : RowOK(row[i]) BY <1>1 DEF Init
<1>5. \A c \in Calls : CallOK(call[c]) BY IdleIsCall DEF Init
<1>6. ExecutionWasApproved BY DEF Init, ExecutionWasApproved
<1> QED BY <1>2, <1>3, <1>4, <1>5, <1>6 DEF ApprovalInv

(* A step that only moves one call: what the store holds stays as it was.  *)
LEMMA ReadStep ==
    ASSUME ApprovalInv, NEW c \in Calls, NEW k \in Call, CallOK(k),
           call' = [call EXCEPT ![c] = k], UNCHANGED <<asset, disks, row>>
    PROVE  ApprovalInv'
<1>1. TypeOK' BY DEF ApprovalInv, TypeOK
<1>2. OneActive' /\ (\A i \in Ids : RowOK(row[i]))' /\ ExecutionWasApproved'
  BY DEF ApprovalInv, OneActive, Active, RowOK, ExecutionWasApproved, WasApproved
<1>3. \A d \in Calls : CallOK(call'[d]) BY DEF ApprovalInv, TypeOK
<1>4. (\A d \in Calls : CallOK(call[d]))' BY <1>3 DEF CallOK, Filed, WasApproved
<1> QED BY <1>1, <1>2, <1>4 DEF ApprovalInv

(* A step that rewrites one row and ends its call.                         *)
LEMMA RowStep ==
    ASSUME ApprovalInv, NEW c \in Calls, NEW i \in Ids, NEW r \in Row, RowOK(r),
           row' = [row EXCEPT ![i] = r], call' = [call EXCEPT ![c] = Idle],
           UNCHANGED <<asset, disks>>,
           r.status # "none",
           row[i].status = "none" \/ r.applicant = row[i].applicant,
           r.status \in {"pending", "approved"} => Active(i) \/ \A j \in Ids : ~Active(j),
           WasApproved(i) => /\ r.status \in {"approved", "withdrawn"}
                             /\ r.reviewer \notin {NoOne, r.applicant}
    PROVE  ApprovalInv'
<1> USE DEF ApprovalInv
<1>1. TypeOK' BY IdleIsCall DEF TypeOK
<1>2. \A j \in Ids : row'[j] = IF j = i THEN r ELSE row[j] BY DEF TypeOK
<1>3. OneActive' BY <1>2 DEF OneActive, Active
<1>4. (\A j \in Ids : RowOK(row[j]))' BY <1>2 DEF RowOK
<1>5. \A j \in Ids : WasApproved(j) => WasApproved(j)' BY <1>2 DEF WasApproved
<1>6. ExecutionWasApproved' BY <1>5 DEF ExecutionWasApproved
<1>7. ASSUME NEW d \in Calls PROVE CallOK(call[d])'
  <2>1. CASE d = c
    <3>1. call'[d] = Idle BY <2>1 DEF TypeOK
    <3> QED BY <3>1 DEF CallOK, Idle, NewCall
  <2>2. CASE d # c
    <3>1. call'[d] = call[d] BY <2>2 DEF TypeOK
    <3>2. call[d].at = "review_store" =>
             /\ call[d].id \in Filed' /\ call[d].to # "none"
             /\ call[d].by \in People /\ call[d].by # row'[call[d].id].applicant
      BY <1>2 DEF CallOK, Filed
    <3> QED BY <3>1, <3>2, <1>5 DEF CallOK
  <2> QED BY <2>1, <2>2
<1> QED BY <1>1, <1>3, <1>4, <1>6, <1>7

(* The state machine leaves closed rows alone.                             *)
LEMMA Transitions ==
    /\ \A to \in {"approved", "rejected"} : \A from \in Statuses :
          CanTransition(from, to) => from \in {"pending", to}
    /\ \A from \in Statuses :
          CanTransition(from, "withdrawn") => from \in {"pending", "approved", "withdrawn"}
BY DEF CanTransition, ApprovalTransitions, Statuses

LEMMA SubmitInv ==
    ASSUME ApprovalInv, NEW c \in Calls,
           \/ \E p \in People : SubmitApproval(c, p)
           \/ SubmitCheckActive(c)
           \/ SubmitListVersions(c)
    PROVE  ApprovalInv'
<1>0. call[c] \in Call /\ CallOK(call[c]) BY DEF ApprovalInv, TypeOK
<1>1. CASE \E p \in People : SubmitApproval(c, p)
  <2>1. PICK p \in People : SubmitApproval(c, p) BY <1>1
  <2> DEFINE k == NewCall("submit_active", p, NoId, "none", 0)
  <2>2. k \in Call /\ CallOK(k) BY DEF NewCall, Call, Stages, CallOK
  <2>3. call' = [call EXCEPT ![c] = k] /\ UNCHANGED <<asset, disks, row>>
    BY <2>1 DEF SubmitApproval
  <2> HIDE DEF k
  <2> QED BY <2>2, <2>3, ReadStep
<1>2. CASE SubmitCheckActive(c)
  <2>1. CASE Done(c)
    BY <1>2, <2>1, ReadStep, IdleIsCall DEF SubmitCheckActive, Done
  <2>2. CASE Goto(c, "submit_versions")
    <3> DEFINE k == [call[c] EXCEPT !.at = "submit_versions"]
    <3>1. k \in Call /\ CallOK(k) BY <1>0 DEF Call, Stages, CallOK
    <3>2. call' = [call EXCEPT ![c] = k] /\ UNCHANGED <<asset, disks, row>>
      BY <1>2, <2>2 DEF SubmitCheckActive, Goto
    <3> HIDE DEF k
    <3> QED BY <3>1, <3>2, ReadStep
  <2> QED BY <1>2, <2>1, <2>2 DEF SubmitCheckActive
<1>3. CASE SubmitListVersions(c)
  <2>1. PICK v \in 1..(Cardinality(Ids) + 1) :
           call' = [call EXCEPT ![c].at = "submit_create", ![c].version = v]
    BY <1>3 DEF SubmitListVersions
  <2> DEFINE k == [call[c] EXCEPT !.at = "submit_create", !.version = v]
  <2>2. v \in Nat OBVIOUS
  <2>3. k \in Call /\ CallOK(k) BY <1>0, <2>2 DEF Call, Stages, CallOK
  <2>4. call' = [call EXCEPT ![c] = k] /\ UNCHANGED <<asset, disks, row>>
    BY <1>3, <2>1 DEF SubmitListVersions, ApprovalInv, TypeOK
  <2> HIDE DEF k
  <2> QED BY <2>3, <2>4, ReadStep
<1> QED BY <1>1, <1>2, <1>3

LEMMA CreateInv ==
    ASSUME ApprovalInv, NEW c \in Calls, CreateApproval(c)
    PROVE  ApprovalInv'
<1>0. call[c] \in Call BY DEF ApprovalInv, TypeOK
<1>1. CASE \E i \in Ids : Active(i)
  BY <1>1, ReadStep, IdleIsCall DEF CreateApproval, Done
<1>2. CASE ~ \E i \in Ids : Active(i)
  <2> DEFINE r == [applicant |-> call[c].by, status |-> "pending",
                   reviewer |-> NoOne, version |-> call[c].version]
  <2>1. PICK i \in Ids \ Filed : row' = [row EXCEPT ![i] = r]
    BY <1>2 DEF CreateApproval
  <2>2. r \in Row /\ RowOK(r) /\ r.status = "pending"
    BY <1>0 DEF Call, Row, Statuses, RowOK
  <2>3. row[i].status = "none" /\ ~WasApproved(i) BY DEF Filed, WasApproved
  <2>4. call' = [call EXCEPT ![c] = Idle] /\ UNCHANGED <<asset, disks>>
    BY DEF CreateApproval, Done
  <2> HIDE DEF r
  <2> QED BY <1>2, <2>1, <2>2, <2>3, <2>4, RowStep
<1> QED BY <1>1, <1>2

LEMMA ReviewInv ==
    ASSUME ApprovalInv, NEW c \in Calls,
           \/ \E p \in People, i \in Ids, to \in {"approved", "rejected"} :
                 ReviewApproval(c, p, i, to)
           \/ StoreReview(c)
    PROVE  ApprovalInv'
<1>1. CASE \E p \in People, i \in Ids, to \in {"approved", "rejected"} :
              ReviewApproval(c, p, i, to)
  <2>1. PICK p \in People, i \in Ids, to \in {"approved", "rejected"} :
           ReviewApproval(c, p, i, to)
    BY <1>1
  <2> DEFINE k == NewCall("review_store", p, i, to, 0)
  <2>2. k = [at |-> "review_store", by |-> p, id |-> i, to |-> to,
             version |-> 0, left |-> 0]
    BY DEF NewCall
  <2>3. k \in Call BY <2>2 DEF Call, Stages
  <2>4. CallOK(k) BY <2>1, <2>2 DEF ReviewApproval, CallOK, Filed
  <2>5. call' = [call EXCEPT ![c] = k] /\ UNCHANGED <<asset, disks, row>>
    BY <2>1 DEF ReviewApproval
  <2> HIDE DEF k
  <2> QED BY <2>3, <2>4, <2>5, ReadStep
<1>2. CASE StoreReview(c)
  <2> DEFINE i == call[c].id
             to == call[c].to
             r == [row[i] EXCEPT !.status = to, !.reviewer = call[c].by]
  <2>0. /\ call[c] \in Call
        /\ i \in Filed /\ to # "none" /\ call[c].by \in People
        /\ call[c].by # row[i].applicant
    BY <1>2 DEF StoreReview, At, ApprovalInv, TypeOK, CallOK
  <2>1. i \in Ids /\ row[i] \in Row /\ RowOK(row[i]) /\ to \in {"approved", "rejected"}
    BY <2>0 DEF Filed, Call, ApprovalInv, TypeOK
  <2>2. call' = [call EXCEPT ![c] = Idle] /\ UNCHANGED <<asset, disks>>
    BY <1>2 DEF StoreReview, Done
  <2>3. CASE CanTransition(row[i].status, to)
    <3>1. row' = [row EXCEPT ![i] = r]
      BY <1>2, <2>1, <2>3 DEF StoreReview, ApprovalInv, TypeOK
    <3>2. row[i].status \in {"pending", to} BY <2>1, <2>3, Transitions DEF Row
    <3>3. /\ r \in Row /\ r.status = to /\ r.reviewer = call[c].by
          /\ r.applicant = row[i].applicant
      BY <2>0, <2>1 DEF Row, Statuses
    <3>4. RowOK(r) BY <2>0, <2>1, <3>3, ApprovalAssumption DEF RowOK
    <3>5. to = "approved" => Active(i) BY <3>2 DEF Active
    <3>6. WasApproved(i) => to = "approved" BY <2>1, <3>2 DEF WasApproved
    <3>7. r.reviewer \notin {NoOne, r.applicant} BY <2>0, <3>3, ApprovalAssumption
    <3> HIDE DEF r, to, i
    <3> QED BY <2>1, <2>2, <3>1, <3>3, <3>4, <3>5, <3>6, <3>7, RowStep
  <2>4. CASE ~CanTransition(row[i].status, to)
    <3>1. UNCHANGED row BY <1>2, <2>4 DEF StoreReview
    <3> QED BY <2>2, <3>1, ReadStep, IdleIsCall
  <2> QED BY <2>3, <2>4
<1> QED BY <1>1, <1>2

LEMMA WithdrawInv ==
    ASSUME ApprovalInv, NEW c \in Calls,
           \/ \E p \in People, i \in Ids : WithdrawApproval(c, p, i)
           \/ StoreWithdraw(c)
    PROVE  ApprovalInv'
<1>1. CASE \E p \in People, i \in Ids : WithdrawApproval(c, p, i)
  <2>1. PICK p \in People, i \in Ids : WithdrawApproval(c, p, i) BY <1>1
  <2> DEFINE k == NewCall("withdraw_store", p, i, "none", 0)
  <2>2. k = [at |-> "withdraw_store", by |-> p, id |-> i, to |-> "none",
             version |-> 0, left |-> 0]
    BY DEF NewCall
  <2>3. k \in Call /\ CallOK(k) BY <2>2 DEF Call, Stages, CallOK
  <2>4. call' = [call EXCEPT ![c] = k] /\ UNCHANGED <<asset, disks, row>>
    BY <2>1 DEF WithdrawApproval
  <2> HIDE DEF k
  <2> QED BY <2>3, <2>4, ReadStep
<1>2. CASE StoreWithdraw(c)
  <2> DEFINE i == call[c].id
             r == [row[i] EXCEPT !.status = "withdrawn"]
  <2>1. i \in Ids /\ row[i] \in Row /\ RowOK(row[i])
    BY <1>2 DEF StoreWithdraw, At, ApprovalInv, TypeOK, CallOK
  <2>2. call' = [call EXCEPT ![c] = Idle] /\ UNCHANGED <<asset, disks>>
    BY <1>2 DEF StoreWithdraw, Done
  <2>3. CASE row' = [row EXCEPT ![i].status = "withdrawn"]
    <3>1. row' = [row EXCEPT ![i] = r] BY <2>1, <2>3 DEF ApprovalInv, TypeOK
    <3>2. /\ r \in Row /\ r.status = "withdrawn" /\ r.reviewer = row[i].reviewer
          /\ r.applicant = row[i].applicant
      BY <2>1 DEF Row, Statuses
    <3>3. RowOK(r) BY <2>1, <3>2 DEF RowOK
    <3>4. WasApproved(i) => r.reviewer \notin {NoOne, r.applicant}
      BY <3>2 DEF WasApproved
    <3> HIDE DEF r, i
    <3> QED BY <2>1, <2>2, <3>1, <3>2, <3>3, <3>4, RowStep
  <2>4. CASE UNCHANGED row BY <2>2, <2>4, ReadStep, IdleIsCall
  <2> QED BY <1>2, <2>3, <2>4 DEF StoreWithdraw
<1> QED BY <1>1, <1>2

LEMMA PullInv ==
    ASSUME ApprovalInv, NEW c \in Calls,
           \/ \E p \in People, n \in BatchSizes : PullDisks(c, p, n)
           \/ ApprovedApproval(c)
           \/ CreateDisk(c)
           \/ PullTransition(c)
    PROVE  ApprovalInv'
<1>0. call[c] \in Call /\ CallOK(call[c]) BY DEF ApprovalInv, TypeOK
<1>1. CASE \E p \in People, n \in BatchSizes : PullDisks(c, p, n)
  <2>1. PICK p \in People, n \in BatchSizes : PullDisks(c, p, n) BY <1>1
  <2> DEFINE k == NewCall("pull_gate", p, NoId, "none", n)
  <2>2. k = [at |-> "pull_gate", by |-> p, id |-> NoId, to |-> "none",
             version |-> 0, left |-> n]
    BY DEF NewCall
  <2>3. n \in Nat /\ n > 0 BY ApprovalAssumption
  <2>4. k \in Call /\ CallOK(k) BY <2>2, <2>3 DEF Call, Stages, CallOK
  <2>5. call' = [call EXCEPT ![c] = k] /\ UNCHANGED <<asset, disks, row>>
    BY <2>1 DEF PullDisks
  <2> HIDE DEF k
  <2> QED BY <2>4, <2>5, ReadStep
<1>2. CASE ApprovedApproval(c)
  <2>1. CASE Done(c)
    BY <1>2, <2>1, ReadStep, IdleIsCall DEF ApprovedApproval, Done
  <2>2. CASE Goto(c, "pull_disks") /\ \E i \in Ids : row[i].status = "approved"
    <3> DEFINE k == [call[c] EXCEPT !.at = "pull_disks"]
    <3>1. k \in Call /\ k.at = "pull_disks" /\ k.left = call[c].left
      BY <1>0 DEF Call, Stages
    <3>2. \E i \in Ids : WasApproved(i)
      BY <2>2 DEF WasApproved, ApprovalInv, RowOK
    <3>3. CallOK(k) BY <1>0, <1>2, <3>1, <3>2 DEF CallOK, ApprovedApproval, At
    <3>4. call' = [call EXCEPT ![c] = k] /\ UNCHANGED <<asset, disks, row>>
      BY <1>2, <2>2 DEF ApprovedApproval, Goto
    <3> HIDE DEF k
    <3> QED BY <3>1, <3>3, <3>4, ReadStep
  <2> QED BY <1>2, <2>1, <2>2 DEF ApprovedApproval
<1>3. CASE CreateDisk(c)
  <2> DEFINE at == IF call[c].left = 1 THEN "pull_transition" ELSE "pull_disks"
             n == call[c].left - 1
             k == [call[c] EXCEPT !.left = n, !.at = at]
  <2>1. call[c].at = "pull_disks" /\ call[c].left \in Nat /\ call[c].left > 0
    BY <1>0, <1>3 DEF CreateDisk, At, CallOK, Call
  <2>2. \E i \in Ids : WasApproved(i) BY <1>0, <2>1 DEF CallOK
  <2>3. /\ k \in Call
        /\ k.at \in {"pull_disks", "pull_transition"}
        /\ k.at = "pull_disks" => k.left > 0
    <3>1. /\ n \in Nat /\ at \in {"pull_disks", "pull_transition"}
          /\ at = "pull_disks" => n > 0
      BY <2>1
    <3> HIDE DEF n, at
    <3>2. k \in Call BY <1>0, <3>1 DEF Call, Stages
    <3>3. k.at = at /\ k.left = n BY <1>0 DEF Call
    <3> QED BY <3>1, <3>2, <3>3
  <2>4. CallOK(k) BY <2>2, <2>3 DEF CallOK
  <2>5. call' = [call EXCEPT ![c] = k]
    <3>1. call' = [call EXCEPT ![c].left = n, ![c].at = at]
      BY <1>3, <2>1 DEF CreateDisk, ApprovalInv, TypeOK
    <3> HIDE DEF at, n
    <3> QED BY <3>1 DEF ApprovalInv, TypeOK
  <2>6. disks' \in 0..MaxDisks /\ asset' = asset /\ row' = row
    BY <1>3, ApprovalAssumption DEF CreateDisk, ApprovalInv, TypeOK
  <2> HIDE DEF k
  <2>7. TypeOK' BY <2>3, <2>5, <2>6 DEF ApprovalInv, TypeOK
  <2>8. OneActive' /\ (\A i \in Ids : RowOK(row[i]))'
    BY <2>6 DEF ApprovalInv, OneActive, Active, RowOK
  <2>9. ExecutionWasApproved' BY <2>2, <2>6 DEF ExecutionWasApproved, WasApproved
  <2>10. \A d \in Calls : CallOK(call'[d]) BY <2>4, <2>5 DEF ApprovalInv, TypeOK
  <2>11. (\A d \in Calls : CallOK(call[d]))'
    BY <2>6, <2>10 DEF CallOK, Filed, WasApproved
  <2> QED BY <2>7, <2>8, <2>9, <2>11 DEF ApprovalInv
<1>4. CASE PullTransition(c)
  <2>1. \E i \in Ids : WasApproved(i) BY <1>0, <1>4 DEF PullTransition, At, CallOK
  <2>2. asset' = "disk_pulled" /\ disks' = disks /\ row' = row
        /\ call' = [call EXCEPT ![c] = Idle]
    BY <1>4 DEF PullTransition, Done
  <2>3. TypeOK' BY <2>2, IdleIsCall DEF ApprovalInv, TypeOK
  <2>4. OneActive' /\ (\A i \in Ids : RowOK(row[i]))'
    BY <2>2 DEF ApprovalInv, OneActive, Active, RowOK
  <2>5. ExecutionWasApproved' BY <2>1, <2>2 DEF ExecutionWasApproved, WasApproved
  <2>6. \A d \in Calls : CallOK(call'[d])
    BY <2>2, IdleIsCall DEF ApprovalInv, TypeOK
  <2>7. (\A d \in Calls : CallOK(call[d]))'
    BY <2>2, <2>6 DEF CallOK, Filed, WasApproved
  <2> QED BY <2>3, <2>4, <2>5, <2>7 DEF ApprovalInv
<1> QED BY <1>1, <1>2, <1>3, <1>4

LEMMA NextInv == ApprovalInv /\ [Next]_vars => ApprovalInv'
<1> SUFFICES ASSUME ApprovalInv, [Next]_vars PROVE ApprovalInv' OBVIOUS
<1>1. ASSUME NEW c \in Calls, Abandon(c) PROVE ApprovalInv'
  BY <1>1, ReadStep, IdleIsCall DEF Abandon, Done
<1>2. CASE UNCHANGED vars
  BY <1>2 DEF vars, ApprovalInv, TypeOK, OneActive, Active, RowOK, CallOK, Filed,
              WasApproved, ExecutionWasApproved
<1> QED BY <1>1, <1>2, SubmitInv, CreateInv, ReviewInv, WithdrawInv, PullInv DEF Next

(* Rows, waiting calls and gates agree in every reachable state.           *)
THEOREM ApprovalInvariant == Spec => []ApprovalInv
BY InitInv, NextInv, PTL DEF Spec

(* Type correctness, for every instance.                                   *)
THEOREM ApprovalTypeCorrect == Spec => []TypeOK
<1>1. ApprovalInv => TypeOK BY DEF ApprovalInv
<1> QED BY <1>1, ApprovalInvariant, PTL

(* However submissions, reviews and withdrawals overlap, an asset never    *)
(* has two open requests.                                                  *)
THEOREM NeverTwoOpenRequests == Spec => []OneActive
<1>1. ApprovalInv => OneActive BY DEF ApprovalInv
<1> QED BY <1>1, ApprovalInvariant, PTL

(* No decision is taken by the applicant of the request.                   *)
THEOREM NeverSelfReviewed == Spec => []NoSelfReview
<1>1. ApprovalInv => NoSelfReview BY DEF ApprovalInv, NoSelfReview, RowOK, Filed
<1> QED BY <1>1, ApprovalInvariant, PTL

(* No disk is recorded, and no asset leaves pending, without a request that*)
(* someone else than its applicant approved.                               *)
THEOREM ExecutionAlwaysApproved == Spec => []ExecutionWasApproved
<1>1. ApprovalInv => ExecutionWasApproved BY DEF ApprovalInv
<1> QED BY <1>1, ApprovalInvariant, PTL

LEMMA BookInit == Init => Book!Init
BY DEF Init, Book!Init, NoRow

(* Every step files, decides or withdraws one request, or leaves the       *)
(* statuses as they are: a second decision of the same kind changes none.  *)
LEMMA BookStep ==
    ASSUME ApprovalInv, [Next]_vars
    PROVE  [Book!Next]_([i \in Ids |-> row[i].status])
<1> DEFINE st == [i \in Ids |-> row[i].status]
<1>0. (st)' = [i \in Ids |-> row'[i].status] OBVIOUS
<1>1. CASE UNCHANGED row BY <1>1
<1>2. ASSUME NEW c \in Calls, CreateApproval(c) PROVE Book!Next \/ UNCHANGED st
  <2>1. CASE \E i \in Ids : Active(i) BY <1>2, <2>1 DEF CreateApproval
  <2>2. CASE ~ \E i \in Ids : Active(i)
    <3>1. PICK i \in Ids \ Filed :
             row' = [row EXCEPT ![i] =
                       [applicant |-> call[c].by, status |-> "pending",
                        reviewer |-> NoOne, version |-> call[c].version]]
      BY <1>2, <2>2 DEF CreateApproval
    <3>2. st[i] = "none" BY <3>1 DEF Filed
    <3>3. (st)' = [st EXCEPT ![i] = "pending"] BY <3>1 DEF ApprovalInv, TypeOK
    <3>4. Book!Open = {} BY <2>2 DEF Book!Open, Active
    <3> QED BY <3>2, <3>3, <3>4 DEF Book!Next, Book!File
  <2> QED BY <2>1, <2>2
<1>3. ASSUME NEW c \in Calls, StoreReview(c) PROVE Book!Next \/ UNCHANGED st
  <2> DEFINE i == call[c].id
             to == call[c].to
  <2>1. /\ i \in Ids /\ row[i].status \in Statuses
        /\ to \in {"approved", "rejected"}
    BY <1>3 DEF StoreReview, At, ApprovalInv, TypeOK, CallOK, Filed, Call, Row
  <2>2. CASE CanTransition(row[i].status, to)
    <3>1. row' = [row EXCEPT ![i].status = to, ![i].reviewer = call[c].by]
      BY <1>3, <2>2 DEF StoreReview
    <3>2. \A j \in Ids : row'[j].status = IF j = i THEN to ELSE row[j].status
      BY <2>1, <3>1 DEF ApprovalInv, TypeOK, Row
    <3>3. (st)' = [st EXCEPT ![i] = to] BY <3>2
    <3>4. st[i] \in {"pending", to} BY <2>1, <2>2, Transitions
    <3>5. CASE st[i] = "pending"
      BY <2>1, <3>3, <3>5 DEF Book!Next, Book!Decide
    <3>6. CASE st[i] = to BY <3>3, <3>6
    <3> QED BY <3>4, <3>5, <3>6
  <2>3. CASE ~CanTransition(row[i].status, to) BY <1>3, <2>3 DEF StoreReview
  <2> QED BY <2>2, <2>3
<1>4. ASSUME NEW c \in Calls, StoreWithdraw(c) PROVE Book!Next \/ UNCHANGED st
  <2> DEFINE i == call[c].id
  <2>1. i \in Ids /\ row[i].status \in Statuses
    BY <1>4 DEF StoreWithdraw, At, ApprovalInv, TypeOK, CallOK, Row
  <2>2. CASE /\ CanTransition(row[i].status, "withdrawn")
             /\ row' = [row EXCEPT ![i].status = "withdrawn"]
    <3>1. \A j \in Ids : row'[j].status = IF j = i THEN "withdrawn" ELSE row[j].status
      BY <2>1, <2>2 DEF ApprovalInv, TypeOK, Row
    <3>2. (st)' = [st EXCEPT ![i] = "withdrawn"] BY <3>1
    <3>3. st[i] \in {"pending", "approved", "withdrawn"} BY <2>1, <2>2, Transitions
    <3>4. CASE st[i] \in {"pending", "approved"}
      BY <2>1, <3>2, <3>4 DEF Book!Next, Book!Withdraw, Book!Open
    <3>5. CASE st[i] = "withdrawn" BY <3>2, <3>5
    <3> QED BY <3>3, <3>4, <3>5
  <2>3. CASE UNCHANGED row BY <2>3
  <2> QED BY <1>4, <2>2, <2>3 DEF StoreWithdraw
<1>5. UNCHANGED row \/ \E c \in Calls : CreateApproval(c) \/ StoreReview(c) \/ StoreWithdraw(c)
  BY DEF Next, vars, SubmitApproval, SubmitCheckActive, SubmitListVersions,
         ReviewApproval, WithdrawApproval, PullDisks, ApprovedApproval, CreateDisk,
         PullTransition, Abandon
<1> QED BY <1>1, <1>2, <1>3, <1>4, <1>5

(* The interleaved calls implement the book of requests.                   *)
THEOREM ApprovalImplementsBook == Spec => ImplementsRequestBook
<1>1. ApprovalInv /\ [Next]_vars => [Book!Next]_([i \in Ids |-> row[i].status])
  BY BookStep
<1> QED BY <1>1, BookInit, ApprovalInvariant, PTL DEF Spec, ImplementsRequestBook, Book!Spec

(* Rows keep their versions, and new rows take the version of their call.  *)
LEMMA VersionsKept ==
    ASSUME VersionInv,
           \A i \in Filed : i \in Filed' /\ row'[i].version = row[i].version,
           \A i \in Filed' \ Filed : HasPredecessor(row'[i].version),
           \A c \in Calls : call'[c].at = "submit_create" =>
                               HasPredecessor(call'[c].version)
    PROVE  VersionInv'
<1>1. \A v : HasPredecessor(v) => HasPredecessor(v)'
  BY DEF HasPredecessor
<1>2. ASSUME NEW i \in Filed' PROVE HasPredecessor(row[i].version)'
  <2>1. CASE i \in Filed
    <3>1. HasPredecessor(row[i].version) /\ row'[i].version = row[i].version
      BY <2>1 DEF VersionInv, VersionsWithoutGaps
    <3> QED BY <3>1 DEF HasPredecessor
  <2>2. CASE i \notin Filed
    <3>1. HasPredecessor(row'[i].version) BY <1>2, <2>2
    <3> QED BY <3>1 DEF HasPredecessor
  <2> QED BY <2>1, <2>2
<1>3. ASSUME NEW c \in Calls, call'[c].at = "submit_create"
      PROVE  HasPredecessor(call[c].version)'
  <2>1. HasPredecessor(call'[c].version) BY <1>3
  <2> QED BY <2>1 DEF HasPredecessor
<1> QED BY <1>2, <1>3 DEF VersionInv, VersionsWithoutGaps

LEMMA VersionStep == ApprovalInv /\ VersionInv /\ [Next]_vars => VersionInv'
<1> SUFFICES ASSUME ApprovalInv, VersionInv, [Next]_vars PROVE VersionInv' OBVIOUS
<1>0. /\ call \in [Calls -> Call] /\ row \in [Ids -> Row]
      /\ \A c \in Calls : CallOK(call[c])
      /\ \A c \in Calls : call[c].at = "submit_create" => HasPredecessor(call[c].version)
  BY DEF ApprovalInv, TypeOK, VersionInv
<1> DEFINE Kept == \A i \in Ids : /\ row'[i].version = row[i].version
                                  /\ row[i].status # "none" => row'[i].status # "none"
                                  /\ row[i].status = "none" => row'[i].status = "none"
           Quiet == \A c \in Calls : \/ call'[c] = call[c]
                                     \/ call'[c].at # "submit_create"
<1>1. ASSUME Kept, Quiet PROVE VersionInv'
  <2>1. \A i \in Filed : i \in Filed' /\ row'[i].version = row[i].version
    BY <1>1 DEF Filed
  <2>2. \A i \in Filed' \ Filed : HasPredecessor(row'[i].version)
    BY <1>1 DEF Filed
  <2>3. \A c \in Calls : call'[c].at = "submit_create" => HasPredecessor(call'[c].version)
    BY <1>0, <1>1
  <2> QED BY <2>1, <2>2, <2>3, VersionsKept
<1>2. ASSUME UNCHANGED row PROVE Kept
  BY <1>2
<1>3. ASSUME NEW c \in Calls, Done(c) PROVE Quiet
  BY <1>0, <1>3 DEF Done, Idle, NewCall
<1>4. ASSUME NEW c \in Calls, NEW s, s # "submit_create", Goto(c, s) PROVE Quiet
  BY <1>0, <1>4 DEF Goto, Call
<1>5. ASSUME NEW c \in Calls, NEW p \in People, SubmitApproval(c, p) PROVE VersionInv'
  BY <1>0, <1>1, <1>2, <1>5 DEF SubmitApproval, NewCall
<1>6. ASSUME NEW c \in Calls, NEW p \in People, NEW i \in Ids,
             \/ \E to \in {"approved", "rejected"} : ReviewApproval(c, p, i, to)
             \/ WithdrawApproval(c, p, i)
      PROVE  VersionInv'
  BY <1>0, <1>1, <1>2, <1>6 DEF ReviewApproval, WithdrawApproval, NewCall
<1>7. ASSUME NEW c \in Calls, NEW p \in People, NEW n \in BatchSizes, PullDisks(c, p, n)
      PROVE  VersionInv'
  BY <1>0, <1>1, <1>2, <1>7 DEF PullDisks, NewCall
<1>8. ASSUME NEW c \in Calls, SubmitCheckActive(c) PROVE VersionInv'
  BY <1>1, <1>2, <1>3, <1>4, <1>8 DEF SubmitCheckActive
<1>9. ASSUME NEW c \in Calls, SubmitListVersions(c) PROVE VersionInv'
  <2>1. PICK v \in 1..(Cardinality(Ids) + 1) :
           /\ NextVersion(v) \/ v = 1
           /\ call' = [call EXCEPT ![c].at = "submit_create", ![c].version = v]
    BY <1>9 DEF SubmitListVersions
  <2>2. HasPredecessor(v) BY <2>1 DEF NextVersion, HasPredecessor
  <2>3. UNCHANGED row BY <1>9 DEF SubmitListVersions
  <2>4. \A d \in Calls : /\ d # c => call'[d] = call[d]
                         /\ d = c => call'[d].version = v
    BY <1>0, <2>1 DEF Call
  <2>5. \A d \in Calls : call'[d].at = "submit_create" => HasPredecessor(call'[d].version)
    BY <1>0, <2>2, <2>4
  <2>6. Filed' = Filed /\ \A i \in Filed : row'[i].version = row[i].version
    BY <2>3 DEF Filed
  <2> QED BY <2>5, <2>6, VersionsKept
<1>10. ASSUME NEW c \in Calls, CreateApproval(c) PROVE VersionInv'
  <2>1. Quiet BY <1>3, <1>10 DEF CreateApproval
  <2>2. CASE UNCHANGED row BY <1>1, <1>2, <2>1, <2>2
  <2>3. CASE row' # row
    <3>1. At(c, "submit_create") BY <1>10 DEF CreateApproval
    <3>2. PICK i \in Ids \ Filed :
             row' = [row EXCEPT ![i] = [applicant |-> call[c].by, status |-> "pending",
                                        reviewer |-> NoOne, version |-> call[c].version]]
      BY <1>10, <2>3 DEF CreateApproval
    <3>3. /\ row'[i].version = call[c].version
          /\ \A j \in Ids : j # i => row'[j] = row[j]
      BY <1>0, <3>2
    <3>4. HasPredecessor(row'[i].version) BY <1>0, <3>1, <3>3 DEF At
    <3>5. \A j \in Filed : j \in Filed' /\ row'[j].version = row[j].version
      BY <3>2, <3>3 DEF Filed
    <3>6. \A j \in Filed' \ Filed : j = i
      BY <3>3 DEF Filed
    <3>7. \A d \in Calls : call'[d].at = "submit_create" => HasPredecessor(call'[d].version)
      BY <1>0, <2>1
    <3> QED BY <3>4, <3>5, <3>6, <3>7, VersionsKept
  <2> QED BY <2>2, <2>3
<1>11. ASSUME NEW c \in Calls, StoreReview(c) PROVE VersionInv'
  <2>1. Quiet BY <1>3, <1>11 DEF StoreReview
  <2>2. call[c].to \in {"none", "approved", "rejected"} /\ CallOK(call[c]) BY <1>0 DEF Call
  <2>3. call[c].id \in Filed /\ call[c].to # "none"
    BY <1>11, <2>2 DEF StoreReview, At, CallOK
  <2>4. Kept BY <1>0, <1>11, <2>3 DEF StoreReview, Row, Filed
  <2> QED BY <1>1, <2>1, <2>4
<1>12. ASSUME NEW c \in Calls, StoreWithdraw(c) PROVE VersionInv'
  <2>1. Quiet BY <1>3, <1>12 DEF StoreWithdraw
  <2>2. call[c].id \in Ids BY <1>0, <1>12 DEF StoreWithdraw, At, CallOK
  <2>3. row[call[c].id].status = "none" => ~CanTransition(row[call[c].id].status, "withdrawn")
    BY DEF CanTransition, ApprovalTransitions
  <2>4. Kept BY <1>0, <1>12, <2>2, <2>3 DEF StoreWithdraw, Row
  <2> QED BY <1>1, <2>1, <2>4
<1>13. ASSUME NEW c \in Calls, ApprovedApproval(c) PROVE VersionInv'
  BY <1>1, <1>2, <1>3, <1>4, <1>13 DEF ApprovedApproval
<1>14. ASSUME NEW c \in Calls, CreateDisk(c) PROVE VersionInv'
  <2>1. Quiet BY <1>0, <1>14 DEF CreateDisk, At, Call
  <2>2. UNCHANGED row BY <1>14 DEF CreateDisk
  <2> QED BY <1>1, <1>2, <2>1, <2>2
<1>15. ASSUME NEW c \in Calls, PullTransition(c) \/ Abandon(c) PROVE VersionInv'
  BY <1>1, <1>2, <1>3, <1>15 DEF PullTransition, Abandon
<1>16. CASE UNCHANGED vars
  BY <1>1, <1>16 DEF vars
<1> QED BY <1>5, <1>6, <1>7, <1>8, <1>9, <1>10, <1>11, <1>12, <1>13, <1>14, <1>15, <1>16
           DEF Next

(* Versions have no gaps, for any number of overlapping submissions and    *)
(* any failures of their listings.                                         *)
THEOREM VersionsNeverSkip == Spec => []VersionsWithoutGaps
<1>1. Init => VersionInv
  BY DEF Init, VersionInv, VersionsWithoutGaps, Filed, NoRow, Idle, NewCall
<1>2. VersionInv => VersionsWithoutGaps BY DEF VersionInv
<1> QED BY <1>1, <1>2, ApprovalInvariant, VersionStep, PTL DEF Spec
-----------------------------------------------------------------------------
(* What overlap alone takes away: three promises that calls keep when the  *)
(* server handles one request at a time, failing and abandoned ones too.   *)

OneCall == \A c, e \in Calls : c = e

(* A step of the only call.                                                *)
LEMMA SerialKept ==
    ASSUME OneCall, NEW c \in Calls, StillTrue(c)', ExecutionHoldsApproval'
    PROVE  SerialInv'
BY DEF OneCall, SerialInv

(* A step that changes neither the rows nor the asset.                     *)
LEMMA SerialRead ==
    ASSUME OneCall, ApprovalInv, SerialInv, NEW c \in Calls, NEW k \in Call,
           call' = [call EXCEPT ![c] = k], UNCHANGED <<asset, row>>,
           k.at = "review_store" => row[k.id].status = "pending",
           k.at \in {"pull_gate", "pull_disks", "pull_transition"} => asset = "pending",
           k.at \in {"pull_disks", "pull_transition"} =>
              \E i \in Ids : row[i].status = "approved"
    PROVE  SerialInv'
<1>1. call'[c] = k BY DEF ApprovalInv, TypeOK
<1>2. StillTrue(c)' BY <1>1 DEF StillTrue, At
<1>3. ExecutionHoldsApproval' BY DEF SerialInv, ExecutionHoldsApproval
<1> QED BY <1>2, <1>3, SerialKept

(* A step that ends the call and may write the rows or the asset.          *)
LEMMA SerialDone ==
    ASSUME OneCall, ApprovalInv, NEW c \in Calls, Done(c), ExecutionHoldsApproval'
    PROVE  SerialInv'
<1>1. call'[c] = Idle BY DEF Done, ApprovalInv, TypeOK
<1>2. StillTrue(c)' BY <1>1 DEF StillTrue, At, Idle, NewCall
<1> QED BY <1>2, SerialKept

DecisionsKept == \A i \in Ids : row[i].reviewer # NoOne => row'[i].reviewer = row[i].reviewer
DisksInTime == disks' # disks => asset = "pending"

LEMMA SerialStep ==
    OneCall /\ ApprovalInv /\ SerialInv /\ [Next]_vars
        => SerialInv' /\ DecisionsKept /\ DisksInTime
<1> SUFFICES ASSUME OneCall, ApprovalInv, SerialInv, [Next]_vars
             PROVE  SerialInv' /\ DecisionsKept /\ DisksInTime
  OBVIOUS
<1>0. /\ call \in [Calls -> Call] /\ row \in [Ids -> Row]
      /\ \A c \in Calls : CallOK(call[c]) /\ StillTrue(c)
      /\ \A i \in Ids : RowOK(row[i])
      /\ ExecutionHoldsApproval
  BY DEF ApprovalInv, TypeOK, SerialInv
<1> DEFINE Goal == SerialInv' /\ DecisionsKept /\ DisksInTime
<1>1. ASSUME NEW c \in Calls, NEW k \in Call,
             call' = [call EXCEPT ![c] = k], UNCHANGED <<asset, disks, row>>,
             k.at = "review_store" => row[k.id].status = "pending",
             k.at \in {"pull_gate", "pull_disks", "pull_transition"} => asset = "pending",
             k.at \in {"pull_disks", "pull_transition"} =>
                \E i \in Ids : row[i].status = "approved"
      PROVE  Goal
  BY <1>1, SerialRead DEF DecisionsKept, DisksInTime
<1>2. ASSUME NEW c \in Calls, Done(c), UNCHANGED <<asset, disks, row>> PROVE Goal
  BY <1>0, <1>2, SerialDone DEF ExecutionHoldsApproval, DecisionsKept, DisksInTime
<1>3. ASSUME NEW c \in Calls, NEW s \in Stages, Goto(c, s), UNCHANGED <<asset, disks, row>>,
             s \in {"submit_versions", "pull_disks"},
             s = "pull_disks" => /\ asset = "pending"
                                 /\ \E i \in Ids : row[i].status = "approved"
      PROVE  Goal
  <2> DEFINE k == [call[c] EXCEPT !.at = s]
  <2>1. k \in Call /\ k.at = s BY <1>0 DEF Call
  <2>2. call' = [call EXCEPT ![c] = k] BY <1>3 DEF Goto
  <2> HIDE DEF k
  <2> QED BY <1>1, <1>3, <2>1, <2>2
<1>4. ASSUME NEW c \in Calls, NEW p \in People, NEW at \in Stages, NEW id \in Ids \cup {NoId},
             NEW to \in {"none", "approved", "rejected"}, NEW left \in Nat,
             call' = [call EXCEPT ![c] = NewCall(at, p, id, to, left)],
             UNCHANGED <<asset, disks, row>>,
             at \notin {"pull_disks", "pull_transition"},
             at = "review_store" => row[id].status = "pending",
             at = "pull_gate" => asset = "pending"
      PROVE  Goal
  <2> DEFINE k == NewCall(at, p, id, to, left)
  <2>1. k \in Call /\ k.at = at /\ k.id = id BY <1>4 DEF NewCall, Call
  <2>2. call' = [call EXCEPT ![c] = k] BY <1>4
  <2> HIDE DEF k
  <2> QED BY <1>1, <1>4, <2>1, <2>2
<1>5. ASSUME NEW c \in Calls, NEW p \in People,
             \/ SubmitApproval(c, p)
             \/ \E i \in Ids, to \in {"approved", "rejected"} : ReviewApproval(c, p, i, to)
             \/ \E i \in Ids : WithdrawApproval(c, p, i)
             \/ \E n \in BatchSizes : PullDisks(c, p, n)
      PROVE  Goal
  <2>0. {"submit_active", "review_store", "withdraw_store", "pull_gate"} \subseteq Stages
    BY DEF Stages
  <2>1. CASE SubmitApproval(c, p) BY <1>4, <2>0, <2>1 DEF SubmitApproval
  <2>2. ASSUME NEW i \in Ids, NEW to \in {"approved", "rejected"}, ReviewApproval(c, p, i, to)
        PROVE  Goal
    BY <1>4, <2>0, <2>2 DEF ReviewApproval
  <2>3. ASSUME NEW i \in Ids, WithdrawApproval(c, p, i) PROVE Goal
    BY <1>4, <2>0, <2>3 DEF WithdrawApproval
  <2>4. ASSUME NEW n \in BatchSizes, PullDisks(c, p, n) PROVE Goal
    <3>1. n \in Nat BY ApprovalAssumption
    <3> QED BY <1>4, <2>0, <2>4, <3>1 DEF PullDisks
  <2> QED BY <1>5, <2>1, <2>2, <2>3, <2>4
<1>6. ASSUME NEW c \in Calls, SubmitCheckActive(c) PROVE Goal
  <2>1. "submit_versions" \in Stages BY DEF Stages
  <2> QED BY <1>2, <1>3, <1>6, <2>1 DEF SubmitCheckActive
<1>7. ASSUME NEW c \in Calls, SubmitListVersions(c) PROVE Goal
  <2>1. PICK v \in 1..(Cardinality(Ids) + 1) :
           call' = [call EXCEPT ![c].at = "submit_create", ![c].version = v]
    BY <1>7 DEF SubmitListVersions
  <2> DEFINE k == [call[c] EXCEPT !.at = "submit_create", !.version = v]
  <2>2. v \in Nat OBVIOUS
  <2>3. k \in Call /\ k.at = "submit_create" BY <1>0, <2>2 DEF Call, Stages
  <2>4. call' = [call EXCEPT ![c] = k] BY <2>1
  <2> HIDE DEF k
  <2> QED BY <1>1, <1>7, <2>3, <2>4 DEF SubmitListVersions
<1>8. ASSUME NEW c \in Calls, CreateApproval(c) PROVE Goal
  <2>1. Done(c) /\ UNCHANGED <<asset, disks>> BY <1>8 DEF CreateApproval
  <2>2. CASE UNCHANGED row BY <1>2, <2>1, <2>2
  <2>3. CASE row' # row
    <3>1. PICK i \in Ids \ Filed :
             row' = [row EXCEPT ![i] = [applicant |-> call[c].by, status |-> "pending",
                                        reviewer |-> NoOne, version |-> call[c].version]]
      BY <1>8, <2>3 DEF CreateApproval
    <3>2. /\ row[i].status = "none" /\ row[i].reviewer = NoOne
          /\ \A j \in Ids : j # i => row'[j] = row[j]
      BY <1>0, <3>1 DEF Filed, RowOK
    <3>3. ExecutionHoldsApproval' BY <1>0, <2>1, <3>2 DEF ExecutionHoldsApproval
    <3>4. DecisionsKept BY <3>2 DEF DecisionsKept
    <3> QED BY <2>1, <3>3, <3>4, SerialDone DEF DisksInTime
  <2> QED BY <2>2, <2>3
<1>9. ASSUME NEW c \in Calls, StoreReview(c) PROVE Goal
  <2> DEFINE i == call[c].id
  <2>1. i \in Ids /\ row[i].status = "pending" /\ row[i].reviewer = NoOne
    BY <1>0, <1>9 DEF StoreReview, At, CallOK, StillTrue, Filed, RowOK
  <2>2. Done(c) /\ UNCHANGED <<asset, disks>> BY <1>9 DEF StoreReview
  <2>3. \A j \in Ids : j # i => row'[j] = row[j] BY <1>0, <1>9 DEF StoreReview
  <2> HIDE DEF i
  <2>4. ExecutionHoldsApproval' BY <1>0, <2>1, <2>2, <2>3 DEF ExecutionHoldsApproval
  <2>5. DecisionsKept BY <2>1, <2>3 DEF DecisionsKept
  <2> QED BY <2>2, <2>4, <2>5, SerialDone DEF DisksInTime
<1>10. ASSUME NEW c \in Calls, StoreWithdraw(c) PROVE Goal
  <2> DEFINE i == call[c].id
  <2>1. i \in Ids BY <1>0, <1>10 DEF StoreWithdraw, At, CallOK
  <2>2. Done(c) /\ UNCHANGED <<asset, disks>> BY <1>10 DEF StoreWithdraw
  <2>3. /\ \A j \in Ids : j # i => row'[j] = row[j]
        /\ row'[i].reviewer = row[i].reviewer
        /\ row[i].status = "approved" /\ asset # "pending" => row'[i] = row[i]
    BY <1>0, <1>10, <2>1 DEF StoreWithdraw, Row
  <2> HIDE DEF i
  <2>4. ExecutionHoldsApproval' BY <1>0, <2>1, <2>2, <2>3 DEF ExecutionHoldsApproval
  <2>5. DecisionsKept BY <2>1, <2>3 DEF DecisionsKept
  <2> QED BY <2>2, <2>4, <2>5, SerialDone DEF DisksInTime
<1>11. ASSUME NEW c \in Calls, ApprovedApproval(c) PROVE Goal
  <2>1. asset = "pending" BY <1>0, <1>11 DEF ApprovedApproval, At, StillTrue
  <2>2. "pull_disks" \in Stages BY DEF Stages
  <2> QED BY <1>2, <1>3, <1>11, <2>1, <2>2 DEF ApprovedApproval
<1>12. ASSUME NEW c \in Calls, CreateDisk(c) PROVE Goal
  <2>1. /\ asset = "pending" /\ \E i \in Ids : row[i].status = "approved"
        /\ call[c].left \in Nat \ {0}
    BY <1>0, <1>12 DEF CreateDisk, At, StillTrue, CallOK, Call
  <2>2. UNCHANGED <<asset, row>> BY <1>12 DEF CreateDisk
  <2> DEFINE k == [call[c] EXCEPT !.left = @ - 1,
                                  !.at = IF call[c].left = 1 THEN "pull_transition" ELSE @]
  <2>3. call' = [call EXCEPT ![c] = k] BY <1>12 DEF CreateDisk
  <2>4. k \in Call /\ k.at \in {"pull_disks", "pull_transition"}
    <3>1. call[c] \in Call /\ call[c].at = "pull_disks" BY <1>0, <1>12 DEF CreateDisk, At
    <3>2. call[c].left - 1 \in Nat BY <2>1
    <3>3. k.at \in {"pull_disks", "pull_transition"} BY <3>1 DEF Call
    <3>4. k.at \in Stages BY <3>3 DEF Stages
    <3>5. k = [call[c] EXCEPT !.left = call[c].left - 1, !.at = k.at] BY <3>1 DEF Call
    <3> DEFINE a == k.at  n == call[c].left - 1
    <3>6. [call[c] EXCEPT !.left = n, !.at = a] \in Call
      <4>1. a \in Stages /\ n \in Nat BY <3>2, <3>4
      <4> HIDE DEF a, n
      <4> QED BY <3>1, <4>1 DEF Call
    <3> QED BY <3>3, <3>5, <3>6
  <2> HIDE DEF k
  <2>5. SerialInv' BY <2>1, <2>2, <2>3, <2>4, SerialRead
  <2> QED BY <2>1, <2>2, <2>5 DEF DecisionsKept, DisksInTime
<1>13. ASSUME NEW c \in Calls, PullTransition(c) PROVE Goal
  <2>1. \E i \in Ids : row[i].status = "approved"
    BY <1>0, <1>13 DEF PullTransition, At, StillTrue
  <2>2. Done(c) /\ UNCHANGED <<disks, row>> BY <1>13 DEF PullTransition
  <2>3. ExecutionHoldsApproval' BY <2>1, <2>2 DEF ExecutionHoldsApproval
  <2> QED BY <2>2, <2>3, SerialDone DEF DecisionsKept, DisksInTime
<1>14. ASSUME NEW c \in Calls, Abandon(c) PROVE Goal
  BY <1>2, <1>14 DEF Abandon
<1>15. CASE UNCHANGED vars
  BY <1>0, <1>15 DEF vars, SerialInv, StillTrue, At, ExecutionHoldsApproval, DecisionsKept,
     DisksInTime
<1> QED BY <1>5, <1>6, <1>7, <1>8, <1>9, <1>10, <1>11, <1>12, <1>13, <1>14, <1>15 DEF Next

(* When calls do not overlap, an asset in execution holds an approved      *)
(* request, a decision keeps its reviewer and disks are recorded only      *)
(* while the asset is pending, whatever is abandoned half-way: only the    *)
(* overlap of calls takes these promises away.  (VersionsDistinct needs no *)
(* overlap to fail: a listing that fails is enough.)                       *)
THEOREM SerialCallsKeepPromises ==
    ASSUME OneCall
    PROVE  Spec => []ExecutionHoldsApproval /\ DecidedOnce /\ DisksOnlyWhilePending
<1>1. Init => SerialInv
  BY DEF Init, SerialInv, StillTrue, At, Idle, NewCall, ExecutionHoldsApproval
<1>2. SerialInv => ExecutionHoldsApproval BY DEF SerialInv
<1>3. ApprovalInv /\ SerialInv /\ [Next]_vars => SerialInv' BY SerialStep
<1>4. ApprovalInv /\ SerialInv /\ [Next]_vars
        => [\A i \in Ids : row[i].reviewer # NoOne => row'[i].reviewer = row[i].reviewer]_vars
  BY SerialStep DEF DecisionsKept
<1>5. ApprovalInv /\ SerialInv /\ [Next]_vars => [disks' # disks => asset = "pending"]_vars
  BY SerialStep DEF DisksInTime
<1> QED BY <1>1, <1>2, <1>3, <1>4, <1>5, ApprovalInvariant, PTL
        DEF Spec, DecidedOnce, DisksOnlyWhilePending
=============================================================================
