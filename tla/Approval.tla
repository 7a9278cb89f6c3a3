------------------------------ MODULE Approval ------------------------------
(***************************************************************************)
(* The decommission requests of one asset and the disk pull they gate:     *)
(* SubmitApproval, ReviewApproval, WithdrawApproval and PullDisks of       *)
(* internal/service, each a sequence of atomic store calls, made by        *)
(* concurrent HTTP requests.  What a call read stays in its local          *)
(* variables while other calls change the store.                           *)
(*                                                                         *)
(* A store call that returns an error ends the request where it stands     *)
(* (Abandon), and so does the death of the server between two calls.       *)
(* Of the asset's lifecycle only the step that starts execution is here;   *)
(* the standard and method of a request are in Decommission.               *)
(***************************************************************************)
EXTENDS Integers, FiniteSets

CONSTANTS
    Calls,       \* requests the server handles at the same time
    Ids,         \* identities of the approval rows that may be created
    People,      \* operators (X-Operator)
    Owner,       \* the asset's owner, or NoOne when the field is empty
    NoOne,       \* the empty operator name
    NoId,        \* no approval row
    BatchSizes,  \* numbers of disks one pull may record
    MaxDisks     \* bound on the disk rows recorded

ASSUME ApprovalAssumption ==
    /\ NoOne \notin People /\ NoId \notin Ids
    /\ Owner \in People \cup {NoOne}
    /\ BatchSizes \subseteq Nat \ {0}
    /\ MaxDisks \in Nat

VARIABLES
    asset,  \* status of the asset: "pending" until its disks are pulled
    disks,  \* number of disk rows recorded for the asset
    row,    \* the approval rows; status "none" before creation
    call    \* program counter and local variables of each request

vars == <<asset, disks, row, call>>

Statuses == {"none", "pending", "approved", "rejected", "withdrawn"}
Row == [applicant : People \cup {NoOne}, status : Statuses,
        reviewer : People \cup {NoOne}, version : Nat]
NoRow == [applicant |-> NoOne, status |-> "none", reviewer |-> NoOne, version |-> 0]

Stages == {"idle", "submit_active", "submit_versions", "submit_create",
           "review_store", "withdraw_store",
           "pull_gate", "pull_disks", "pull_transition"}
Call == [at : Stages, by : People \cup {NoOne}, id : Ids \cup {NoId},
         to : {"none", "approved", "rejected"}, version : Nat, left : Nat]
NewCall(at, by, id, to, left) ==
    [at |-> at, by |-> by, id |-> id, to |-> to, version |-> 0, left |-> left]
Idle == NewCall("idle", NoOne, NoId, "none", 0)

Init == /\ asset = "pending"
        /\ disks = 0
        /\ row = [i \in Ids |-> NoRow]
        /\ call = [c \in Calls |-> Idle]
-----------------------------------------------------------------------------
(* The approval state machine and the rows that gate execution.            *)

ApprovalTransitions == {<<"pending", "approved">>, <<"pending", "rejected">>,
                        <<"pending", "withdrawn">>, <<"approved", "withdrawn">>}

(* A bug: the state machine forgets where a request comes from.            *)
CanTransition_AnyFrom(from, to) == from # "none"

CanTransition(from, to) == from = to \/ <<from, to>> \in ApprovalTransitions

Active(i) == row[i].status \in {"pending", "approved"}
Filed == {i \in Ids : row[i].status # "none"}

At(c, stage) == call[c].at = stage
Goto(c, stage) == call' = [call EXCEPT ![c].at = stage]
Done(c) == call' = [call EXCEPT ![c] = Idle]

-----------------------------------------------------------------------------
(* SubmitApproval: the asset is read, then the open request, then the      *)
(* versions so far, and the row is created in a fourth call.               *)

SubmitApproval(c, p) ==
    /\ At(c, "idle")
    /\ Owner \in {NoOne, p}
    /\ asset = "pending"
    /\ call' = [call EXCEPT ![c] = NewCall("submit_active", p, NoId, "none", 0)]
    /\ UNCHANGED <<asset, disks, row>>

SubmitCheckActive(c) ==
    /\ At(c, "submit_active")
    /\ IF \E i \in Ids : Active(i) THEN Done(c) ELSE Goto(c, "submit_versions")
    /\ UNCHANGED <<asset, disks, row>>

(* A bug: the count starts from one and every version adds to it.          *)
NextVersion_FromOne(v) == v = 2 + Cardinality({row[i].version : i \in Filed})

(* One more than the highest version filed so far.                         *)
NextVersion(v) == /\ \A i \in Filed : row[i].version < v
                  /\ v = 1 \/ \E i \in Filed : row[i].version = v - 1

(* A failing ListApprovals is ignored: the version is then 1.              *)
SubmitListVersions(c) ==
    /\ At(c, "submit_versions")
    /\ \E v \in 1..(Cardinality(Ids) + 1) :
          /\ NextVersion(v) \/ v = 1
          /\ call' = [call EXCEPT ![c].at = "submit_create", ![c].version = v]
    /\ UNCHANGED <<asset, disks, row>>

(* A bug: the store trusts the check the service made before.              *)
CreateApproval_Unchecked(c) ==
    /\ At(c, "submit_create")
    /\ \E i \in Ids \ Filed :
          row' = [row EXCEPT ![i] =
                    [applicant |-> call[c].by, status |-> "pending",
                     reviewer |-> NoOne, version |-> call[c].version]]
    /\ Done(c)
    /\ UNCHANGED <<asset, disks>>

(* CreateApproval looks for an open request again, under the store's lock. *)
CreateApproval(c) ==
    /\ At(c, "submit_create")
    /\ IF \E i \in Ids : Active(i)
       THEN UNCHANGED row
       ELSE \E i \in Ids \ Filed :
               row' = [row EXCEPT ![i] =
                         [applicant |-> call[c].by, status |-> "pending",
                          reviewer |-> NoOne, version |-> call[c].version]]
    /\ Done(c)
    /\ UNCHANGED <<asset, disks>>

-----------------------------------------------------------------------------
(* A bug: the ban on reviewing one's own request is forgotten.             *)
ReviewApproval_SelfAllowed(c, p, i, to) ==
    /\ At(c, "idle")
    /\ row[i].status = "pending"
    /\ call' = [call EXCEPT ![c] = NewCall("review_store", p, i, to, 0)]
    /\ UNCHANGED <<asset, disks, row>>

(* ReviewApproval: the request is read and judged, then decided in a       *)
(* second call, which only asks the state machine.                         *)

ReviewApproval(c, p, i, to) ==
    /\ At(c, "idle")
    /\ row[i].status = "pending"
    /\ p # row[i].applicant
    /\ call' = [call EXCEPT ![c] = NewCall("review_store", p, i, to, 0)]
    /\ UNCHANGED <<asset, disks, row>>

StoreReview(c) ==
    /\ At(c, "review_store")
    /\ LET i == call[c].id  to == call[c].to
       IN row' = IF CanTransition(row[i].status, to)
                 THEN [row EXCEPT ![i].status = to, ![i].reviewer = call[c].by]
                 ELSE row
    /\ Done(c)
    /\ UNCHANGED <<asset, disks>>

(* WithdrawApproval: only the applicant, who never changes; an approved    *)
(* request only while the asset is pending at that instant.                *)

WithdrawApproval(c, p, i) ==
    /\ At(c, "idle")
    /\ i \in Filed
    /\ p = row[i].applicant
    /\ call' = [call EXCEPT ![c] = NewCall("withdraw_store", p, i, "none", 0)]
    /\ UNCHANGED <<asset, disks, row>>

StoreWithdraw(c) ==
    /\ At(c, "withdraw_store")
    /\ LET i == call[c].id
       IN row' = IF /\ CanTransition(row[i].status, "withdrawn")
                    /\ row[i].status = "approved" => asset = "pending"
                 THEN [row EXCEPT ![i].status = "withdrawn"]
                 ELSE row
    /\ Done(c)
    /\ UNCHANGED <<asset, disks>>
-----------------------------------------------------------------------------
(* PullDisks: asset read, approval read, one CreateDisk per disk, and the  *)
(* transition of the asset last.                                           *)

PullDisks(c, p, n) ==
    /\ At(c, "idle")
    /\ asset = "pending"
    /\ call' = [call EXCEPT ![c] = NewCall("pull_gate", p, NoId, "none", n)]
    /\ UNCHANGED <<asset, disks, row>>

(* A bug: any open request lets the pull through.                          *)
ApprovedApproval_AnyActive(c) ==
    /\ At(c, "pull_gate")
    /\ IF \E i \in Ids : Active(i) THEN Goto(c, "pull_disks") ELSE Done(c)
    /\ UNCHANGED <<asset, disks, row>>

ApprovedApproval(c) ==
    /\ At(c, "pull_gate")
    /\ IF \E i \in Ids : row[i].status = "approved" THEN Goto(c, "pull_disks") ELSE Done(c)
    /\ UNCHANGED <<asset, disks, row>>

(* A disk without serial or device path stops the loop (Abandon) and       *)
(* leaves the rows recorded before it.                                     *)
CreateDisk(c) ==
    /\ At(c, "pull_disks")
    /\ disks < MaxDisks
    /\ disks' = disks + 1
    /\ call' = [call EXCEPT ![c].left = @ - 1,
                            ![c].at = IF call[c].left = 1 THEN "pull_transition" ELSE @]
    /\ UNCHANGED <<asset, row>>

(* TransitionAsset allows disk_pulled from pending, and from itself.       *)
PullTransition(c) ==
    /\ At(c, "pull_transition")
    /\ asset' = "disk_pulled"
    /\ Done(c)
    /\ UNCHANGED <<disks, row>>

Abandon(c) ==
    /\ ~At(c, "idle")
    /\ Done(c)
    /\ UNCHANGED <<asset, disks, row>>

Next == \E c \in Calls :
    \/ \E p \in People :
          \/ SubmitApproval(c, p)
          \/ \E i \in Ids, to \in {"approved", "rejected"} : ReviewApproval(c, p, i, to)
          \/ \E i \in Ids : WithdrawApproval(c, p, i)
          \/ \E n \in BatchSizes : PullDisks(c, p, n)
    \/ SubmitCheckActive(c) \/ SubmitListVersions(c) \/ CreateApproval(c)
    \/ StoreReview(c) \/ StoreWithdraw(c)
    \/ ApprovedApproval(c) \/ CreateDisk(c) \/ PullTransition(c)
    \/ Abandon(c)

Spec == Init /\ [][Next]_vars
-----------------------------------------------------------------------------
TypeOK == /\ asset \in {"pending", "disk_pulled"}
          /\ disks \in 0..MaxDisks
          /\ row \in [Ids -> Row]
          /\ call \in [Calls -> Call]

(* At most one request of the asset is open, whatever submissions, reviews *)
(* and withdrawals overlap: CreateApproval's second look.                  *)
OneActive == \A i, j \in Ids : Active(i) /\ Active(j) => i = j

(* No operator decides a request of their own (service.go, ReviewApproval),*)
(* also when the decision lands after other calls changed the row.         *)
NoSelfReview == \A i \in Filed : row[i].reviewer # NoOne =>
                                   row[i].reviewer # row[i].applicant

(* Execution starts only on a request that someone other than its          *)
(* applicant approved; it may have been withdrawn since.                   *)
WasApproved(i) == /\ row[i].status \in {"approved", "withdrawn"}
                  /\ row[i].reviewer \notin {NoOne, row[i].applicant}
ExecutionWasApproved == asset = "disk_pulled" \/ disks > 0 => \E i \in Ids : WasApproved(i)

(* The versions of an asset's requests have no gaps, although a version is *)
(* computed two calls before its row exists, from a listing that may be    *)
(* out of date or have failed (SubmitApproval): a version may be used      *)
(* twice, it never runs ahead of the requests that were filed.             *)
HasPredecessor(v) == v = 1 \/ \E i \in Filed : row[i].version = v - 1
VersionsWithoutGaps == \A i \in Filed : HasPredecessor(row[i].version)

(* The rows form a RequestBook: one open request, decided once, closed for *)
(* good.                                                                   *)
Book == INSTANCE RequestBook WITH status <- [i \in Ids |-> row[i].status]
ImplementsRequestBook == Book!Spec

-----------------------------------------------------------------------------
(* The inductive invariant: what each row and each waiting call rely on.   *)

RowOK(r) ==
    /\ r.status \in {"none", "pending"} => r.reviewer = NoOne
    /\ r.status = "approved" => r.reviewer # NoOne
    /\ r.reviewer # NoOne => r.reviewer # r.applicant

CallOK(k) ==
    /\ k.at = "review_store" =>
          /\ k.id \in Filed /\ k.to # "none"
          /\ k.by \in People /\ k.by # row[k.id].applicant
    /\ k.at = "withdraw_store" => k.id \in Ids
    /\ k.at \in {"pull_gate", "pull_disks"} => k.left > 0
    /\ k.at \in {"pull_disks", "pull_transition"} => \E i \in Ids : WasApproved(i)

ApprovalInv ==
    /\ TypeOK
    /\ OneActive
    /\ \A i \in Ids : RowOK(row[i])
    /\ \A c \in Calls : CallOK(call[c])
    /\ ExecutionWasApproved

(* The versions, in rows and on their way there.                           *)
VersionInv ==
    /\ VersionsWithoutGaps
    /\ \A c \in Calls : call[c].at = "submit_create" => HasPredecessor(call[c].version)

(* What the code says of itself, and overlapping calls refute.             *)

(* README, "before pulling, erasing and signing the asset must hold an     *)
(* approved request"; store.go, "withdrawing an approved request is        *)
(* rejected once execution has started".                                   *)
ExecutionHoldsApproval == asset = "disk_pulled" => \E i \in Ids : row[i].status = "approved"

(* "only pending requests can be reviewed" (service.go): a decision, once  *)
(* taken, keeps its reviewer.                                              *)
DecidedOnce == [][\A i \in Ids : row[i].reviewer # NoOne => row'[i].reviewer = row[i].reviewer]_vars

(* "every submission is a new row with Version incremented" (domain.go).   *)
VersionsDistinct == \A i, j \in Filed : row[i].version = row[j].version => i = j

(* "can only pull disks while asset is pending" (service.go).              *)
DisksOnlyWhilePending == [][disks' # disks => asset = "pending"]_vars

(* The inductive invariant behind three of them when calls do not overlap: *)
(* what a call has read is then still so when it writes.                   *)
StillTrue(c) ==
    /\ At(c, "review_store") => row[call[c].id].status = "pending"
    /\ call[c].at \in {"pull_gate", "pull_disks", "pull_transition"} => asset = "pending"
    /\ call[c].at \in {"pull_disks", "pull_transition"} =>
          \E i \in Ids : row[i].status = "approved"

SerialInv == /\ \A c \in Calls : StillTrue(c)
             /\ ExecutionHoldsApproval
=============================================================================
