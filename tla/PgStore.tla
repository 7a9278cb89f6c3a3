------------------------------- MODULE PgStore -------------------------------
(***************************************************************************)
(* The PostgreSQL store's multi-statement transactions on the rows of one  *)
(* asset, under READ COMMITTED: TransitionAsset, SaveDisposal,             *)
(* CreateApproval, ReviewApproval and WithdrawApproval of                  *)
(* internal/store/pg.go with the triggers and the unique indexes of        *)
(* migrations/.                                                            *)
(*                                                                         *)
(* One action is one statement.  The variables asset, approval and signed  *)
(* are the committed rows; what a transaction has written is visible to    *)
(* others only as a lock, which it holds until it commits or rolls back.   *)
(* The locks are read off the statements a transaction has executed.  The  *)
(* audit row, which conflicts with nothing, is part of Commit.             *)
(***************************************************************************)
EXTENDS Integers, FiniteSets

CONSTANTS
    Calls,    \* store calls in progress at the same time
    Ids,      \* the approval rows that may ever be created
    NoId,     \* no approval row
    Targets,  \* statuses callers ask TransitionAsset for
    MaxConns  \* connections of the pool

ASSUME PgAssumption ==
    /\ NoId \notin Ids
    /\ Targets \subseteq {"disk_pulled", "erasing", "erasure_verified", "scrapped"}
    /\ MaxConns \in Nat \ {0}

VARIABLES
    asset,     \* committed status of the asset
    approval,  \* committed status of each approval row; "none": no row
    signed,    \* whether a disposal confirmation is committed
    tx         \* the transaction of each call

vars == <<asset, approval, signed, tx>>

AssetStatus == {"pending", "disk_pulled", "erasing", "erasure_verified",
                "scrapped", "disposed"}
ApprovalStatus == {"none", "pending", "approved", "rejected", "withdrawn"}

(* at: the last statement executed; to: the status the call is to write;   *)
(* late, of a withdrawal: whether execution had started when it began.     *)
Request == [op : {"transition"}, id : {NoId}, to : Targets]
      \cup [op : {"sign"}, id : {NoId}, to : {"disposed"}]
      \cup [op : {"create"}, id : {NoId}, to : {"pending"}]
      \cup [op : {"review"}, id : Ids, to : {"approved", "rejected"}]
      \cup [op : {"withdraw"}, id : Ids, to : {"withdrawn"}]
NewTx(q, at, late) == [op |-> q.op, id |-> q.id, to |-> q.to, at |-> at, late |-> late]
Tx == [op : {"none", "transition", "sign", "create", "review", "withdraw"},
       id : Ids \cup {NoId},
       to : {"none"} \cup (AssetStatus \cup ApprovalStatus),
       at : {"idle", "begun", "inserted", "locked", "read", "written"},
       late : BOOLEAN]
NoTx == [op |-> "none", id |-> NoId, to |-> "none", at |-> "idle", late |-> FALSE]

Init == /\ asset = "pending"
        /\ approval = [i \in Ids |-> "none"]
        /\ signed = FALSE
        /\ tx = [c \in Calls |-> NoTx]
-----------------------------------------------------------------------------
(* What the triggers check_asset_transition and check_approval_transition  *)
(* let through; the store's Go code asks the same of an approval.          *)

AssetMove(from, to) ==
    from = to \/ <<from, to>> \in
    {<<"pending", "disk_pulled">>, <<"disk_pulled", "erasing">>,
     <<"disk_pulled", "scrapped">>, <<"erasing", "erasure_verified">>,
     <<"erasing", "scrapped">>, <<"erasure_verified", "disposed">>,
     <<"scrapped", "disposed">>}

ApprovalMove(from, to) ==
    from = to \/ <<from, to>> \in
    {<<"pending", "approved">>, <<"pending", "rejected">>,
     <<"pending", "withdrawn">>, <<"approved", "withdrawn">>}

(* A bug: only the first step of execution counts as its start.            *)
Started_FirstStepOnly == asset = "disk_pulled"

(* Execution has started, as far as committed rows tell.                   *)
Started == asset # "pending"

Active(i) == approval[i] \in {"pending", "approved"}
-----------------------------------------------------------------------------
(* The locks a transaction holds.                                          *)

At(c, op, stages) == tx[c].op \in op /\ tx[c].at \in stages

(* The row of the asset, updated.                                          *)
HasAsset(c) == At(c, {"transition", "sign"}, {"written"})

(* The confirmation's key in UNIQUE(asset_id), inserted.                   *)
HasSignature(c) == At(c, {"sign"}, {"inserted", "written"})

(* An approval row, selected FOR UPDATE and perhaps updated since.         *)
HasRow(c, i) == /\ At(c, {"review", "withdraw"}, {"locked", "read", "written"})
                /\ tx[c].id = i

(* The asset's entry in the partial index uniq_active_approval: inserted,  *)
(* or of an open row whose update is not committed.  A row that is only    *)
(* locked leaves the entry as it is.                                       *)
HasOpenEntry(c) == \/ At(c, {"create"}, {"written"})
                   \/ At(c, {"review", "withdraw"}, {"written"}) /\ Active(tx[c].id)

Others(c) == Calls \ {c}

Reach(c, stage) == /\ tx' = [tx EXCEPT ![c].at = stage]
                   /\ UNCHANGED <<asset, approval, signed>>
Rollback(c) == /\ tx' = [tx EXCEPT ![c] = NoTx]
               /\ UNCHANGED <<asset, approval, signed>>
-----------------------------------------------------------------------------
(* A call begins its transaction when the pool has a free connection.      *)

Connected == {c \in Calls : tx[c].at # "idle"}

Begin(c, q) ==
    /\ tx[c].at = "idle"
    /\ Cardinality(Connected) < MaxConns
    /\ tx' = [tx EXCEPT ![c] = NewTx(q, "begun", Started /\ q.op = "withdraw")]
    /\ UNCHANGED <<asset, approval, signed>>

(* UPDATE assets SET status, the only statement of TransitionAsset and the *)
(* second of SaveDisposal: it waits for the row, then the trigger judges   *)
(* the row's newest version.                                               *)
UpdateAsset(c) ==
    /\ At(c, {"transition"}, {"begun"}) \/ At(c, {"sign"}, {"inserted"})
    /\ \A d \in Others(c) : ~HasAsset(d)
    /\ IF AssetMove(asset, tx[c].to) THEN Reach(c, "written") ELSE Rollback(c)

(* A bug: the confirmation is inserted outside the transaction.            *)
InsertDisposal_Autocommit(c) ==
    /\ At(c, {"sign"}, {"begun"})
    /\ \A d \in Others(c) : ~HasSignature(d)
    /\ IF signed THEN Rollback(c)
       ELSE /\ signed' = TRUE
            /\ tx' = [tx EXCEPT ![c].at = "inserted"]
            /\ UNCHANGED <<asset, approval>>

InsertDisposal(c) ==
    /\ At(c, {"sign"}, {"begun"})
    /\ \A d \in Others(c) : ~HasSignature(d)
    /\ IF signed THEN Rollback(c) ELSE Reach(c, "inserted")

(* A bug: no unique index, only a look at the committed rows.              *)
InsertApproval_NoIndex(c) ==
    /\ At(c, {"create"}, {"begun"})
    /\ LET new == {i \in Ids : approval[i] = "none" /\ \A d \in Others(c) : tx[d].id # i}
       IN IF new = {} \/ \E i \in Ids : Active(i)
          THEN Rollback(c)
          ELSE /\ \E i \in new : tx' = [tx EXCEPT ![c].id = i, ![c].at = "written"]
               /\ UNCHANGED <<asset, approval, signed>>

(* INSERT INTO decommission_approvals: waits until the fate of every other *)
(* entry of the asset is known, and fails if one is left.  Ids is a bound: *)
(* with no id left the call fails.                                         *)
InsertApproval(c) ==
    /\ At(c, {"create"}, {"begun"})
    /\ \A d \in Others(c) : ~HasOpenEntry(d)
    /\ LET new == {i \in Ids : approval[i] = "none"}
       IN IF new = {} \/ \E i \in Ids : Active(i)
          THEN Rollback(c)
          ELSE /\ \E i \in new : tx' = [tx EXCEPT ![c].id = i, ![c].at = "written"]
               /\ UNCHANGED <<asset, approval, signed>>

(* A bug: a plain SELECT, which waits for nobody.                          *)
SelectForUpdate_Plain(c) ==
    /\ At(c, {"review", "withdraw"}, {"begun"})
    /\ IF approval[tx[c].id] # "none" /\ ApprovalMove(approval[tx[c].id], tx[c].to)
       THEN Reach(c, "locked")
       ELSE Rollback(c)

(* SELECT ... FOR UPDATE of the approval, and CanTransitionApproval on the *)
(* version it returns, the newest.                                         *)
SelectForUpdate(c) ==
    /\ At(c, {"review", "withdraw"}, {"begun"})
    /\ \A d \in Others(c) : ~HasRow(d, tx[c].id)
    /\ IF approval[tx[c].id] # "none" /\ ApprovalMove(approval[tx[c].id], tx[c].to)
       THEN Reach(c, "locked")
       ELSE Rollback(c)

WithdrawsApproved(c) == tx[c].op = "withdraw" /\ approval[tx[c].id] = "approved"

(* SELECT status FROM assets, without a lock: the committed status.        *)
SelectAsset(c) ==
    /\ At(c, {"withdraw"}, {"locked"})
    /\ WithdrawsApproved(c)
    /\ IF Started THEN Rollback(c) ELSE Reach(c, "read")

(* UPDATE decommission_approvals; the trigger reads the asset once more,   *)
(* again without a lock.                                                   *)
UpdateApproval(c) ==
    /\ At(c, {"review", "withdraw"}, {"locked", "read"})
    /\ WithdrawsApproved(c) => tx[c].at = "read"
    /\ IF WithdrawsApproved(c) /\ Started THEN Rollback(c) ELSE Reach(c, "written")

CommitAsset(c) ==
    /\ HasAsset(c)
    /\ asset' = tx[c].to
    /\ signed' = (signed \/ tx[c].op = "sign")
    /\ tx' = [tx EXCEPT ![c] = NoTx]
    /\ UNCHANGED approval

(* A bug: the audit row is written over another connection of the pool.    *)
CommitApproval_AuditByPool(c) ==
    /\ At(c, {"create", "review", "withdraw"}, {"written"})
    /\ Cardinality(Connected) < MaxConns
    /\ approval' = [approval EXCEPT ![tx[c].id] = tx[c].to]
    /\ tx' = [tx EXCEPT ![c] = NoTx]
    /\ UNCHANGED <<asset, signed>>

CommitApproval(c) ==
    /\ At(c, {"create", "review", "withdraw"}, {"written"})
    /\ approval' = [approval EXCEPT ![tx[c].id] = tx[c].to]
    /\ tx' = [tx EXCEPT ![c] = NoTx]
    /\ UNCHANGED <<asset, signed>>

(* Any statement may fail, and a client may go away: the deferred Rollback *)
(* or the end of the connection undoes the transaction.                    *)
Fail(c) ==
    /\ tx[c].at # "idle"
    /\ Rollback(c)

Step(c) == \/ UpdateAsset(c) \/ InsertDisposal(c) \/ InsertApproval(c)
           \/ SelectForUpdate(c) \/ SelectAsset(c) \/ UpdateApproval(c)
           \/ CommitAsset(c) \/ CommitApproval(c)

Next == \E c \in Calls : \/ \E q \in Request : Begin(c, q)
                         \/ Step(c)
                         \/ Fail(c)

(* PostgreSQL's lock manager serves those who wait for a lock in turn.     *)
Spec == Init /\ [][Next]_vars /\ \A c \in Calls : SF_vars(Step(c))
-----------------------------------------------------------------------------
TypeOK == /\ asset \in AssetStatus
          /\ approval \in [Ids -> ApprovalStatus]
          /\ signed \in BOOLEAN
          /\ tx \in [Calls -> Tx]

(* At most one open request, under concurrent submissions, reviews and     *)
(* withdrawals: the work of uniq_active_approval (pg.go, CreateApproval).  *)
OneOpenRequest == \A i, j \in Ids : Active(i) /\ Active(j) => i = j

(* SaveDisposal writes two tables: no failure and no concurrent transition *)
(* separates the confirmation from the asset's last status.                *)
SignedIffDisposed == signed <=> asset = "disposed"

(* Every commit is a step the in-memory store could have made in one       *)
(* critical section, except that a withdrawal does not look at the asset   *)
(* at that instant.                                                        *)
Memory == INSTANCE MemoryStore WITH LateWithdrawal <- TRUE
ImplementsMemoryStore == Memory!Spec

(* A withdrawal that begins after execution started never takes back an    *)
(* approval (store.go, WithdrawApproval).                                  *)
LateWithdrawalRefused ==
    [][\A i \in Ids : approval[i] = "approved" /\ approval'[i] = "withdrawn" =>
          \E c \in Calls : HasRow(c, i) /\ ~HasRow(c, i)' /\ ~tx[c].late]_vars

(* No transaction waits for ever, over row locks, unique keys or           *)
(* connections, for one that waits for it (pg.go, MaxConns and the order   *)
(* of the statements).                                                     *)
CallsReturn == \A c \in Calls : tx[c].at = "begun" ~> tx[c].at = "idle"

(* What CallsReturn needs of the locks: a transaction that must wait does  *)
(* so for one that can execute its next statement, or for one that waits   *)
(* for such a one in turn; no other chain of waiting exists.               *)
Waits(c, d) ==
    /\ c # d
    /\ \/ (At(c, {"transition"}, {"begun"}) \/ At(c, {"sign"}, {"inserted"})) /\ HasAsset(d)
       \/ At(c, {"sign"}, {"begun"}) /\ HasSignature(d)
       \/ At(c, {"create"}, {"begun"}) /\ HasOpenEntry(d)
       \/ At(c, {"review", "withdraw"}, {"begun"}) /\ HasRow(d, tx[c].id)

(* Somewhere between its begin and its commit, where there is a statement. *)
UnderWay(c) == \/ At(c, {"transition", "create"}, {"begun", "written"})
               \/ At(c, {"sign"}, {"begun", "inserted", "written"})
               \/ At(c, {"review", "withdraw"}, {"begun", "locked", "read", "written"})

(* The next statement of c can be executed.                                *)
Granted(c) == UnderWay(c) /\ \A d \in Calls : ~Waits(c, d)

NoDeadlock ==
    \A c \in Calls : tx[c].at # "idle" =>
        \/ Granted(c)
        \/ \E d \in Calls : Waits(c, d) /\ Granted(d)
        \/ \E d, e \in Calls : Waits(c, d) /\ Waits(d, e) /\ Granted(e)

(* "Withdrawing an approved request is rejected once execution has         *)
(* started" (store.go), to the letter: what the unlocked reads do not give.*)
WithdrawnBeforeStart ==
    [][\A i \in Ids : approval[i] = "approved" /\ approval'[i] = "withdrawn" =>
          asset = "pending"]_vars
-----------------------------------------------------------------------------
(* The inductive invariant: what a transaction has read or written stays   *)
(* true of the committed rows while it holds its locks, and the locks are  *)
(* exclusive.                                                              *)

Inserted(c) == At(c, {"create"}, {"written"})

TxOK(c) ==
    /\ tx[c].op = "transition" => tx[c].to \in Targets
    /\ tx[c].op = "sign" => tx[c].to = "disposed"
    /\ tx[c].op = "create" => tx[c].to = "pending"
    /\ tx[c].op = "review" => tx[c].id \in Ids /\ tx[c].to \in {"approved", "rejected"}
    /\ tx[c].op = "withdraw" => tx[c].id \in Ids /\ tx[c].to = "withdrawn"
    /\ Inserted(c) => /\ tx[c].id \in Ids /\ approval[tx[c].id] = "none"
                      /\ \A j \in Ids : ~Active(j)
    /\ HasRow(c, tx[c].id) => /\ approval[tx[c].id] # "none"
                              /\ ApprovalMove(approval[tx[c].id], tx[c].to)
    /\ HasSignature(c) => ~signed
    /\ HasAsset(c) => AssetMove(asset, tx[c].to)
    /\ tx[c].late => Started
    /\ WithdrawsApproved(c) /\ tx[c].at \in {"read", "written"} => ~tx[c].late

Apart(c, d) ==
    /\ ~(HasAsset(c) /\ HasAsset(d))
    /\ ~(HasSignature(c) /\ HasSignature(d))
    /\ \A i \in Ids : ~(HasRow(c, i) /\ HasRow(d, i))
    /\ ~(Inserted(c) /\ HasOpenEntry(d))

(* No transaction is at a stage where its operation has no statement.      *)
StagesOK == \A c \in Calls : tx[c].at = "idle" \/ UnderWay(c)

PgInv == /\ TypeOK
         /\ OneOpenRequest
         /\ SignedIffDisposed
         /\ \A c \in Calls : TxOK(c)
         /\ \A c, d \in Calls : c # d => Apart(c, d)
=============================================================================
