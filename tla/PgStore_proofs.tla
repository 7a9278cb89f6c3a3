---------------------------- MODULE PgStore_proofs ----------------------------
(***************************************************************************)
(* Proofs about PgStore for every number of concurrent calls, approval     *)
(* rows and connections: what commits is what the in-memory store's        *)
(* critical sections allow.                                                *)
(***************************************************************************)
EXTENDS PgStore, TLAPS

LEMMA NoTxOK == NoTx \in Tx
BY DEF NoTx, Tx

LEMMA RequestFacts ==
    ASSUME NEW q \in Request, NEW late \in BOOLEAN
    PROVE  /\ NewTx(q, "begun", late) \in Tx
           /\ q.op = "transition" => q.to \in Targets
           /\ q.op = "sign" => q.to = "disposed"
           /\ q.op = "create" => q.to = "pending"
           /\ q.op = "review" => q.id \in Ids /\ q.to \in {"approved", "rejected"}
           /\ q.op = "withdraw" => q.id \in Ids /\ q.to = "withdrawn"
BY PgAssumption DEF Request, NewTx, Tx, AssetStatus, ApprovalStatus

LEMMA InitInv == Init => PgInv
<1> SUFFICES ASSUME Init PROVE PgInv OBVIOUS
<1>1. TypeOK BY NoTxOK DEF Init, TypeOK, AssetStatus, ApprovalStatus
<1>2. OneOpenRequest BY DEF Init, OneOpenRequest, Active
<1>3. SignedIffDisposed BY DEF Init, SignedIffDisposed
<1>4. \A c \in Calls : tx[c] = NoTx BY DEF Init
<1>5. \A c \in Calls : TxOK(c)
  BY <1>4 DEF NoTx, TxOK, Inserted, HasRow, HasSignature, HasAsset, At, WithdrawsApproved
<1>6. \A c, d \in Calls : c # d => Apart(c, d)
  BY <1>4 DEF NoTx, Apart, Inserted, HasRow, HasSignature, HasAsset, At
<1> QED BY <1>1, <1>2, <1>3, <1>5, <1>6 DEF PgInv

(* A step of one transaction that commits nothing: the others, and what    *)
(* they hold, are as before.                                               *)
LEMMA LocalStep ==
    ASSUME PgInv, NEW c \in Calls, NEW t \in Tx,
           tx' = [tx EXCEPT ![c] = t], UNCHANGED <<asset, approval, signed>>,
           TxOK(c)',
           \A d \in Calls \ {c} : Apart(c, d)' /\ Apart(d, c)'
    PROVE  PgInv'
<1> USE DEF PgInv
<1>1. TypeOK' BY DEF TypeOK
<1>2. OneOpenRequest' /\ SignedIffDisposed'
  BY DEF OneOpenRequest, Active, SignedIffDisposed
<1>3. \A d \in Calls \ {c} : tx'[d] = tx[d] BY DEF TypeOK
<1>4. \A d \in Calls : TxOK(d)'
  <2> SUFFICES ASSUME NEW d \in Calls, d # c PROVE TxOK(d)' OBVIOUS
  <2>1. TxOK(d) OBVIOUS
  <2> QED BY <2>1, <1>3 DEF TxOK, Inserted, HasRow, HasSignature, HasAsset, At,
                            WithdrawsApproved, Active, Started
<1>5. ASSUME NEW d \in Calls, NEW e \in Calls, d # e PROVE Apart(d, e)'
  <2>1. CASE d = c \/ e = c BY <1>5, <2>1
  <2>2. CASE d # c /\ e # c
    <3>1. Apart(d, e) /\ tx'[d] = tx[d] /\ tx'[e] = tx[e] BY <1>3, <1>5, <2>2
    <3> QED BY <3>1 DEF Apart, Inserted, HasRow, HasSignature, HasAsset, HasOpenEntry,
                        At, Active
  <2> QED BY <2>1, <2>2
<1> QED BY <1>1, <1>2, <1>4, <1>5

(* Beginning a transaction, or giving one up, takes no lock.               *)
LEMMA IdleStep ==
    ASSUME PgInv, NEW c \in Calls,
           \/ Rollback(c)
           \/ \E q \in Request : Begin(c, q)
    PROVE  PgInv'
<1>1. CASE Rollback(c)
  <2>1. tx' = [tx EXCEPT ![c] = NoTx] /\ UNCHANGED <<asset, approval, signed>>
    BY <1>1 DEF Rollback
  <2>2. tx'[c] = NoTx BY <2>1 DEF PgInv, TypeOK
  <2>3. TxOK(c)' BY <2>2 DEF NoTx, TxOK, Inserted, HasRow, HasSignature, HasAsset, At,
                             WithdrawsApproved
  <2>4. \A d \in Calls \ {c} : Apart(c, d)' /\ Apart(d, c)'
    BY <2>2 DEF NoTx, Apart, Inserted, HasRow, HasSignature, HasAsset, HasOpenEntry, At
  <2> QED BY <2>1, <2>3, <2>4, NoTxOK, LocalStep
<1>2. CASE \E q \in Request : Begin(c, q)
  <2>1. PICK q \in Request : Begin(c, q) BY <1>2
  <2> DEFINE t == NewTx(q, "begun", Started /\ q.op = "withdraw")
  <2>2. tx' = [tx EXCEPT ![c] = t] /\ UNCHANGED <<asset, approval, signed>>
    BY <2>1 DEF Begin
  <2>3. (Started /\ q.op = "withdraw") \in BOOLEAN OBVIOUS
  <2>4. t \in Tx BY <2>3, RequestFacts
  <2>5. tx'[c] = t BY <2>2 DEF PgInv, TypeOK
  <2>6. /\ tx'[c].op = q.op /\ tx'[c].id = q.id /\ tx'[c].to = q.to
        /\ tx'[c].at = "begun" /\ tx'[c].late = (Started /\ q.op = "withdraw")
    BY <2>5 DEF NewTx
  <2>7. TxOK(c)'
    BY <2>2, <2>3, <2>6, RequestFacts
       DEF TxOK, Inserted, HasRow, HasSignature, HasAsset, At, WithdrawsApproved, Started
  <2>8. \A d \in Calls \ {c} : Apart(c, d)' /\ Apart(d, c)'
    BY <2>6 DEF Apart, Inserted, HasRow, HasSignature, HasAsset, HasOpenEntry, At
  <2> HIDE DEF t
  <2> QED BY <2>2, <2>4, <2>7, <2>8, LocalStep
<1> QED BY <1>1, <1>2

(* A statement that succeeds moves its transaction to the next stage.      *)
LEMMA ReachFacts ==
    ASSUME PgInv, NEW c \in Calls,
           NEW stage \in {"inserted", "locked", "read", "written"},
           Reach(c, stage)
    PROVE  /\ [tx[c] EXCEPT !.at = stage] \in Tx
           /\ tx' = [tx EXCEPT ![c] = [tx[c] EXCEPT !.at = stage]]
           /\ tx'[c].op = tx[c].op /\ tx'[c].id = tx[c].id /\ tx'[c].to = tx[c].to
           /\ tx'[c].at = stage /\ tx'[c].late = tx[c].late
           /\ \A d \in Calls \ {c} : tx'[d] = tx[d]
           /\ UNCHANGED <<asset, approval, signed>>
BY DEF PgInv, TypeOK, Tx, Reach

LEMMA AssetStatementInv ==
    ASSUME PgInv, NEW c \in Calls, UpdateAsset(c) \/ InsertDisposal(c)
    PROVE  PgInv'
<1>0. TxOK(c) BY DEF PgInv
<1>1. CASE Rollback(c) BY <1>1, IdleStep
<1>2. CASE UpdateAsset(c) /\ AssetMove(asset, tx[c].to) /\ Reach(c, "written")
  <2> DEFINE stage == "written"
  <2>0. tx[c].op \in {"transition", "sign"} BY <1>2 DEF UpdateAsset, At
  <2>1. /\ [tx[c] EXCEPT !.at = stage] \in Tx
        /\ tx' = [tx EXCEPT ![c] = [tx[c] EXCEPT !.at = stage]]
        /\ tx'[c].op = tx[c].op /\ tx'[c].id = tx[c].id /\ tx'[c].to = tx[c].to
        /\ tx'[c].at = stage /\ tx'[c].late = tx[c].late
        /\ \A d \in Calls \ {c} : tx'[d] = tx[d]
        /\ UNCHANGED <<asset, approval, signed>>
    BY <1>2, ReachFacts
  <2>2. HasSignature(c)' => HasSignature(c)
    BY <1>2, <2>1 DEF UpdateAsset, HasSignature, At
  <2>3. TxOK(c)'
    BY <1>0, <1>2, <2>0, <2>1, <2>2
       DEF TxOK, Inserted, HasRow, HasAsset, At, WithdrawsApproved, Started
  <2>4. \A d \in Calls \ {c} : Apart(c, d) /\ Apart(d, c) /\ ~HasAsset(d)
    BY <1>2 DEF PgInv, UpdateAsset, Others
  <2>5. \A d \in Calls \ {c} : Apart(c, d)' /\ Apart(d, c)'
    BY <2>0, <2>1, <2>2, <2>4
       DEF Apart, Inserted, HasRow, HasAsset, HasSignature, HasOpenEntry, At, Active
  <2> QED BY <2>1, <2>3, <2>5, LocalStep
<1>3. CASE InsertDisposal(c) /\ ~signed /\ Reach(c, "inserted")
  <2> DEFINE stage == "inserted"
  <2>0. tx[c].op = "sign" /\ tx[c].at = "begun" BY <1>3 DEF InsertDisposal, At
  <2>1. /\ [tx[c] EXCEPT !.at = stage] \in Tx
        /\ tx' = [tx EXCEPT ![c] = [tx[c] EXCEPT !.at = stage]]
        /\ tx'[c].op = tx[c].op /\ tx'[c].id = tx[c].id /\ tx'[c].to = tx[c].to
        /\ tx'[c].at = stage /\ tx'[c].late = tx[c].late
        /\ \A d \in Calls \ {c} : tx'[d] = tx[d]
        /\ UNCHANGED <<asset, approval, signed>>
    BY <1>3, ReachFacts
  <2>2. TxOK(c)'
    BY <1>0, <1>3, <2>0, <2>1
       DEF TxOK, Inserted, HasRow, HasAsset, HasSignature, At, WithdrawsApproved, Started
  <2>3. \A d \in Calls \ {c} : Apart(c, d) /\ Apart(d, c) /\ ~HasSignature(d)
    BY <1>3 DEF PgInv, InsertDisposal, Others
  <2>4. \A d \in Calls \ {c} : Apart(c, d)' /\ Apart(d, c)'
    BY <2>0, <2>1, <2>3
       DEF Apart, Inserted, HasRow, HasAsset, HasSignature, HasOpenEntry, At, Active
  <2> QED BY <2>1, <2>2, <2>4, LocalStep
<1> QED BY <1>1, <1>2, <1>3 DEF UpdateAsset, InsertDisposal

LEMMA InsertApprovalInv ==
    ASSUME PgInv, NEW c \in Calls, InsertApproval(c)
    PROVE  PgInv'
<1>0. TxOK(c) /\ tx[c] \in Tx BY DEF PgInv, TypeOK
<1>1. CASE Rollback(c) BY <1>1, IdleStep
<1>2. CASE ~Rollback(c)
  <2>1. PICK i \in Ids :
           /\ approval[i] = "none"
           /\ tx' = [tx EXCEPT ![c].id = i, ![c].at = "written"]
           /\ UNCHANGED <<asset, approval, signed>>
           /\ \A j \in Ids : ~Active(j)
    BY <1>2 DEF InsertApproval
  <2> DEFINE t == [tx[c] EXCEPT !.id = i, !.at = "written"]
  <2>2. t \in Tx BY <1>0 DEF Tx
  <2>3. tx' = [tx EXCEPT ![c] = t] BY <2>1 DEF PgInv, TypeOK
  <2>4. /\ tx'[c].op = "create" /\ tx'[c].id = i /\ tx'[c].to = tx[c].to
        /\ tx'[c].at = "written" /\ tx'[c].late = tx[c].late
        /\ \A d \in Calls \ {c} : tx'[d] = tx[d]
    BY <1>0, <2>3 DEF PgInv, TypeOK, Tx, InsertApproval, At
  <2>5. TxOK(c)'
    BY <1>0, <2>1, <2>4 DEF InsertApproval, TxOK, Inserted, HasRow, HasAsset,
                            HasSignature, At, WithdrawsApproved, Started, Active
  <2>6. \A d \in Calls \ {c} : Apart(c, d) /\ Apart(d, c) /\ ~HasOpenEntry(d)
    BY DEF PgInv, InsertApproval, Others
  <2>7. \A d \in Calls \ {c} : Apart(c, d)' /\ Apart(d, c)'
    BY <2>1, <2>4, <2>6
       DEF Apart, Inserted, HasRow, HasAsset, HasSignature, HasOpenEntry, At, Active
  <2> HIDE DEF t
  <2> QED BY <2>1, <2>2, <2>3, <2>5, <2>7, LocalStep
<1> QED BY <1>1, <1>2

LEMMA ApprovalStatementInv ==
    ASSUME PgInv, NEW c \in Calls,
           SelectForUpdate(c) \/ SelectAsset(c) \/ UpdateApproval(c)
    PROVE  PgInv'
<1>0. TxOK(c) BY DEF PgInv
<1>1. CASE Rollback(c) BY <1>1, IdleStep
<1>2. CASE ~Rollback(c)
  <2>1. PICK stage \in {"locked", "read", "written"} : Reach(c, stage)
    BY <1>2 DEF SelectForUpdate, SelectAsset, UpdateApproval
  <2>2. /\ [tx[c] EXCEPT !.at = stage] \in Tx
        /\ tx' = [tx EXCEPT ![c] = [tx[c] EXCEPT !.at = stage]]
        /\ tx'[c].op = tx[c].op /\ tx'[c].id = tx[c].id /\ tx'[c].to = tx[c].to
        /\ tx'[c].at = stage /\ tx'[c].late = tx[c].late
        /\ \A d \in Calls \ {c} : tx'[d] = tx[d]
        /\ UNCHANGED <<asset, approval, signed>>
    BY <2>1, ReachFacts
  <2>3. tx[c].op \in {"review", "withdraw"}
    BY DEF SelectForUpdate, SelectAsset, UpdateApproval, At
  <2>4. tx[c].id \in Ids BY <1>0, <2>3 DEF TxOK
  <2>5. \/ HasRow(c, tx[c].id)
        \/ /\ approval[tx[c].id] # "none"
           /\ ApprovalMove(approval[tx[c].id], tx[c].to)
           /\ \A d \in Calls \ {c} : ~HasRow(d, tx[c].id)
    BY <1>2 DEF SelectForUpdate, SelectAsset, UpdateApproval, HasRow, At, Others
  <2>6. WithdrawsApproved(c) /\ stage \in {"read", "written"} => ~Started
    <3>1. CASE SelectForUpdate(c)
      <4>1. Reach(c, "locked") BY <1>2, <3>1 DEF SelectForUpdate
      <4>2. tx'[c].at = "locked" BY <4>1, ReachFacts
      <4> QED BY <2>2, <4>2
    <3>2. CASE SelectAsset(c) BY <1>2, <3>2 DEF SelectAsset
    <3>3. CASE UpdateApproval(c) BY <1>2, <3>3 DEF UpdateApproval
    <3> QED BY <3>1, <3>2, <3>3
  <2>7. TxOK(c)'
    BY <1>0, <2>2, <2>3, <2>5, <2>6
       DEF TxOK, Inserted, HasRow, HasAsset, HasSignature, At, WithdrawsApproved, Started
  <2>8. ASSUME NEW d \in Calls \ {c} PROVE Apart(c, d)' /\ Apart(d, c)'
    <3>1. Apart(c, d) /\ Apart(d, c) /\ TxOK(d) BY DEF PgInv
    <3>2. \A i \in Ids : ~(HasRow(c, i)' /\ HasRow(d, i)')
      BY <2>2, <2>5, <3>1 DEF Apart, HasRow, At
    <3>3. Inserted(d) => \A j \in Ids : ~Active(j) BY <3>1 DEF TxOK
    <3>4. ~(Inserted(d)' /\ HasOpenEntry(c)')
      BY <2>2, <2>3, <2>4, <3>3 DEF Inserted, HasOpenEntry, At, Active
    <3>5. ~Inserted(c)' /\ ~HasAsset(c)' /\ ~HasSignature(c)'
      BY <2>2, <2>3 DEF Inserted, HasAsset, HasSignature, At
    <3> QED BY <3>2, <3>4, <3>5 DEF Apart
  <2> QED BY <2>2, <2>7, <2>8, LocalStep
<1> QED BY <1>1, <1>2

(* What the commit of an asset's row means for the state machine.          *)
LEMMA AssetCommitFacts ==
    ASSUME PgInv, NEW c \in Calls, CommitAsset(c)
    PROVE  /\ AssetMove(asset, asset')
           /\ asset' \in Targets \cup {"disposed"}
           /\ tx[c].op = "transition" => asset' \in Targets /\ signed' = signed
           /\ tx[c].op = "sign" => asset' = "disposed" /\ ~signed /\ signed' = TRUE
           /\ tx[c].op \in {"transition", "sign"}
           /\ tx' = [tx EXCEPT ![c] = NoTx] /\ UNCHANGED approval
<1>1. TxOK(c) /\ signed \in BOOLEAN BY DEF PgInv, TypeOK
<1> QED BY <1>1 DEF CommitAsset, TxOK, HasAsset, HasSignature, At

LEMMA CommitAssetInv ==
    ASSUME PgInv, NEW c \in Calls, CommitAsset(c)
    PROVE  PgInv'
<1> USE AssetCommitFacts
<1>0. asset' \notin {"pending"} BY PgAssumption
<1>1. \A d \in Calls : tx'[d] = IF d = c THEN NoTx ELSE tx[d] BY DEF PgInv, TypeOK
<1>2. TypeOK' BY PgAssumption, NoTxOK DEF PgInv, TypeOK, AssetStatus
<1>3. OneOpenRequest' BY DEF PgInv, OneOpenRequest, Active
<1>4. SignedIffDisposed'
  BY PgAssumption DEF PgInv, TypeOK, SignedIffDisposed, AssetMove
<1>5. ASSUME NEW d \in Calls PROVE TxOK(d)'
  <2>1. CASE d = c
    BY <1>1, <2>1 DEF NoTx, TxOK, Inserted, HasRow, HasSignature, HasAsset, At,
                      WithdrawsApproved
  <2>2. CASE d # c
    <3>1. TxOK(d) /\ Apart(c, d) /\ tx'[d] = tx[d] BY <1>1, <2>2 DEF PgInv
    <3>2. ~HasAsset(d) BY <3>1 DEF CommitAsset, Apart
    <3>3. HasSignature(d) => ~signed'
      BY <3>1 DEF CommitAsset, HasAsset, HasSignature, At, Apart, TxOK
    <3> QED BY <1>0, <3>1, <3>2, <3>3
            DEF TxOK, Inserted, HasRow, HasSignature, HasAsset, At, WithdrawsApproved,
                Active, Started
  <2> QED BY <2>1, <2>2
<1>6. ASSUME NEW d \in Calls, NEW e \in Calls, d # e PROVE Apart(d, e)'
  <2>1. Apart(d, e) BY <1>6 DEF PgInv
  <2>2. CASE d = c \/ e = c
    BY <1>1, <2>1, <2>2 DEF Apart, Inserted, HasRow, HasSignature, HasAsset,
                            HasOpenEntry, At, NoTx
  <2>3. CASE d # c /\ e # c
    <3>1. tx'[d] = tx[d] /\ tx'[e] = tx[e] /\ UNCHANGED approval BY <1>1, <2>3
    <3> QED BY <2>1, <3>1 DEF Apart, Inserted, HasRow, HasSignature, HasAsset,
                              HasOpenEntry, At, Active
  <2> QED BY <2>2, <2>3
<1> QED BY <1>2, <1>3, <1>4, <1>5, <1>6 DEF PgInv

(* What the commit of an approval row means: nobody else has it, and what  *)
(* was decided on it still holds.                                          *)
LEMMA ApprovalCommitFacts ==
    ASSUME PgInv, NEW c \in Calls, CommitApproval(c)
    PROVE  /\ tx[c].id \in Ids
           /\ approval' = [approval EXCEPT ![tx[c].id] = tx[c].to]
           /\ tx[c].to \in {"pending", "approved", "rejected", "withdrawn"}
           /\ \/ /\ Inserted(c) /\ tx[c].to = "pending"
                 /\ approval[tx[c].id] = "none" /\ \A j \in Ids : ~Active(j)
              \/ /\ HasRow(c, tx[c].id) /\ tx[c].op \in {"review", "withdraw"}
                 /\ approval[tx[c].id] # "none"
                 /\ ApprovalMove(approval[tx[c].id], tx[c].to)
                 /\ tx[c].op = "review" => tx[c].to \in {"approved", "rejected"}
                 /\ tx[c].op = "withdraw" => tx[c].to = "withdrawn"
           /\ tx' = [tx EXCEPT ![c] = NoTx] /\ UNCHANGED <<asset, signed>>
<1>1. TxOK(c) BY DEF PgInv
<1>2. CASE tx[c].op = "create"
  BY <1>1, <1>2 DEF CommitApproval, TxOK, Inserted, At
<1>3. CASE tx[c].op \in {"review", "withdraw"}
  BY <1>1, <1>3 DEF CommitApproval, TxOK, HasRow, At
<1> QED BY <1>2, <1>3 DEF CommitApproval, At

LEMMA CommitApprovalInv ==
    ASSUME PgInv, NEW c \in Calls, CommitApproval(c)
    PROVE  PgInv'
<1> DEFINE i == tx[c].id
<1>0. i \in Ids /\ approval \in [Ids -> ApprovalStatus]
  BY ApprovalCommitFacts DEF PgInv, TypeOK
<1>1. \A d \in Calls : tx'[d] = IF d = c THEN NoTx ELSE tx[d]
  BY ApprovalCommitFacts DEF PgInv, TypeOK
<1>2. \A j \in Ids : approval'[j] = IF j = i THEN tx[c].to ELSE approval[j]
  BY <1>0, ApprovalCommitFacts
<1>3. UNCHANGED <<asset, signed>> BY ApprovalCommitFacts
<1>4. TypeOK'
  BY <1>0, ApprovalCommitFacts, NoTxOK DEF PgInv, TypeOK, ApprovalStatus
<1>5. \A j \in Ids : Active(j)' =>
         Active(j) \/ (j = i /\ Inserted(c) /\ \A k \in Ids : ~Active(k))
  BY <1>2, ApprovalCommitFacts DEF Active, ApprovalMove
<1>6. OneOpenRequest' BY <1>5 DEF PgInv, OneOpenRequest
<1>7. SignedIffDisposed' BY <1>3 DEF PgInv, SignedIffDisposed
<1>8. ASSUME NEW d \in Calls PROVE TxOK(d)'
  <2>1. CASE d = c
    BY <1>1, <2>1 DEF NoTx, TxOK, Inserted, HasRow, HasSignature, HasAsset, At,
                      WithdrawsApproved
  <2>2. CASE d # c
    <3>1. TxOK(d) /\ Apart(c, d) /\ Apart(d, c) /\ tx'[d] = tx[d]
      BY <1>1, <2>2 DEF PgInv
    <3>2. Inserted(d) => ~Inserted(c)
      BY <3>1 DEF Apart, HasOpenEntry, Inserted
    <3>3. Inserted(d) => approval' = approval
      BY <1>0, <1>2, <3>1, <3>2, ApprovalCommitFacts
         DEF TxOK, Active, ApprovalMove, HasRow
    <3>3a. (Inserted(d) => /\ tx[d].id \in Ids /\ approval[tx[d].id] = "none"
                           /\ \A j \in Ids : ~Active(j))'
      BY <3>1, <3>3 DEF TxOK, Inserted, At, Active
    <3>4. HasRow(d, tx[d].id) => tx[d].id # i
      BY <1>0, <3>1, ApprovalCommitFacts DEF Apart, TxOK, HasRow, At
    <3>5. HasRow(d, tx[d].id) => approval'[tx[d].id] = approval[tx[d].id]
      BY <1>2, <3>1, <3>4 DEF TxOK, HasRow, At
    <3>6. (HasRow(d, tx[d].id) => /\ approval[tx[d].id] # "none"
                                  /\ ApprovalMove(approval[tx[d].id], tx[d].to))'
      BY <3>1, <3>5 DEF TxOK, HasRow, At
    <3>7. (WithdrawsApproved(d) /\ tx[d].at \in {"read", "written"} => ~tx[d].late)'
      BY <3>1, <3>5 DEF TxOK, HasRow, At, WithdrawsApproved
    <3> QED BY <1>3, <3>1, <3>3a, <3>6, <3>7
            DEF TxOK, HasSignature, HasAsset, At, Started
  <2> QED BY <2>1, <2>2
<1>9. ASSUME NEW d \in Calls, NEW e \in Calls, d # e PROVE Apart(d, e)'
  <2>1. Apart(d, e) BY <1>9 DEF PgInv
  <2>2. CASE d = c \/ e = c
    BY <1>1, <2>1, <2>2 DEF Apart, Inserted, HasRow, HasSignature, HasAsset,
                            HasOpenEntry, At, NoTx
  <2>3. CASE d # c /\ e # c
    <3>1. tx'[d] = tx[d] /\ tx'[e] = tx[e] BY <1>1, <2>3
    <3>2. Inserted(d)' => ~HasOpenEntry(e)'
      <4>1. SUFFICES ASSUME Inserted(d) PROVE ~HasOpenEntry(e)'
        BY <3>1 DEF Inserted, At
      <4>2. TxOK(d) /\ TxOK(e) /\ Apart(d, c) BY <2>3 DEF PgInv
      <4>3. ~Inserted(c) BY <4>1, <4>2 DEF Apart, HasOpenEntry, Inserted
      <4>4. \A j \in Ids : ~Active(j)' BY <1>5, <4>1, <4>2, <4>3 DEF TxOK
      <4>5. ~Inserted(e) BY <2>1, <4>1 DEF Apart, HasOpenEntry, Inserted
      <4> QED BY <3>1, <4>2, <4>4, <4>5 DEF HasOpenEntry, Inserted, At, TxOK
    <3> QED BY <2>1, <3>1, <3>2
            DEF Apart, Inserted, HasRow, HasSignature, HasAsset, At
  <2> QED BY <2>2, <2>3
<1> QED BY <1>4, <1>6, <1>7, <1>8, <1>9 DEF PgInv

LEMMA NextInv == PgInv /\ [Next]_vars => PgInv'
<1> SUFFICES ASSUME PgInv, [Next]_vars PROVE PgInv' OBVIOUS
<1>1. CASE UNCHANGED vars
  BY <1>1 DEF vars, PgInv, TypeOK, OneOpenRequest, Active, SignedIffDisposed, TxOK,
              Apart, Inserted, HasRow, HasAsset, HasSignature, HasOpenEntry, At,
              WithdrawsApproved, Started
<1>2. CASE Next
  <2>1. PICK c \in Calls : \/ \E q \in Request : Begin(c, q)
                           \/ Step(c)
                           \/ Fail(c)
    BY <1>2 DEF Next
  <2>2. CASE \E q \in Request : Begin(c, q) BY <2>2, IdleStep
  <2>3. CASE Fail(c) BY <2>3, IdleStep DEF Fail
  <2>4. CASE UpdateAsset(c) \/ InsertDisposal(c) BY <2>4, AssetStatementInv
  <2>5. CASE InsertApproval(c) BY <2>5, InsertApprovalInv
  <2>6. CASE SelectForUpdate(c) \/ SelectAsset(c) \/ UpdateApproval(c)
    BY <2>6, ApprovalStatementInv
  <2>7. CASE CommitAsset(c) BY <2>7, CommitAssetInv
  <2>8. CASE CommitApproval(c) BY <2>8, CommitApprovalInv
  <2> QED BY <2>1, <2>2, <2>3, <2>4, <2>5, <2>6, <2>7, <2>8 DEF Step
<1> QED BY <1>1, <1>2

(* The invariant of every reachable state.                                 *)
THEOREM PgInvariant == Spec => []PgInv
BY InitInv, NextInv, PTL DEF Spec

(* Type correctness, for every instance.                                   *)
THEOREM PgTypeCorrect == Spec => []TypeOK
<1>1. PgInv => TypeOK BY DEF PgInv
<1> QED BY <1>1, PgInvariant, PTL

(* Concurrent submissions never leave two open requests: pg.go,            *)
(* CreateApproval over uniq_active_approval.                               *)
THEOREM IndexKeepsOneOpen == Spec => []OneOpenRequest
<1>1. PgInv => OneOpenRequest BY DEF PgInv
<1> QED BY <1>1, PgInvariant, PTL

(* The confirmation and the last status of the asset are never apart:      *)
(* pg.go, SaveDisposal.                                                    *)
THEOREM SignatureIsAtomic == Spec => []SignedIffDisposed
<1>1. PgInv => SignedIffDisposed BY DEF PgInv
<1> QED BY <1>1, PgInvariant, PTL
-----------------------------------------------------------------------------
(* Waiting.                                                                *)

LEMMA StagesStep == PgInv /\ StagesOK /\ [Next]_vars => StagesOK'
<1> SUFFICES ASSUME PgInv, StagesOK, [Next]_vars, NEW d \in Calls
             PROVE  (tx[d].at = "idle" \/ UnderWay(d))'
  BY DEF StagesOK
<1>0. tx[d].at = "idle" \/ UnderWay(d) BY DEF StagesOK
<1>a. \A c \in Calls : tx[c] \in Tx /\ DOMAIN tx = Calls BY DEF PgInv, TypeOK
<1>1. CASE tx'[d] = tx[d] BY <1>0, <1>1 DEF UnderWay, At
<1>2. CASE tx'[d] # tx[d]
  <2>1. PICK c \in Calls : \/ \E q \in Request : Begin(c, q)
                           \/ Step(c)
                           \/ Fail(c)
    BY <1>2 DEF Next, vars
  <2>2. CASE Rollback(c) \/ CommitAsset(c) \/ CommitApproval(c)
    BY <2>2, <1>a, <1>2 DEF Rollback, CommitAsset, CommitApproval, NoTx
  <2>3. CASE \E q \in Request : Begin(c, q)
    <3>1. PICK q \in Request : Begin(c, q) BY <2>3
    <3>2. c = d /\ tx'[d].op = q.op /\ tx'[d].at = "begun"
      BY <3>1, <1>a, <1>2 DEF Begin, NewTx
    <3>3. q.op \in {"transition", "sign", "create", "review", "withdraw"} BY DEF Request
    <3> QED BY <3>2, <3>3 DEF UnderWay, At
  <2>4. ASSUME NEW stage \in {"inserted", "locked", "read", "written"}, Reach(c, stage)
        PROVE  c = d /\ tx'[d].op = tx[d].op /\ tx'[d].at = stage
    BY <2>4, <1>2, ReachFacts
  <2>5. CASE UpdateAsset(c) /\ ~Rollback(c)
    <3>1. Reach(c, "written") BY <2>5 DEF UpdateAsset
    <3> QED BY <3>1, <2>4, <2>5 DEF UpdateAsset, UnderWay, At
  <2>6. CASE InsertDisposal(c) /\ ~Rollback(c)
    <3>1. Reach(c, "inserted") BY <2>6 DEF InsertDisposal
    <3> QED BY <3>1, <2>4, <2>6 DEF InsertDisposal, UnderWay, At
  <2>7. CASE InsertApproval(c) /\ ~Rollback(c)
    <3>1. PICK i \in Ids : tx' = [tx EXCEPT ![c].id = i, ![c].at = "written"]
      BY <2>7 DEF InsertApproval
    <3>2. tx' = [tx EXCEPT ![c] = [tx[c] EXCEPT !.id = i, !.at = "written"]] /\ c = d
      BY <3>1, <1>a, <1>2
    <3>3. tx'[d].op = "create" /\ tx'[d].at = "written"
      BY <2>7, <3>2, <1>a DEF InsertApproval, At, Tx
    <3> QED BY <3>3 DEF UnderWay, At
  <2>8. CASE (SelectForUpdate(c) \/ SelectAsset(c) \/ UpdateApproval(c)) /\ ~Rollback(c)
    <3>1. PICK stage \in {"locked", "read", "written"} : Reach(c, stage)
      BY <2>8 DEF SelectForUpdate, SelectAsset, UpdateApproval
    <3>2. tx[c].op \in {"review", "withdraw"}
      BY <2>8 DEF SelectForUpdate, SelectAsset, UpdateApproval, At
    <3> QED BY <3>1, <3>2, <2>4 DEF UnderWay, At
  <2> QED BY <2>1, <2>2, <2>3, <2>5, <2>6, <2>7, <2>8 DEF Step, Fail
<1> QED BY <1>1, <1>2

(* Whoever holds a lock others wait for can go on, or waits for the lock   *)
(* on the asset's row, whose holder only has to commit.                    *)
LEMMA ChainsEnd == StagesOK => NoDeadlock
<1> SUFFICES ASSUME StagesOK, NEW c \in Calls, tx[c].at # "idle", ~Granted(c)
             PROVE  \/ \E d \in Calls : Waits(c, d) /\ Granted(d)
                    \/ \E d, e \in Calls : Waits(c, d) /\ Waits(d, e) /\ Granted(e)
  BY DEF NoDeadlock
<1>1. PICK d \in Calls : Waits(c, d) BY DEF StagesOK, Granted
<1>2. ASSUME NEW e \in Calls, HasAsset(e) PROVE Granted(e)
  BY <1>2 DEF HasAsset, Granted, UnderWay, Waits, At
<1>3. CASE HasAsset(d) BY <1>1, <1>2, <1>3
<1>4. CASE HasOpenEntry(d) \/ \E i : HasRow(d, i)
  <2>1. Granted(d)
    BY <1>4 DEF HasOpenEntry, HasRow, Granted, UnderWay, Waits, At
  <2> QED BY <1>1, <2>1
<1>5. CASE HasSignature(d) /\ ~HasAsset(d)
  <2>1. At(d, {"sign"}, {"inserted"}) BY <1>5 DEF HasSignature, HasAsset, At
  <2>2. CASE \E e \in Calls : e # d /\ HasAsset(e)
    <3>1. PICK e \in Calls : e # d /\ HasAsset(e) BY <2>2
    <3>2. Waits(d, e) BY <2>1, <3>1 DEF Waits
    <3> QED BY <1>1, <1>2, <3>1, <3>2
  <2>3. CASE ~ \E e \in Calls : e # d /\ HasAsset(e)
    <3>1. Granted(d) BY <2>1, <2>3 DEF Granted, UnderWay, Waits, At
    <3> QED BY <1>1, <3>1
  <2> QED BY <2>2, <2>3
<1> QED BY <1>1, <1>3, <1>4, <1>5 DEF Waits

(* No deadlock between any number of transactions, over row locks and      *)
(* unique keys: pg.go, the order of the statements.                        *)
THEOREM NeverDeadlocked == Spec => []NoDeadlock
<1>1. Init => StagesOK BY DEF Init, StagesOK, NoTx
<1> QED BY <1>1, StagesStep, ChainsEnd, PgInvariant, PTL DEF Spec
-----------------------------------------------------------------------------
LEMMA LateStep ==
    ASSUME PgInv, [Next]_vars, NEW i \in Ids,
           approval[i] = "approved", approval'[i] = "withdrawn"
    PROVE  \E c \in Calls : HasRow(c, i) /\ ~HasRow(c, i)' /\ ~tx[c].late
<1>1. approval' # approval OBVIOUS
<1>2. PICK c \in Calls : CommitApproval(c)
  BY <1>1, AssetCommitFacts
     DEF Next, vars, Step, Begin, Fail, Rollback, Reach, UpdateAsset, InsertDisposal,
         InsertApproval, SelectForUpdate, SelectAsset, UpdateApproval
<1>3. /\ tx[c].id \in Ids /\ approval' = [approval EXCEPT ![tx[c].id] = tx[c].to]
      /\ tx' = [tx EXCEPT ![c] = NoTx]
      /\ TxOK(c) /\ tx'[c] = NoTx
  BY <1>2, ApprovalCommitFacts DEF PgInv, TypeOK
<1>4. tx[c].id = i /\ tx[c].to = "withdrawn" BY <1>1, <1>3
<1>5. HasRow(c, i) /\ tx[c].op = "withdraw" /\ tx[c].at = "written"
  BY <1>2, <1>3, <1>4, ApprovalCommitFacts DEF HasRow, CommitApproval, At, TxOK
<1>6. ~tx[c].late BY <1>3, <1>4, <1>5 DEF TxOK, WithdrawsApproved
<1>7. ~HasRow(c, i)' BY <1>3 DEF HasRow, At, NoTx
<1> QED BY <1>5, <1>6, <1>7

(* A withdrawal that begins after execution started never takes back an    *)
(* approval: store.go, WithdrawApproval.                                   *)
THEOREM LateWithdrawalAlwaysRefused == Spec => LateWithdrawalRefused
<1>1. PgInv /\ [Next]_vars =>
         [\A i \in Ids : approval[i] = "approved" /\ approval'[i] = "withdrawn" =>
             \E c \in Calls : HasRow(c, i) /\ ~HasRow(c, i)' /\ ~tx[c].late]_vars
  BY LateStep
<1> QED BY <1>1, PgInvariant, PTL DEF Spec, LateWithdrawalRefused
-----------------------------------------------------------------------------
LEMMA MemoryInit == Init => Memory!Init
BY DEF Init, Memory!Init

LEMMA MemoryStep == PgInv /\ [Next]_vars => [Memory!Next]_(Memory!contents)
<1> SUFFICES ASSUME PgInv, [Next]_vars PROVE [Memory!Next]_(Memory!contents) OBVIOUS
<1>1. \/ UNCHANGED <<asset, approval, signed>>
      \/ \E c \in Calls : CommitAsset(c) \/ CommitApproval(c)
  BY DEF Next, vars, Step, Begin, Fail, Rollback, Reach, UpdateAsset, InsertDisposal,
         InsertApproval, SelectForUpdate, SelectAsset, UpdateApproval
<1>2. CASE UNCHANGED <<asset, approval, signed>> BY <1>2 DEF Memory!contents
<1>3. ASSUME NEW c \in Calls, CommitAsset(c) PROVE Memory!Next
  <2>1. /\ Memory!CanTransitionAsset(asset, asset')
        /\ asset' \in Targets \cup {"disposed"}
        /\ UNCHANGED approval
    BY <1>3, AssetCommitFacts
       DEF AssetMove, Memory!CanTransitionAsset, Memory!AssetTransitions
  <2>2. CASE tx[c].op = "transition"
    <3>1. asset' \in Targets /\ signed' = signed BY <1>3, <2>2, AssetCommitFacts
    <3>2. Memory!TransitionAsset(asset') BY <2>1, <3>1 DEF Memory!TransitionAsset
    <3>3. asset' \in {"disk_pulled", "erasing", "erasure_verified", "scrapped"}
      BY <3>1, PgAssumption
    <3> QED BY <3>2, <3>3 DEF Memory!Next
  <2>3. CASE tx[c].op = "sign"
    <3>1. asset' = "disposed" /\ ~signed /\ signed' = TRUE
      BY <1>3, <2>3, AssetCommitFacts
    <3> QED BY <2>1, <3>1 DEF Memory!SaveDisposal, Memory!Next
  <2> QED BY <1>3, <2>2, <2>3, AssetCommitFacts
<1>4. ASSUME NEW c \in Calls, CommitApproval(c) PROVE Memory!Next
  <2> DEFINE i == tx[c].id
  <2>1. i \in Ids /\ approval' = [approval EXCEPT ![i] = tx[c].to]
        /\ UNCHANGED <<asset, signed>>
    BY <1>4, ApprovalCommitFacts
  <2>2. CASE Inserted(c) /\ approval[i] = "none" /\ \A j \in Ids : ~Active(j)
    <3>1. tx[c].to = "pending"
      BY <1>4, <2>2, ApprovalCommitFacts DEF Inserted, HasRow, At
    <3> QED BY <2>1, <2>2, <3>1 DEF Active, Memory!Active, Memory!CreateApproval, Memory!Next
  <2>3. CASE /\ HasRow(c, i) /\ approval[i] # "none"
             /\ ApprovalMove(approval[i], tx[c].to)
    <3>1. Memory!CanTransitionApproval(approval[i], tx[c].to)
      BY <2>3 DEF ApprovalMove, Memory!CanTransitionApproval, Memory!ApprovalTransitions
    <3>2. CASE tx[c].op = "review"
      <4>1. tx[c].to \in {"approved", "rejected"}
        BY <1>4, <3>2, ApprovalCommitFacts DEF Inserted, At
      <4>2. Memory!ReviewApproval(i, tx[c].to)
        BY <2>1, <2>3, <3>1 DEF Memory!ReviewApproval
      <4> QED BY <2>1, <4>1, <4>2 DEF Memory!Next
    <3>3. CASE tx[c].op = "withdraw"
      <4>1. tx[c].to = "withdrawn" BY <1>4, <3>3, ApprovalCommitFacts DEF Inserted, At
      <4>2. Memory!WithdrawApproval(i)
        BY <2>1, <2>3, <3>1, <4>1 DEF Memory!WithdrawApproval
      <4> QED BY <2>1, <4>2 DEF Memory!Next
    <3> QED BY <2>3, <3>2, <3>3 DEF HasRow, At
  <2> QED BY <1>4, <2>2, <2>3, ApprovalCommitFacts
<1> QED BY <1>1, <1>2, <1>3, <1>4

(* Every commit is a critical section of the in-memory store, but for the  *)
(* instant at which a withdrawal looks at the asset.                       *)
THEOREM PgImplementsMemoryStore == Spec => ImplementsMemoryStore
<1>1. PgInv /\ [Next]_vars => [Memory!Next]_(Memory!contents) BY MemoryStep
<1> QED BY <1>1, MemoryInit, PgInvariant, PTL
        DEF Spec, ImplementsMemoryStore, Memory!Spec
=============================================================================
