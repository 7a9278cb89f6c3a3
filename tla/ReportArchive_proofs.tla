------------------------- MODULE ReportArchive_proofs -------------------------
(***************************************************************************)
(* The archive's invariant, and that both object stores implement Archive. *)
(* One lemma per action; those that move no document share a lemma.        *)
(***************************************************************************)
EXTENDS ReportArchive, TLAPS

LEMMA KeyFacts ==
    /\ \A m \in Numbers, kind \in {"json", "html"} : <<m, kind>> \in Keys
    /\ \A k \in Keys : k[1] \in Numbers /\ k[2] \in {"json", "html"} /\ k = <<k[1], k[2]>>
  BY DEF Keys

LEMMA DocFacts ==
    /\ \A j \in Jobs, n \in 1..MaxIssues : <<j, n>> \in Docs
    /\ \A d \in Docs : d[1] \in Jobs /\ d[2] \in 1..MaxIssues /\ d = <<d[1], d[2]>>
  BY DEF Docs

(* A document stays issued while the counts of issues only grow.           *)
LEMMA StampedStays ==
    ASSUME \A j \in Jobs : issue[j].n \in Nat /\ issue'[j].n \in Nat /\ issue[j].n <= issue'[j].n,
           NEW d, NEW m, Stamped(d, m)
    PROVE  Stamped(d, m)'
  BY DocFacts DEF Stamped

LEMMA InitInv == ASSUME ArchiveAssumption, Init PROVE ArchiveInv
<1> USE DEF Init
<1>1. File(Missing, TRUE) \in Files
  BY DEF Files, File
<1>2. [at |-> "idle", put |-> "start", n |-> 0] \in Issue
  BY DEF ArchiveAssumption, Issue
<1>3. TypeOK
  BY <1>1, <1>2 DEF ArchiveAssumption, TypeOK
<1>4. \A k \in Keys : FileOK(object[k], k[1]) /\ FileOK(entry[k], k[1])
  BY DEF ArchiveAssumption, FileOK, File
<1>5. \A j \in Jobs : IssueOK(j)
  BY DEF IssueOK
<1>6. \A m \in Numbers : CertOK(m)
  BY DEF CertOK
<1> QED  BY <1>3, <1>4, <1>5, <1>6 DEF ArchiveInv

(* Steps of one issue that store nothing and leave what is uploaded next,  *)
(* or end the issue.                                                       *)
LEMMA QuietSteps ==
    ASSUME ArchiveAssumption, ArchiveInv, TypeOK',
           UNCHANGED <<object, entry, cert, powerLost>>,
           flight' \subseteq flight,
           \A j \in Jobs :
              /\ issue[j].n <= issue'[j].n
              /\ \/ issue'[j] = issue[j]
                 \/ issue'[j].at = "idle" /\ issue'[j].put = "start"
                 \/ issue'[j].at = "json" /\ issue'[j].n # 0
                 \/ Uploading(j) /\ issue'[j].at = issue[j].at /\ issue'[j].n = issue[j].n
    PROVE  ArchiveInv'
<1>1. \A j \in Jobs : issue[j].n \in Nat /\ issue'[j].n \in Nat /\ issue[j].n <= issue'[j].n
  BY DEF ArchiveInv, TypeOK, Issue, ArchiveAssumption
<1>2. \A d, m : Stamped(d, m) => Stamped(d, m)'
  BY <1>1, StampedStays
<1>3. \A k \in Keys : (FileOK(object[k], k[1]) /\ FileOK(entry[k], k[1]))'
  BY <1>2 DEF ArchiveInv, FileOK
<1>4. \A r \in flight' : Stamped(r.doc, r.key[1])'
  BY <1>2 DEF ArchiveInv
<1>5. \A j \in Jobs : IssueOK(j)'
  BY DEF ArchiveInv, IssueOK, Uploading, Present
<1>6. \A m \in Numbers : CertOK(m)'
  BY <1>2 DEF ArchiveInv, CertOK, Present
<1> QED  BY <1>3, <1>4, <1>5, <1>6 DEF ArchiveInv

LEMMA StartInv == ASSUME ArchiveAssumption, ArchiveInv, NEW j \in Jobs, Start(j) PROVE ArchiveInv'
<1> USE DEF Start, stores
<1>1. issue[j] \in Issue /\ issue[j].n \in Nat /\ MaxIssues \in Nat
  BY DEF ArchiveInv, TypeOK, Issue, ArchiveAssumption
<1>2. issue' = [issue EXCEPT ![j] = [at |-> "json", put |-> "start", n |-> issue[j].n + 1]]
  OBVIOUS
<1>3. issue' \in [Jobs -> Issue]
  BY <1>1, <1>2 DEF ArchiveInv, TypeOK, Issue
<1>4. TypeOK'
  BY <1>3 DEF ArchiveInv, TypeOK
<1>5. \A i \in Jobs : issue[i].n \in Nat
  BY DEF ArchiveInv, TypeOK, Issue
<1> QED  BY <1>1, <1>2, <1>4, <1>5, QuietSteps DEF ArchiveInv, TypeOK

LEMMA UploadStepInv ==
    ASSUME ArchiveAssumption, ArchiveInv, NEW j \in Jobs, Copy(j) \/ Sync(j) \/ TimeOut(j) \/ GiveUp(j)
    PROVE  ArchiveInv'
<1> USE DEF Copy, Sync, TimeOut, GiveUp, Reach, Leave, stores
<1>1. issue \in [Jobs -> Issue] /\ IssueOK(j)
  BY DEF ArchiveInv, TypeOK
<1>2. issue' \in [Jobs -> Issue]
  BY <1>1 DEF Issue
<1>3. TypeOK'
  BY <1>2 DEF ArchiveInv, TypeOK
<1>4. \A i \in Jobs : issue[i].n \in Nat
  BY <1>1 DEF Issue
<1>5. \A i \in Jobs :
         /\ issue'[i].n = issue[i].n
         /\ \/ issue'[i] = issue[i]
            \/ issue'[i].at = "idle" /\ issue'[i].put = "start"
            \/ Uploading(i) /\ issue'[i].at = issue[i].at
  BY <1>1 DEF IssueOK, Uploading, Issue
<1> QED  BY <1>3, <1>4, <1>5, QuietSteps

LEMMA CrashInv == ASSUME ArchiveAssumption, ArchiveInv, Crash PROVE ArchiveInv'
<1>1. issue \in [Jobs -> Issue] /\ crashes \in Nat
  BY DEF ArchiveInv, TypeOK
<1>2. /\ UNCHANGED <<backend, object, entry, flight, cert, powerLost>>
      /\ crashes' = crashes + 1
      /\ issue' = [j \in Jobs |-> [at |-> "idle", put |-> "start", n |-> issue[j].n]]
  BY DEF Crash, AllIdle, stores
<1>3. \A i \in Jobs : /\ issue[i].n \in Nat /\ issue'[i].n = issue[i].n
                      /\ issue'[i].at = "idle" /\ issue'[i].put = "start"
                      /\ issue'[i] \in Issue
  BY <1>1, <1>2 DEF Issue
<1>4. issue' \in [Jobs -> Issue]
  BY <1>2, <1>3
<1>5. crashes' \in Nat
  BY <1>1, <1>2
<1>6. TypeOK'
  BY <1>2, <1>4, <1>5 DEF ArchiveInv, TypeOK
<1>7. \A i \in Jobs : issue[i].n <= issue'[i].n
  BY <1>3
<1>8. UNCHANGED <<object, entry, cert, powerLost>> /\ flight' \subseteq flight
  BY <1>2
<1> QED  BY <1>3, <1>6, <1>7, <1>8, QuietSteps

LEMMA DropInv == ASSUME ArchiveAssumption, ArchiveInv, NEW r \in flight, Drop(r) PROVE ArchiveInv'
<1> USE DEF Drop
<1>1. TypeOK'
  BY DEF ArchiveInv, TypeOK
<1>2. \A i \in Jobs : issue[i].n \in Nat /\ issue'[i] = issue[i]
  BY DEF ArchiveInv, TypeOK, Issue
<1> QED  BY <1>1, <1>2, QuietSteps

LEMMA SendInv == ASSUME ArchiveAssumption, ArchiveInv, NEW j \in Jobs, Send(j) PROVE ArchiveInv'
<1> USE DEF Send, Reach, Uploading
<1>1. /\ issue \in [Jobs -> Issue] /\ IssueOK(j) /\ flight \subseteq Request
      /\ issue[j].n \in 1..MaxIssues /\ Number[j] \in Numbers
      /\ issue[j].n \in Nat /\ issue[j].at \in {"json", "html"}
  BY DEF ArchiveInv, TypeOK, IssueOK, Issue, ArchiveAssumption
<1>2. issue' \in [Jobs -> Issue]
  BY <1>1 DEF Issue
<1>3. [key |-> Key(j), doc |-> Doc(j)] \in Request
  BY <1>1, KeyFacts, DocFacts DEF Request, Key, Doc
<1>4. TypeOK'
  BY <1>1, <1>2, <1>3 DEF ArchiveInv, TypeOK
<1>5. \A i \in Jobs : /\ issue[i].n \in Nat /\ issue'[i].n = issue[i].n
                      /\ issue'[i].at = issue[i].at
                      /\ i # j => issue'[i] = issue[i]
  BY <1>1 DEF Issue
<1>6. \A d, m : Stamped(d, m) <=> Stamped(d, m)'
  BY <1>5 DEF Stamped
<1>7. Stamped(Doc(j), Key(j)[1])'
  BY <1>1, <1>5, DocFacts DEF Stamped, Doc, Key
<1>8. \A k \in Keys : (FileOK(object[k], k[1]) /\ FileOK(entry[k], k[1]))'
  BY <1>6 DEF ArchiveInv, FileOK
<1>9. \A r \in flight' : Stamped(r.doc, r.key[1])'
  <2> SUFFICES ASSUME NEW r \in flight' PROVE Stamped(r.doc, r.key[1])'
    OBVIOUS
  <2>1. CASE r \in flight
    BY <2>1, <1>6 DEF ArchiveInv
  <2>2. CASE r = [key |-> Key(j), doc |-> Doc(j)]
    <3>1. r.doc = Doc(j)' /\ r.key[1] = (Key(j)[1])'
      BY <2>2, <1>1, <1>5 DEF Key, Doc
    <3> QED  BY <3>1, <1>7
  <2> QED  BY <2>1, <2>2
<1>10. \A i \in Jobs : IssueOK(i)'
  BY <1>1, <1>5 DEF ArchiveInv, IssueOK, Present
<1>11. \A m \in Numbers : CertOK(m)'
  BY <1>6 DEF ArchiveInv, CertOK, Present
<1> QED  BY <1>4, <1>8, <1>9, <1>10, <1>11 DEF ArchiveInv

(* A document of its number gets to its key, and the issue that waits for  *)
(* it, if any, goes on.                                                    *)
LEMMA StoreInv ==
    ASSUME ArchiveAssumption, ArchiveInv, TypeOK',
           NEW k \in Keys, NEW d, Stamped(d, k[1]),
           object' = [object EXCEPT ![k] = File(d, TRUE)],
           UNCHANGED <<entry, cert, powerLost>>, flight' \subseteq flight,
           \A i \in Jobs :
              /\ issue'[i].n = issue[i].n
              /\ \/ issue'[i] = issue[i]
                 \/ /\ Uploading(i) /\ Key(i) = k
                    /\ issue'[i].at = AfterPut(issue[i].at) /\ issue'[i].put = "start"
    PROVE  ArchiveInv'
<1>1. \A c, m : Stamped(c, m) <=> Stamped(c, m)'
  BY DocFacts DEF Stamped
<1>2. /\ object'[k] = File(d, TRUE)
      /\ \A l \in Keys : l # k => object'[l] = object[l]
  BY DEF ArchiveInv, TypeOK
<1>3. d \in Docs /\ d # Missing /\ d # Torn
  BY DEF Stamped, ArchiveAssumption
<1>4. \A l \in Keys : FileOK(object[l], l[1])'
  BY <1>1, <1>2, <1>3 DEF ArchiveInv, FileOK, File
<1>5. \A l \in Keys : FileOK(entry[l], l[1])'
  BY <1>1 DEF ArchiveInv, FileOK
<1>6. \A r \in flight' : Stamped(r.doc, r.key[1])'
  BY <1>1 DEF ArchiveInv
<1>7. \A l \in Keys : object'[l].doc = Missing => object[l].doc = Missing /\ l # k
  BY <1>2, <1>3 DEF File
<1>8. \A m \in Numbers : \A kind \in {"json", "html"} : Present(m, kind) => Present(m, kind)'
  BY <1>7, KeyFacts DEF Present
<1>9. \A i \in Jobs : IssueOK(i)'
  <2> SUFFICES ASSUME NEW i \in Jobs PROVE IssueOK(i)'
    OBVIOUS
  <2>1. IssueOK(i) /\ Number[i] \in Numbers
    BY DEF ArchiveInv, ArchiveAssumption
  <2>2. CASE issue'[i] = issue[i]
    BY <2>1, <2>2, <1>8 DEF IssueOK, Uploading
  <2>3. CASE /\ Uploading(i) /\ Key(i) = k
             /\ issue'[i].at = AfterPut(issue[i].at) /\ issue'[i].put = "start"
    <3>1. object'[Number[i], issue[i].at].doc # Missing
      BY <2>3, <1>7 DEF Key
    <3>2. issue[i].at = "html" => Present(Number[i], "json")'
      BY <2>1, <1>8 DEF IssueOK
    <3>3. issue'[i].n # 0
      BY <2>1, <2>3 DEF IssueOK, Uploading
    <3>4. CASE issue[i].at = "json"
      BY <2>3, <3>1, <3>3, <3>4 DEF IssueOK, Uploading, AfterPut, Present
    <3>5. CASE issue[i].at = "html"
      BY <2>3, <3>1, <3>2, <3>3, <3>5 DEF IssueOK, Uploading, AfterPut, Present
    <3> QED  BY <2>3, <3>4, <3>5 DEF Uploading
  <2> QED  BY <2>2, <2>3
<1>10. \A m \in Numbers : CertOK(m)'
  BY <1>1, <1>8 DEF ArchiveInv, CertOK
<1> QED  BY <1>4, <1>5, <1>6, <1>9, <1>10 DEF ArchiveInv

LEMMA RenameInv == ASSUME ArchiveAssumption, ArchiveInv, NEW j \in Jobs, Rename(j) PROVE ArchiveInv'
<1>1. /\ issue \in [Jobs -> Issue] /\ IssueOK(j) /\ object \in [Keys -> Files]
      /\ Uploading(j) /\ Number[j] \in Numbers
      /\ issue[j].n \in 1..MaxIssues /\ issue[j].n \in Nat
  BY DEF ArchiveInv, TypeOK, IssueOK, Issue, ArchiveAssumption, Rename, Uploading
<1>2. /\ UNCHANGED <<backend, entry, flight, cert, crashes, powerLost>>
      /\ object' = [object EXCEPT ![Key(j)] = File(Doc(j), TRUE)]
      /\ issue' = [issue EXCEPT ![j] = [issue[j] EXCEPT !.at = AfterPut(issue[j].at), !.put = "start"]]
  BY DEF Rename, Install, Uploaded
<1>3. Key(j) \in Keys /\ Key(j)[1] = Number[j]
  BY <1>1, KeyFacts DEF Uploading, Key
<1>4. Doc(j) \in Docs /\ Stamped(Doc(j), Number[j])
  BY <1>1, DocFacts DEF Doc, Stamped
<1>5. \A i \in Jobs :
         /\ issue'[i] \in Issue
         /\ issue'[i].n = issue[i].n
         /\ \/ issue'[i] = issue[i]
            \/ /\ i = j /\ issue'[i].at = AfterPut(issue[i].at) /\ issue'[i].put = "start"
  BY <1>1, <1>2 DEF Issue, AfterPut
<1>6. issue' \in [Jobs -> Issue]
  BY <1>1, <1>2, <1>5
<1>7. File(Doc(j), TRUE) \in Files
  BY <1>4 DEF File, Files
<1>8. TypeOK'
  BY <1>1, <1>2, <1>3, <1>6, <1>7 DEF ArchiveInv, TypeOK
<1> QED  BY <1>1, <1>2, <1>3, <1>4, <1>5, <1>8, StoreInv

LEMMA ApplyInv == ASSUME ArchiveAssumption, ArchiveInv, NEW r \in flight, Apply(r) PROVE ArchiveInv'
<1>1. /\ issue \in [Jobs -> Issue] /\ object \in [Keys -> Files] /\ r \in Request
      /\ Stamped(r.doc, r.key[1]) /\ \A j \in Jobs : IssueOK(j)
  BY DEF ArchiveInv, TypeOK
<1>2. r.key \in Keys /\ r.doc \in Docs /\ File(r.doc, TRUE) \in Files
  BY <1>1 DEF Request, File, Files
<1>3. /\ flight' = flight \ {r} /\ UNCHANGED <<backend, entry, cert, crashes, powerLost>>
      /\ object' = [object EXCEPT ![r.key] = File(r.doc, TRUE)]
  BY DEF Apply
<1>4. CASE UNCHANGED issue
  <2>1. TypeOK'
    BY <1>1, <1>2, <1>3, <1>4 DEF ArchiveInv, TypeOK
  <2> QED  BY <1>1, <1>2, <1>3, <1>4, <2>1, StoreInv
<1>5. ASSUME NEW j \in Jobs, Awaits(j, r), Uploaded(j) PROVE ArchiveInv'
  <2>1. Uploading(j) /\ Key(j) = r.key
    BY <1>1, <1>5 DEF Awaits, IssueOK
  <2>2. issue' = [issue EXCEPT ![j] = [issue[j] EXCEPT !.at = AfterPut(issue[j].at), !.put = "start"]]
    BY <1>5 DEF Uploaded
  <2>3. \A i \in Jobs :
           /\ issue'[i] \in Issue
           /\ issue'[i].n = issue[i].n
           /\ \/ issue'[i] = issue[i]
              \/ /\ i = j /\ issue'[i].at = AfterPut(issue[i].at) /\ issue'[i].put = "start"
    BY <1>1, <2>2 DEF Issue, AfterPut
  <2>4. issue' \in [Jobs -> Issue]
    BY <1>1, <2>2, <2>3
  <2>5. TypeOK'
    BY <1>1, <1>2, <1>3, <2>4 DEF ArchiveInv, TypeOK
  <2>6. flight' \subseteq flight
    BY <1>3
  <2> QED  BY <1>1, <1>2, <1>3, <2>1, <2>3, <2>5, <2>6, StoreInv
<1> QED  BY <1>4, <1>5 DEF Apply

LEMMA WritebackInv == ASSUME ArchiveAssumption, ArchiveInv, NEW k \in Keys, Writeback(k) PROVE ArchiveInv'
<1> USE DEF Writeback
<1>1. TypeOK'
  BY DEF ArchiveInv, TypeOK
<1>2. \A d, m : Stamped(d, m) <=> Stamped(d, m)'
  BY DEF Stamped
<1>3. \A l \in Keys : (FileOK(object[l], l[1]) /\ FileOK(entry[l], l[1]))'
  BY <1>2 DEF ArchiveInv, TypeOK, FileOK
<1>4. \A r \in flight' : Stamped(r.doc, r.key[1])'
  BY <1>2 DEF ArchiveInv
<1>5. \A j \in Jobs : IssueOK(j)'
  BY DEF ArchiveInv, IssueOK, Uploading, Present
<1>6. \A m \in Numbers : CertOK(m)'
  BY <1>2 DEF ArchiveInv, CertOK, Present
<1> QED  BY <1>1, <1>3, <1>4, <1>5, <1>6 DEF ArchiveInv

LEMMA PowerLossInv == ASSUME ArchiveAssumption, ArchiveInv, PowerLoss PROVE ArchiveInv'
<1>1. /\ issue \in [Jobs -> Issue] /\ crashes \in Nat /\ entry \in [Keys -> Files]
      /\ \A k \in Keys : FileOK(entry[k], k[1])
  BY DEF ArchiveInv, TypeOK
<1>2. /\ UNCHANGED <<backend, flight, cert>> /\ crashes' = crashes + 1 /\ powerLost' = TRUE
      /\ issue' = [j \in Jobs |-> [at |-> "idle", put |-> "start", n |-> issue[j].n]]
      /\ object' = [k \in Keys |-> Survivor(entry[k])] /\ entry' = object'
  BY DEF PowerLoss, AllIdle
<1>3. \A k \in Keys : object'[k] = entry[k] /\ entry'[k] = entry[k]
  BY <1>1, <1>2 DEF Survivor, FileOK
<1>4. object' \in [Keys -> Files] /\ entry' \in [Keys -> Files]
  BY <1>1, <1>2, <1>3
<1>5. \A i \in Jobs : /\ issue'[i].n = issue[i].n /\ issue'[i].at = "idle"
                      /\ issue'[i].put = "start" /\ issue'[i] \in Issue
  BY <1>1, <1>2 DEF Issue
<1>6. issue' \in [Jobs -> Issue]
  BY <1>2, <1>5
<1>7. crashes' \in Nat
  BY <1>1, <1>2
<1>8. TypeOK'
  BY <1>2, <1>4, <1>6, <1>7 DEF ArchiveInv, TypeOK
<1>9. \A d, m : Stamped(d, m) <=> Stamped(d, m)'
  BY <1>5, DocFacts DEF Stamped
<1>10. \A k \in Keys : (FileOK(object[k], k[1]) /\ FileOK(entry[k], k[1]))'
  BY <1>1, <1>3, <1>9 DEF FileOK
<1>11. \A r \in flight' : Stamped(r.doc, r.key[1])'
  BY <1>2, <1>9 DEF ArchiveInv
<1>12. \A j \in Jobs : IssueOK(j)'
  BY <1>5 DEF IssueOK
<1>13. \A m \in Numbers : CertOK(m)'
  BY <1>2, <1>9 DEF ArchiveInv, CertOK
<1> QED  BY <1>8, <1>10, <1>11, <1>12, <1>13 DEF ArchiveInv

LEMMA SaveCertificateInv ==
    ASSUME ArchiveAssumption, ArchiveInv, NEW j \in Jobs, SaveCertificate(j) PROVE ArchiveInv'
<1>1. /\ issue \in [Jobs -> Issue] /\ cert \in [Numbers -> Docs \cup {Missing}]
      /\ IssueOK(j) /\ issue[j].at = "row" /\ Number[j] \in Numbers
      /\ issue[j].n \in 1..MaxIssues /\ issue[j].n \in Nat
  BY DEF ArchiveInv, TypeOK, IssueOK, Issue, ArchiveAssumption, SaveCertificate
<1>2. /\ UNCHANGED <<backend, object, entry, flight, crashes, powerLost>>
      /\ issue' = [issue EXCEPT ![j] = [issue[j] EXCEPT !.at = "idle", !.put = "start"]]
      /\ cert' = [cert EXCEPT ![Number[j]] =
                      IF cert[Number[j]] = Missing THEN Doc(j) ELSE cert[Number[j]]]
  BY DEF SaveCertificate, Leave
<1>3. \A i \in Jobs : /\ issue'[i] \in Issue /\ issue'[i].n = issue[i].n
                      /\ \/ issue'[i] = issue[i]
                         \/ issue'[i].at = "idle" /\ issue'[i].put = "start"
  BY <1>1, <1>2 DEF Issue
<1>4. issue' \in [Jobs -> Issue]
  BY <1>1, <1>2, <1>3
<1>5. Doc(j) \in Docs /\ Stamped(Doc(j), Number[j])
  BY <1>1, DocFacts DEF Doc, Stamped
<1>6. cert' \in [Numbers -> Docs \cup {Missing}]
  BY <1>1, <1>2, <1>5
<1>7. TypeOK'
  BY <1>2, <1>4, <1>6 DEF ArchiveInv, TypeOK
<1>8. \A d, m : Stamped(d, m) <=> Stamped(d, m)'
  BY <1>3, DocFacts DEF Stamped
<1>9. \A k \in Keys : (FileOK(object[k], k[1]) /\ FileOK(entry[k], k[1]))'
  BY <1>2, <1>8 DEF ArchiveInv, FileOK
<1>10. \A r \in flight' : Stamped(r.doc, r.key[1])'
  BY <1>2, <1>8 DEF ArchiveInv
<1>11. \A i \in Jobs : IssueOK(i)'
  <2> SUFFICES ASSUME NEW i \in Jobs PROVE IssueOK(i)'
    OBVIOUS
  <2>1. CASE issue'[i] = issue[i]
    BY <2>1, <1>2 DEF ArchiveInv, IssueOK, Uploading, Present
  <2>2. CASE issue'[i].at = "idle" /\ issue'[i].put = "start"
    BY <2>2 DEF IssueOK
  <2> QED  BY <2>1, <2>2, <1>3
<1>12. \A m \in Numbers : CertOK(m)'
  <2> SUFFICES ASSUME NEW m \in Numbers PROVE CertOK(m)'
    OBVIOUS
  <2>1. CASE cert'[m] = cert[m]
    BY <2>1, <1>2, <1>8 DEF ArchiveInv, CertOK, Present
  <2>2. CASE m = Number[j] /\ cert'[m] = Doc(j)
    BY <2>2, <1>1, <1>2, <1>5, <1>8 DEF CertOK, IssueOK, Present
  <2> QED  BY <2>1, <2>2, <1>1, <1>2
<1> QED  BY <1>7, <1>9, <1>10, <1>11, <1>12 DEF ArchiveInv

LEMMA StutterInv == ASSUME ArchiveInv, UNCHANGED vars PROVE ArchiveInv'
<1> USE DEF vars
<1>1. \A d, m : Stamped(d, m) <=> Stamped(d, m)'
  BY DEF Stamped
<1>2. TypeOK' /\ \A r \in flight' : Stamped(r.doc, r.key[1])'
  BY <1>1 DEF ArchiveInv, TypeOK
<1>3. \A k \in Keys : (FileOK(object[k], k[1]) /\ FileOK(entry[k], k[1]))'
  BY <1>1 DEF ArchiveInv, FileOK
<1>4. \A j \in Jobs : IssueOK(j)'
  BY DEF ArchiveInv, IssueOK, Uploading, Present
<1>5. \A m \in Numbers : CertOK(m)'
  BY <1>1 DEF ArchiveInv, CertOK, Present
<1> QED  BY <1>2, <1>3, <1>4, <1>5 DEF ArchiveInv

(* The invariant of the archive, for any number of jobs, numbers, repeated *)
(* issues and deaths, and for certificate numbers that collide.            *)
THEOREM ArchiveInvariant == Spec => []ArchiveInv
<1>1. Init => ArchiveInv
  BY InitInv, ArchiveAssumption
<1>2. ArchiveInv /\ [Next]_vars => ArchiveInv'
  <2> SUFFICES ASSUME ArchiveInv, [Next]_vars PROVE ArchiveInv'
    OBVIOUS
  <2>1. ASSUME NEW j \in Jobs, Start(j) PROVE ArchiveInv'
    BY <2>1, StartInv, ArchiveAssumption
  <2>2. ASSUME NEW j \in Jobs, Copy(j) \/ Sync(j) \/ TimeOut(j) \/ GiveUp(j) PROVE ArchiveInv'
    BY <2>2, UploadStepInv, ArchiveAssumption
  <2>3. ASSUME NEW j \in Jobs, Rename(j) PROVE ArchiveInv'
    BY <2>3, RenameInv, ArchiveAssumption
  <2>4. ASSUME NEW j \in Jobs, Send(j) PROVE ArchiveInv'
    BY <2>4, SendInv, ArchiveAssumption
  <2>5. ASSUME NEW j \in Jobs, SaveCertificate(j) PROVE ArchiveInv'
    BY <2>5, SaveCertificateInv, ArchiveAssumption
  <2>6. ASSUME NEW k \in Keys, Writeback(k) PROVE ArchiveInv'
    BY <2>6, WritebackInv, ArchiveAssumption
  <2>7. ASSUME NEW r \in flight, Apply(r) PROVE ArchiveInv'
    BY <2>7, ApplyInv, ArchiveAssumption
  <2>8. ASSUME NEW r \in flight, Drop(r) PROVE ArchiveInv'
    BY <2>8, DropInv, ArchiveAssumption
  <2>9. CASE Crash
    BY <2>9, CrashInv, ArchiveAssumption
  <2>10. CASE PowerLoss
    BY <2>10, PowerLossInv, ArchiveAssumption
  <2>11. CASE UNCHANGED vars
    BY <2>11, StutterInv
  <2> QED  BY <2>1, <2>2, <2>3, <2>4, <2>5, <2>6, <2>7, <2>8, <2>9, <2>10, <2>11
              DEF Next, Progress
<1> QED  BY <1>1, <1>2, PTL DEF Spec

(* Files, requests, rows and issues are of the kinds their comments say.   *)
THEOREM ArchiveTypeCorrect == Spec => []TypeOK
<1>1. ArchiveInv => TypeOK
  BY DEF ArchiveInv
<1> QED  BY <1>1, ArchiveInvariant, PTL

(* No key ever shows a part of a document, power losses included.          *)
THEOREM NoTornObject == Spec => []WholeObjects
<1>1. ArchiveInv => WholeObjects
  BY DEF ArchiveInv, FileOK, WholeObjects
<1> QED  BY <1>1, ArchiveInvariant, PTL

LEMMA PresentIsDoc ==
    ASSUME ArchiveInv, NEW m \in Numbers, NEW kind \in {"json", "html"}, Present(m, kind)
    PROVE  Stamped(object[m, kind].doc, m)
<1>1. <<m, kind>> \in Keys /\ <<m, kind>>[1] = m
  BY KeyFacts
<1>2. FileOK(object[<<m, kind>>], <<m, kind>>[1])
  BY <1>1 DEF ArchiveInv
<1> QED  BY <1>1, <1>2 DEF FileOK, Present

(* An issued certificate's two documents can be downloaded, unless the     *)
(* filesystem's machine lost power.                                        *)
THEOREM CertificatesAlwaysDownload == Spec => []CertificatesDownload
<1>1. ArchiveInv => CertificatesDownload
  <2> SUFFICES ASSUME ArchiveInv, NEW m \in Numbers, cert[m] # Missing, ~powerLost,
                      NEW kind \in {"json", "html"}
               PROVE  Download(m, kind) \in Docs
    BY DEF CertificatesDownload
  <2>1. Present(m, kind)
    BY DEF ArchiveInv, CertOK
  <2> QED  BY <2>1, PresentIsDoc DEF Download, Stamped
<1> QED  BY <1>1, ArchiveInvariant, PTL

(* The digest in a certificate's row is that of the stored report, for a   *)
(* number that one issue used.                                             *)
THEOREM DigestAlwaysMatches == Spec => []DigestMatches
<1>1. ArchiveInv => DigestMatches
  <2> SUFFICES ASSUME ArchiveInv, NEW m \in Numbers, cert[m] # Missing,
                      IssuedUnder(m) = {cert[m]}, NEW kind \in {"json", "html"}
               PROVE  Download(m, kind) = cert[m] \/ (powerLost /\ Download(m, kind) = Missing)
    BY DEF DigestMatches
  <2>1. CASE Present(m, kind)
    <3>1. object[m, kind].doc \in IssuedUnder(m)
      BY <2>1, PresentIsDoc DEF Stamped, IssuedUnder
    <3> QED  BY <3>1 DEF Download
  <2>2. CASE ~Present(m, kind)
    <3>1. powerLost
      BY <2>2 DEF ArchiveInv, CertOK
    <3> QED  BY <2>2, <3>1 DEF Download, Present
  <2> QED  BY <2>1, <2>2
<1> QED  BY <1>1, ArchiveInvariant, PTL

(* A number's issues are only ever added to, and the row keeps its digest. *)
LEMMA IssuesGrow ==
    ASSUME ArchiveInv, ArchiveInv', [Next]_vars, NEW m \in Numbers
    PROVE  IssuedUnder(m) \subseteq IssuedUnder(m)'
<1>1. \A j \in Jobs : issue[j] \in Issue /\ issue'[j].n \in Nat /\ issue[j].n \in Nat
  BY DEF ArchiveInv, TypeOK, Issue
<1>2. issue \in [Jobs -> Issue]
  BY DEF ArchiveInv, TypeOK
<1>3. \A j \in Jobs : issue[j].n <= issue'[j].n
  <2> SUFFICES ASSUME NEW i \in Jobs PROVE issue[i].n <= issue'[i].n
    OBVIOUS
  <2>1. ASSUME NEW j \in Jobs, Start(j) PROVE issue[i].n <= issue'[i].n
    BY <2>1, <1>1, <1>2 DEF Start
  <2>2. ASSUME NEW j \in Jobs, Leave(j) \/ Uploaded(j) \/ \E stage : Reach(j, stage)
        PROVE  issue[i].n <= issue'[i].n
    <3>1. issue'[i].n = issue[i].n
      <4>1. ASSUME Leave(j) PROVE issue'[i].n = issue[i].n
        BY <4>1, <1>1, <1>2 DEF Leave, Issue
      <4>2. ASSUME Uploaded(j) PROVE issue'[i].n = issue[i].n
        BY <4>2, <1>1, <1>2 DEF Uploaded, Issue
      <4>3. ASSUME NEW stage, Reach(j, stage) PROVE issue'[i].n = issue[i].n
        BY <4>3, <1>1, <1>2 DEF Reach, Issue
      <4> QED  BY <4>1, <4>2, <4>3, <2>2
    <3> QED  BY <3>1, <1>1
  <2>3. ASSUME NEW j \in Jobs, Progress(j) \/ GiveUp(j) PROVE issue[i].n <= issue'[i].n
    <3>1. Leave(j) \/ Uploaded(j) \/ \E stage : Reach(j, stage)
      BY <2>3 DEF Progress, Copy, Sync, Rename, Install, Send, TimeOut, SaveCertificate, GiveUp
    <3> QED  BY <3>1, <2>2
  <2>4. ASSUME UNCHANGED issue PROVE issue[i].n <= issue'[i].n
    BY <2>4, <1>1
  <2>5. ASSUME NEW r \in flight, Apply(r) \/ Drop(r) PROVE issue[i].n <= issue'[i].n
    BY <2>5, <2>2, <2>4 DEF Apply, Drop
  <2>6. ASSUME Crash \/ PowerLoss PROVE issue[i].n <= issue'[i].n
    BY <2>6, <1>1 DEF Crash, PowerLoss, AllIdle
  <2>7. ASSUME (\E k \in Keys : Writeback(k)) \/ UNCHANGED vars PROVE UNCHANGED issue
    BY <2>7 DEF Writeback, vars
  <2> QED  BY <2>1, <2>3, <2>4, <2>5, <2>6, <2>7 DEF Next
<1> QED  BY <1>1, <1>3, DocFacts DEF IssuedUnder

LEMMA CertKept ==
    ASSUME ArchiveInv, [Next]_vars, NEW m \in Numbers, cert[m] # Missing
    PROVE  cert'[m] = cert[m]
<1>1. cert \in [Numbers -> Docs \cup {Missing}]
  BY DEF ArchiveInv, TypeOK
<1>2. CASE UNCHANGED cert
  BY <1>2
<1>3. ASSUME NEW j \in Jobs, SaveCertificate(j) PROVE cert'[m] = cert[m]
  BY <1>1, <1>3 DEF SaveCertificate
<1> QED  BY <1>2, <1>3 DEF Next, Progress, Start, Copy, Sync, Rename, Install, Send, TimeOut, GiveUp,
             Writeback, Apply, Drop, Crash, PowerLoss, stores, vars

(* The report of a number that one issue used is never replaced: what      *)
(* ReportsImmutable leaves of report.go's promise when numbers collide.    *)
THEOREM SoleReportsAreImmutable == Spec => SoleReportImmutable
<1>1. ArchiveInv /\ ArchiveInv' /\ [Next]_vars =>
        [\A m \in Numbers : cert[m] # Missing /\ ~powerLost' /\ IssuedUnder(m)' = {cert[m]} =>
            object'[m, "json"].doc = object[m, "json"].doc]_vars
  <2> SUFFICES ASSUME ArchiveInv, ArchiveInv', [Next]_vars, NEW m \in Numbers,
                      cert[m] # Missing, ~powerLost', IssuedUnder(m)' = {cert[m]}
               PROVE  object'[m, "json"].doc = object[m, "json"].doc
    OBVIOUS
  <2>1. cert'[m] = cert[m]
    BY CertKept
  <2>2. ~powerLost
    BY DEF Next, Progress, Start, Copy, Sync, Rename, Install, Send, TimeOut, GiveUp, SaveCertificate,
           Writeback, Apply, Drop, Crash, PowerLoss, vars
  <2>3. Present(m, "json") /\ Present(m, "json")'
    BY <2>1, <2>2 DEF ArchiveInv, CertOK
  <2>4. Stamped(object[m, "json"].doc, m)
    BY <2>3, PresentIsDoc
  <2>5. Stamped(object[m, "json"].doc, m)'
    <3>1. <<m, "json">> \in Keys /\ <<m, "json">>[1] = m
      BY KeyFacts
    <3>2. FileOK(object[<<m, "json">>], <<m, "json">>[1])'
      BY <3>1 DEF ArchiveInv
    <3> QED  BY <3>1, <3>2, <2>3 DEF FileOK, Present
  <2>6. object[m, "json"].doc \in IssuedUnder(m)' /\ object'[m, "json"].doc \in IssuedUnder(m)'
    <3>1. object[m, "json"].doc \in IssuedUnder(m) BY <2>4 DEF Stamped, IssuedUnder
    <3>2. object'[m, "json"].doc \in IssuedUnder(m)' BY <2>5 DEF Stamped, IssuedUnder
    <3> QED  BY <3>1, <3>2, IssuesGrow
  <2> QED  BY <2>6
<1> QED  BY <1>1, ArchiveInvariant, PTL DEF Spec, SoleReportImmutable

(* On MinIO an issued certificate always has both documents, through any   *)
(* number of deaths of the process.                                        *)
THEOREM CertificatesSurviveOnMinio == Spec => []SurvivesOnMinio
<1> DEFINE Powered == backend = "minio" => ~powerLost
<1>1. Init => Powered
  BY DEF Init
<1>2. Powered /\ [Next]_vars => Powered'
  BY DEF Next, Progress, Start, Copy, Sync, Rename, Install, Send, TimeOut, GiveUp, SaveCertificate,
         Writeback, Apply, Drop, Crash, PowerLoss, vars
<1>3. ArchiveInv /\ Powered => SurvivesOnMinio
  <2> SUFFICES ASSUME ArchiveInv, ~powerLost, NEW m \in Numbers, cert[m] # Missing,
                      NEW kind \in {"json", "html"}
               PROVE  Download(m, kind) \in Docs
    BY DEF SurvivesOnMinio, CertificatesSurvive
  <2>1. Present(m, kind)
    BY DEF ArchiveInv, CertOK
  <2> QED  BY <2>1, PresentIsDoc DEF Download, Stamped
<1> QED  BY <1>1, <1>2, <1>3, ArchiveInvariant, PTL DEF Spec

(* Both object stores, with uploads that are late, lost or interrupted,    *)
(* and PostgreSQL's rows implement the archive.                            *)
THEOREM StoresImplementArchive == Spec => ImplementsArchive
<1> DEFINE Of == [d \in Docs |-> Number[d[1]]]
           View == [k \in Keys |-> object[k].doc]
<1>1. Init => ArchiveView!Init
  BY DEF Init, ArchiveView!Init, ArchiveView!Keys, Keys, File
<1>2. ArchiveInv /\ [Next]_vars => [ArchiveView!Next]_(ArchiveView!contents)
  <2> SUFFICES ASSUME ArchiveInv, [Next]_vars PROVE [ArchiveView!Next]_(ArchiveView!contents)
    OBVIOUS
  <2> USE DEF ArchiveView!contents, ArchiveView!Keys
  <2>1. ASSUME UNCHANGED <<object, cert>> PROVE [ArchiveView!Next]_(ArchiveView!contents)
    BY <2>1
  <2>2. \A d, m : Stamped(d, m) => ArchiveView!Belongs(d, m)
    BY DEF Stamped, ArchiveView!Belongs
  <2>3. object \in [Keys -> Files] /\ cert \in [Numbers -> Docs \cup {Missing}]
    BY DEF ArchiveInv, TypeOK
  <2>4. ASSUME NEW k \in Keys, NEW d, Stamped(d, k[1]), UNCHANGED cert,
               object' = [object EXCEPT ![k] = File(d, TRUE)]
        PROVE  ArchiveView!Next
    <3>1. d \in Docs
      BY <2>4 DEF Stamped
    <3>2. View' = [View EXCEPT ![k] = d]
      BY <2>3, <2>4 DEF File
    <3>3. ArchiveView!Put(k, d)
      BY <2>2, <2>4, <3>2 DEF ArchiveView!Put, Keys
    <3> QED  BY <3>1, <3>3 DEF ArchiveView!Next, Keys
  <2>5. ASSUME NEW j \in Jobs, Rename(j) PROVE ArchiveView!Next
    <3>1. Key(j) \in Keys /\ Stamped(Doc(j), Key(j)[1])
      <4>1. /\ Uploading(j) /\ Number[j] \in Numbers
            /\ issue[j].n \in 1..MaxIssues /\ issue[j].n \in Nat
        BY <2>5, ArchiveAssumption DEF ArchiveInv, TypeOK, Issue, IssueOK, Rename, Uploading
      <4>2. Key(j) \in Keys /\ Key(j)[1] = Number[j]
        BY <4>1, KeyFacts DEF Uploading, Key
      <4> QED  BY <4>1, <4>2, DocFacts DEF Doc, Stamped
    <3>2. object' = [object EXCEPT ![Key(j)] = File(Doc(j), TRUE)] /\ UNCHANGED cert
      BY <2>5 DEF Rename, Install
    <3> QED  BY <3>1, <3>2, <2>4
  <2>6. ASSUME NEW r \in flight, Apply(r) PROVE ArchiveView!Next
    <3>1. r.key \in Keys /\ Stamped(r.doc, r.key[1])
      BY DEF ArchiveInv, TypeOK, Request
    <3>2. object' = [object EXCEPT ![r.key] = File(r.doc, TRUE)] /\ UNCHANGED cert
      BY <2>6 DEF Apply
    <3> QED  BY <3>1, <3>2, <2>4
  <2>7. ASSUME NEW j \in Jobs, SaveCertificate(j)
        PROVE  [ArchiveView!Next]_(ArchiveView!contents)
    <3>1. /\ issue[j].at = "row" /\ IssueOK(j) /\ Number[j] \in Numbers /\ UNCHANGED object
          /\ issue[j].n \in 1..MaxIssues /\ issue[j].n \in Nat
          /\ cert' = [cert EXCEPT ![Number[j]] =
                          IF cert[Number[j]] = Missing THEN Doc(j) ELSE cert[Number[j]]]
      BY <2>7, ArchiveAssumption DEF ArchiveInv, TypeOK, Issue, IssueOK, SaveCertificate
    <3>2. CASE cert[Number[j]] # Missing
      <4>1. cert' = cert
        BY <3>1, <3>2, <2>3
      <4> QED  BY <3>1, <4>1, <2>1
    <3>3. CASE cert[Number[j]] = Missing
      <4>1. Doc(j) \in Docs /\ Stamped(Doc(j), Number[j])
        BY <3>1, DocFacts DEF Doc, Stamped
      <4>2. \A kind \in {"json", "html"} : View[Number[j], kind] # Missing
        BY <3>1, KeyFacts DEF IssueOK, Present
      <4>3. ArchiveView!Issue(Number[j], Doc(j))
        BY <3>1, <3>3, <4>1, <4>2, <2>2 DEF ArchiveView!Issue, Keys
      <4> QED  BY <3>1, <4>1, <4>3 DEF ArchiveView!Next
    <3> QED  BY <3>2, <3>3
  <2>8. ASSUME PowerLoss PROVE ArchiveView!Next
    <3>1. \A k \in Keys : FileOK(entry[k], k[1]) /\ entry[k] \in Files
      BY DEF ArchiveInv, TypeOK
    <3>2. object' = [k \in Keys |-> Survivor(entry[k])] /\ UNCHANGED cert
      BY <2>8 DEF PowerLoss
    <3>3. \A k \in Keys : object'[k] = entry[k]
      BY <3>1, <3>2 DEF Survivor, FileOK
    <3>4. \A k \in Keys : View'[k] = entry[k].doc
      BY <3>3
    <3>5. \A k \in Keys : View'[k] = Missing \/ ArchiveView!Belongs(View'[k], k[1])
      BY <3>1, <3>4, <2>2 DEF FileOK
    <3>6. \A k \in Keys : View'[k] \in Docs \cup {Missing}
      BY <3>5 DEF ArchiveView!Belongs
    <3>7. View' \in [Keys -> Docs \cup {Missing}]
      BY <3>6
    <3>8. ArchiveView!Lose
      BY <3>2, <3>5, <3>7 DEF ArchiveView!Lose, Keys
    <3> QED  BY <3>8 DEF ArchiveView!Next
  <2>9. ASSUME NEW j \in Jobs,
               Start(j) \/ Copy(j) \/ Sync(j) \/ Send(j) \/ TimeOut(j) \/ GiveUp(j)
        PROVE  UNCHANGED <<object, cert>>
    BY <2>9 DEF Start, Copy, Sync, Send, TimeOut, GiveUp, stores
  <2>10. ASSUME NEW k \in Keys, Writeback(k) PROVE UNCHANGED <<object, cert>>
    BY <2>10 DEF Writeback
  <2>11. ASSUME NEW r \in flight, Drop(r) PROVE UNCHANGED <<object, cert>>
    BY <2>11 DEF Drop
  <2>12. ASSUME Crash \/ UNCHANGED vars PROVE UNCHANGED <<object, cert>>
    BY <2>12 DEF Crash, stores, vars
  <2>13. CASE Next
    BY <2>13, <2>1, <2>5, <2>6, <2>7, <2>8, <2>9, <2>10, <2>11, <2>12 DEF Next, Progress
  <2> QED  BY <2>1, <2>12, <2>13
<1> QED  BY <1>1, <1>2, ArchiveInvariant, PTL DEF Spec, ImplementsArchive, ArchiveView!Spec
=============================================================================
