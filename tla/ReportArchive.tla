---------------------------- MODULE ReportArchive ----------------------------
(***************************************************************************)
(* issueCertificate (internal/worker/worker.go) above the two object       *)
(* stores: the report and the printable certificate are uploaded one after *)
(* the other, then the certificate's row is inserted, and nothing undoes   *)
(* or repeats a step that failed.                                          *)
(*                                                                         *)
(* On the filesystem (internal/objectstore/fs.go) a file is written beside *)
(* its final name, synced and renamed; the directory is not synced, so the *)
(* name reaches the disk some time later (Writeback).  On MinIO (s3.go) an *)
(* upload is one request, which the server may carry out after the client  *)
(* has given up on it, or never.  The rows are in PostgreSQL.              *)
(***************************************************************************)
EXTENDS Integers

CONSTANTS
    Jobs,        \* verified jobs, each issuing its certificate
    Numbers,     \* certificate numbers
    Number,      \* certNumber: the number of each job's certificate
    MaxIssues,   \* bound: times a job comes to issueCertificate
    MaxCrashes,  \* bound: deaths of the process, power losses included
    Backends,    \* the object stores to start with
    Missing,     \* no document
    Torn         \* a part of a document

Docs == Jobs \X (1..MaxIssues)
Keys == Numbers \X {"json", "html"}

ASSUME ArchiveAssumption ==
    /\ Number \in [Jobs -> Numbers]
    /\ MaxIssues \in Nat /\ MaxCrashes \in Nat
    /\ Backends \subseteq {"filesystem", "minio"}
    /\ Missing \notin Docs /\ Torn \notin Docs /\ Missing # Torn

VARIABLES
    backend,  \* the object store in use
    object,   \* the file or object a Get of each key finds
    entry,    \* filesystem: the file each name has on the disk itself
    cert,     \* the report whose digest the row of a number holds
    issue,    \* issueCertificate of each job: the call that comes next
    flight,   \* MinIO: requests that are neither carried out nor lost
    crashes, powerLost

vars == <<backend, object, entry, cert, issue, flight, crashes, powerLost>>
stores == <<object, entry, flight, cert>>

(* durable: the bytes of the file are on the disk.                         *)
File(d, durable) == [doc |-> d, durable |-> durable]
Files == [doc : Docs \cup {Missing, Torn}, durable : BOOLEAN]

(* at: what is uploaded or saved next; put: how far its upload has come;   *)
(* n: issues of the job so far.                                            *)
Issue == [at : {"idle", "json", "html", "row"},
          put : {"start", "copied", "synced", "sent"}, n : 0..MaxIssues]

Init == /\ backend \in Backends
        /\ object = [k \in Keys |-> File(Missing, TRUE)]
        /\ entry = object
        /\ cert = [m \in Numbers |-> Missing]
        /\ issue = [j \in Jobs |-> [at |-> "idle", put |-> "start", n |-> 0]]
        /\ flight = {}
        /\ crashes = 0 /\ powerLost = FALSE
-----------------------------------------------------------------------------
Doc(j) == <<j, issue[j].n>>

(* A bug: the certificate is uploaded under the key of the report.         *)
Key_Report(j) == <<Number[j], "json">>

(* report.Build: reports/{certNo}.json and reports/{certNo}.html           *)
Key(j) == <<Number[j], issue[j].at>>

Uploading(j) == issue[j].at \in {"json", "html"}

(* A bug: the printable certificate is not waited for.                     *)
AfterPut_NoHtml(at) == "row"

(* The order of issueCertificate.                                          *)
AfterPut(at) == IF at = "json" THEN "html" ELSE "row"

Uploaded(j) == issue' = [issue EXCEPT ![j].at = AfterPut(@), ![j].put = "start"]
Reach(j, stage) == issue' = [issue EXCEPT ![j].put = stage]
Leave(j) == issue' = [issue EXCEPT ![j].at = "idle", ![j].put = "start"]

(* The asset and the runs are read and both documents rendered.  A job     *)
(* comes here again when the writes that ended it failed and it was        *)
(* claimed once more.                                                      *)
Start(j) ==
    /\ issue[j].at = "idle" /\ issue[j].n < MaxIssues
    /\ issue' = [issue EXCEPT ![j] = [at |-> "json", put |-> "start", n |-> @.n + 1]]
    /\ UNCHANGED <<backend, stores, crashes, powerLost>>
-----------------------------------------------------------------------------
(* Filesystem.Put.  Nobody else knows the temporary name.                  *)

Copy(j) ==
    /\ backend = "filesystem" /\ Uploading(j) /\ issue[j].put = "start"
    /\ Reach(j, "copied")
    /\ UNCHANGED <<backend, stores, crashes, powerLost>>

Sync(j) ==
    /\ issue[j].put = "copied"
    /\ Reach(j, "synced")
    /\ UNCHANGED <<backend, stores, crashes, powerLost>>

Install(j) ==
    /\ object' = [object EXCEPT ![Key(j)] = File(Doc(j), issue[j].put = "synced")]
    /\ Uploaded(j)
    /\ UNCHANGED <<backend, entry, flight, cert, crashes, powerLost>>

(* A bug: the file is not synced before it gets its name.                  *)
Rename_Unsynced(j) == issue[j].put \in {"copied", "synced"} /\ Install(j)

Rename(j) == issue[j].put = "synced" /\ Install(j)

(* The operating system writes a name of the directory to the disk.        *)
Writeback(k) ==
    /\ backend = "filesystem" /\ entry[k] # object[k]
    /\ entry' = [entry EXCEPT ![k] = object[k]]
    /\ UNCHANGED <<backend, object, flight, cert, issue, crashes, powerLost>>
-----------------------------------------------------------------------------
(* S3.Put.                                                                 *)

Send(j) ==
    /\ backend = "minio" /\ Uploading(j) /\ issue[j].put = "start"
    /\ flight' = flight \cup {[key |-> Key(j), doc |-> Doc(j)]}
    /\ Reach(j, "sent")
    /\ UNCHANGED <<backend, object, entry, cert, crashes, powerLost>>

Awaits(j, r) == issue[j].put = "sent" /\ r.key = Key(j) /\ r.doc = Doc(j)

(* The server carries a request out; whoever waits for it may hear of it.  *)
Apply(r) ==
    /\ flight' = flight \ {r}
    /\ object' = [object EXCEPT ![r.key] = File(r.doc, TRUE)]
    /\ \/ UNCHANGED issue
       \/ \E j \in Jobs : Awaits(j, r) /\ Uploaded(j)
    /\ UNCHANGED <<backend, entry, cert, crashes, powerLost>>

(* A request is lost on the way, or refused.                               *)
Drop(r) ==
    /\ flight' = flight \ {r}
    /\ UNCHANGED <<backend, object, entry, cert, issue, crashes, powerLost>>

(* A bug: a client that waits without limit.                               *)
TimeOut_Never(j) == FALSE /\ Leave(j)

(* The HTTP client's limit of ten minutes.                                 *)
TimeOut(j) ==
    /\ issue[j].put = "sent"
    /\ Leave(j)
    /\ UNCHANGED <<backend, stores, crashes, powerLost>>
-----------------------------------------------------------------------------
(* A bug: a certificate that exists is replaced.                           *)
SaveCertificate_Replace(j) ==
    /\ issue[j].at = "row"
    /\ cert' = [cert EXCEPT ![Number[j]] = Doc(j)]
    /\ Leave(j)
    /\ UNCHANGED <<backend, object, entry, flight, crashes, powerLost>>

SaveCertificate(j) ==
    /\ issue[j].at = "row"
    /\ cert' = [cert EXCEPT ![Number[j]] = IF @ = Missing THEN Doc(j) ELSE @]
    /\ Leave(j)
    /\ UNCHANGED <<backend, object, entry, flight, crashes, powerLost>>

(* Any call fails, or its context is cancelled: the error is logged.       *)
GiveUp(j) ==
    /\ issue[j].at # "idle"
    /\ Leave(j)
    /\ UNCHANGED <<backend, stores, crashes, powerLost>>

AllIdle == issue' = [j \in Jobs |-> [at |-> "idle", put |-> "start", n |-> issue[j].n]]

Crash ==
    /\ crashes < MaxCrashes
    /\ crashes' = crashes + 1
    /\ AllIdle
    /\ UNCHANGED <<backend, stores, powerLost>>

(* Names that were not written back are gone, or are their old files       *)
(* again; files whose bytes were not synced are torn.                      *)
Survivor(f) == IF f.durable THEN f ELSE File(Torn, TRUE)

PowerLoss ==
    /\ backend = "filesystem" /\ crashes < MaxCrashes
    /\ crashes' = crashes + 1 /\ powerLost' = TRUE
    /\ AllIdle
    /\ object' = [k \in Keys |-> Survivor(entry[k])]
    /\ entry' = object'
    /\ UNCHANGED <<backend, flight, cert>>

Progress(j) == \/ Copy(j) \/ Sync(j) \/ Rename(j)
               \/ Send(j) \/ TimeOut(j)
               \/ SaveCertificate(j)

Next == \/ \E j \in Jobs : Start(j) \/ Progress(j) \/ GiveUp(j)
        \/ \E k \in Keys : Writeback(k)
        \/ \E r \in flight : Apply(r) \/ Drop(r)
        \/ Crash \/ PowerLoss

(* The worker's goroutine goes on as long as the process lives.            *)
Spec == Init /\ [][Next]_vars /\ \A j \in Jobs : WF_vars(Progress(j))
-----------------------------------------------------------------------------
(* downloadReport and downloadCertificate: the row first, then the object; *)
(* Missing stands for the two kinds of 404.                                *)
Download(m, kind) == IF cert[m] = Missing THEN Missing ELSE object[m, kind].doc

Request == [key : Keys, doc : Docs]

TypeOK == /\ backend \in Backends
          /\ object \in [Keys -> Files] /\ entry \in [Keys -> Files]
          /\ cert \in [Numbers -> Docs \cup {Missing}]
          /\ issue \in [Jobs -> Issue]
          /\ flight \subseteq Request
          /\ crashes \in Nat /\ powerLost \in BOOLEAN

(* Whatever a crash or a power loss interrupts, no key ever shows a part   *)
(* of a document (fs.go, Put: temporary file, Sync, Rename).               *)
WholeObjects == \A k \in Keys : object[k].doc # Torn

(* Both documents of an issued certificate can be downloaded; only a power *)
(* loss of the filesystem may have taken them (worker.go: the row comes    *)
(* after both uploads).                                                    *)
CertificatesDownload ==
    \A m \in Numbers : cert[m] # Missing /\ ~powerLost =>
        \A kind \in {"json", "html"} : Download(m, kind) \in Docs

(* The reports ever issued under a number.                                 *)
IssuedUnder(m) == {d \in Docs : Number[d[1]] = m /\ d[2] <= issue[d[1]].n}

(* A number that one issue used once: the report stored under it is the    *)
(* one its certificate's row has the digest of, whichever uploads were     *)
(* late, failed or lost, and whatever was issued under other numbers.      *)
DigestMatches ==
    \A m \in Numbers : cert[m] # Missing /\ IssuedUnder(m) = {cert[m]} =>
        \A kind \in {"json", "html"} :
            Download(m, kind) = cert[m] \/ (powerLost /\ Download(m, kind) = Missing)

(* An object store that does not answer never holds a worker for ever      *)
(* (s3.go, Timeout).                                                       *)
IssueEnds == \A j \in Jobs : issue[j].at # "idle" ~> issue[j].at = "idle"

(* The two stores implement the archive.                                   *)
ArchiveView == INSTANCE Archive WITH
    NumberOf <- [d \in Docs |-> Number[d[1]]],
    stored <- [k \in Keys |-> object[k].doc], row <- cert
ImplementsArchive == ArchiveView!Spec

(* "Each verified disk gets two immutable objects" (report.go).            *)
ReportsImmutable ==
    [][\A m \in Numbers : cert[m] # Missing /\ ~powerLost' =>
          object'[m, "json"].doc = object[m, "json"].doc]_vars

(* CertificatesDownload through power losses as well.                      *)
CertificatesSurvive ==
    \A m \in Numbers : cert[m] # Missing =>
        \A kind \in {"json", "html"} : Download(m, kind) \in Docs

(* What the code does keep of the two promises above: the report of a      *)
(* number that one issue used stays as it is, and a certificate on MinIO   *)
(* keeps both documents, whatever dies meanwhile.                          *)
SoleReportImmutable ==
    [][\A m \in Numbers : cert[m] # Missing /\ ~powerLost' /\ IssuedUnder(m)' = {cert[m]} =>
          object'[m, "json"].doc = object[m, "json"].doc]_vars
SurvivesOnMinio == backend = "minio" => ~powerLost /\ CertificatesSurvive
-----------------------------------------------------------------------------
(* The inductive invariant: every document in a file, on the wire or in a  *)
(* row was issued under the number it is found at, files are whole and on  *)
(* the disk, and what an issue has uploaded stays there while it goes on.  *)

Stamped(d, m) == d \in Docs /\ Number[d[1]] = m /\ d[2] <= issue[d[1]].n

FileOK(f, m) == /\ f.durable /\ f.doc # Torn
                /\ f.doc # Missing => Stamped(f.doc, m)

Present(m, kind) == object[m, kind].doc # Missing

IssueOK(j) == /\ issue[j].put # "start" => Uploading(j)
              /\ issue[j].at # "idle" => issue[j].n # 0
              /\ issue[j].at \in {"html", "row"} => Present(Number[j], "json")
              /\ issue[j].at = "row" => Present(Number[j], "html")

CertOK(m) ==
    cert[m] # Missing =>
        /\ Stamped(cert[m], m)
        /\ powerLost \/ (Present(m, "json") /\ Present(m, "html"))

ArchiveInv == /\ TypeOK
              /\ \A k \in Keys : FileOK(object[k], k[1]) /\ FileOK(entry[k], k[1])
              /\ \A r \in flight : Stamped(r.doc, r.key[1])
              /\ \A j \in Jobs : IssueOK(j)
              /\ \A m \in Numbers : CertOK(m)
=============================================================================
