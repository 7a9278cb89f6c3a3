------------------------------- MODULE Archive -------------------------------
(***************************************************************************)
(* What the archive of certificates promises: whole documents under the    *)
(* two keys of a certificate number, and a row, written once, only when    *)
(* both keys hold a document of that number.  Storage may lose documents   *)
(* or fall back to earlier ones; it never shows a part of one.             *)
(***************************************************************************)
CONSTANTS
    Numbers,   \* certificate numbers
    Docs,      \* reports, one for each issue
    NumberOf,  \* the number a report is stored under
    Missing    \* no document

VARIABLES
    stored,    \* the document under each key
    row        \* the report whose digest the certificate row holds

contents == <<stored, row>>

Keys == Numbers \X {"json", "html"}
Belongs(d, n) == d \in Docs /\ NumberOf[d] = n

Init == /\ stored = [k \in Keys |-> Missing]
        /\ row = [n \in Numbers |-> Missing]

Put(k, d) ==
    /\ Belongs(d, k[1])
    /\ stored' = [stored EXCEPT ![k] = d]
    /\ UNCHANGED row

Issue(n, d) ==
    /\ Belongs(d, n)
    /\ row[n] = Missing
    /\ \A kind \in {"json", "html"} : stored[n, kind] # Missing
    /\ row' = [row EXCEPT ![n] = d]
    /\ UNCHANGED stored

Lose ==
    /\ stored' \in [Keys -> Docs \cup {Missing}]
    /\ \A k \in Keys : stored'[k] = Missing \/ Belongs(stored'[k], k[1])
    /\ UNCHANGED row

Next == \/ \E k \in Keys, d \in Docs : Put(k, d)
        \/ \E n \in Numbers, d \in Docs : Issue(n, d)
        \/ Lose

Spec == Init /\ [][Next]_contents
=============================================================================
