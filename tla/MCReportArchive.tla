--------------------------- MODULE MCReportArchive ---------------------------
(* Jobs j1 and j2 got the same number; j3 has one of its own.              *)
EXTENDS ReportArchive

CONSTANTS j1, j2, j3, n1, n2

MCNumber == [j \in Jobs |-> IF j = j3 THEN n2 ELSE n1]
=============================================================================
