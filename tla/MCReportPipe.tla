---------------------------- MODULE MCReportPipe ----------------------------
(***************************************************************************)
(* Two children, and a report that does not fit into the pipe.             *)
(***************************************************************************)
EXTENDS ReportPipe

CONSTANTS k1, k2
=============================================================================
