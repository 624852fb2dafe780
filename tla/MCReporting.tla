---------------------------- MODULE MCReporting ----------------------------
(***************************************************************************)
(* Small processes.  Threads are interchangeable except for Main, which    *)
(* alone exits; there are as few of them as the races need.                *)
(***************************************************************************)
EXTENDS Reporting

CONSTANTS main, worker, app, plugin
=============================================================================
