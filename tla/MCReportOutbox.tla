-------------------------- MODULE MCReportOutbox --------------------------
(* Model-checking instance of ReportOutbox: two deliveries and two          *)
(* processes.  No symmetry, because the run also checks a liveness          *)
(* property.                                                               *)
EXTENDS ReportOutbox

TwoJobs == 1..2
=============================================================================
