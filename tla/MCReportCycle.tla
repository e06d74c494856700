--------------------------- MODULE MCReportCycle ---------------------------
(***************************************************************************)
(* ReportCycle for TLC: three backtraces share a bucket of two entries and *)
(* the buffer holds one, so that a backtrace is soon in memory's map, in   *)
(* the buffer and in the file at once.                                     *)
(***************************************************************************)
EXTENDS ReportCycle

CONSTANT shared

MCBucketOf == [k \in Keys |-> shared]
=============================================================================
