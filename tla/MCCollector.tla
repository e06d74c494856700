---------------------------- MODULE MCCollector ----------------------------
(***************************************************************************)
(* Collector for TLC: three backtraces share a bucket of two entries, so   *)
(* that merging, inserting and evicting all happen; a fourth has a bucket  *)
(* of its own.                                                             *)
(***************************************************************************)
EXTENDS Collector

CONSTANTS k1, k2, k3, k4, shared, own

MCBucketOf == [k \in Keys |-> IF k = k4 THEN own ELSE shared]
=============================================================================
