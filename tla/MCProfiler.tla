----------------------------- MODULE MCProfiler -----------------------------
(***************************************************************************)
(* Profiler for TLC.  Threads are interchangeable, so the runs, which      *)
(* check safety properties only, use Symmetry.                             *)
(***************************************************************************)
EXTENDS Profiler, TLC

Symmetry == Permutations(Threads)
=============================================================================
