---------------------------- MODULE ReportCycle ----------------------------
(***************************************************************************)
(* A session's reports: samples taken by the handler, reports that leave   *)
(* the samples where they are, reports that clear them (a periodic         *)
(* collection), and the end of the session, over the Collector.            *)
(*                                                                         *)
(* Each action here is one hold of the PROFILER lock.  Profiler shows that *)
(* these holds exclude each other (Exclusion) and how calls, handlers and  *)
(* the timer interleave around them.                                       *)
(***************************************************************************)
EXTENDS Collector, FiniteSetsExt

CONSTANT TempFileFails   \* TRUE: Collector::new may fail

VARIABLES running,     \* Profiler.running
          registered,  \* some start() has installed the handler by now
          recorded,    \* history: the samples since the session began or a
                       \*   clearing report returned, <<backtrace, when>>
          delivered    \* history: the samples clearing reports returned

cycleVars == <<collectorVars, running, registered, recorded, delivered>>

CycleInit ==
  /\ CollectorInit
  /\ running = FALSE /\ registered = FALSE
  /\ recorded = {}
  /\ delivered = {}

\* Everything try_iter yields, as samples
Held == UNION {{e.key} \X e.samples : e \in Yielded}

-----------------------------------------------------------------------------
(* What a report counts, when the collector is readable                    *)

\* Mutant: of two entries that share a row, one count replaces the other.
LargestCount(entries) == Max({Count(e) : e \in entries})

\* The sum of the counts of entries that share a row
TotalCount(entries) == MapThenSumSet(Count, entries)

\* build_unresolved: one row for each class of UnresolvedFrames's PartialEq
UnresolvedData ==
  [k \in {e.key : e \in Yielded} |-> TotalCount({e \in Yielded : e.key = k})]

\* Frames::from takes over the timestamp of the entry's item, which is that of
\* the first sample the entry counts, and Frames's PartialEq compares it.
FirstSample(e) == Min(e.samples)
FramesOf(e) == [key |-> e.key, sample_timestamp |-> FirstSample(e)]

\* build_and_clear: one row for each class of Frames's PartialEq
ReportData ==
  [row \in {FramesOf(e) : e \in Yielded} |->
     TotalCount({e \in Yielded : FramesOf(e) = row})]

-----------------------------------------------------------------------------
(* Actions                                                                 *)

\* Profiler::start, for a builder that gets its guard: the handler is installed
\* and nothing is discarded.
Start ==
  /\ ~running
  /\ running' = TRUE /\ registered' = TRUE
  /\ UNCHANGED <<collectorVars, recorded, delivered>>

\* perf_signal_handler reaches Profiler::sample.  It does not look at running: a
\* handler that was entered before a stop may get here after it.  Before the
\* first start there is none.
Sample(k) ==
  /\ registered
  /\ Add(k)
  /\ recorded' = recorded \cup {<<k, clock + 1>>}
  /\ UNCHANGED <<running, registered, delivered>>

\* The report returns Ok, and its samples are the caller's.
Delivers == recorded' = {} /\ delivered' = delivered \cup Held

\* build_and_clear(TRUE), for a guard: try_iter's error comes first and leaves
\* everything alone; then clear(), whose error takes the report with it.
ClearingReport ==
  /\ running
  /\ UNCHANGED <<running, registered, clock>>
  /\ \/ ~Readable /\ UNCHANGED <<storeVars, recorded, delivered>>
     \/ Readable /\ ClearOk /\ Delivers
     \/ Readable /\ ClearFails /\ UNCHANGED <<recorded, delivered>>

\* Profiler::stop and init: a new collector, or the error of making its file
Stop ==
  /\ running
  /\ \/ Renew /\ running' = FALSE /\ recorded' = {}
     \/ TempFileFails /\ UNCHANGED <<storeVars, running, recorded>>
  /\ UNCHANGED <<clock, registered, delivered>>

CycleNext == Start \/ ClearingReport \/ Stop \/ \E k \in Keys : Sample(k)

CycleSpec == CycleInit /\ [][CycleNext]_cycleVars

-----------------------------------------------------------------------------
(* Properties                                                              *)

\* A sample is in every report until a clearing report has returned it, and in
\* none afterwards: whatever was evicted, buffered, flushed or cleared, the
\* collector yields what was recorded, no more and no less, or it is an error.
NoSampleLost == Readable => Held = recorded

\* Every row of an unresolved report counts all the samples of its backtrace.
UnresolvedExact ==
  Readable =>
    /\ DOMAIN UnresolvedData = {s[1] : s \in recorded}
    /\ \A k \in DOMAIN UnresolvedData :
         UnresolvedData[k] = Cardinality({s \in recorded : s[1] = k})

\* A report counts every recorded sample in exactly one row: its rows add up
\* to the number of samples, backtrace by backtrace.
ReportExact ==
  Readable =>
    \A k \in Keys :
      MapThenSumSet(LAMBDA row : ReportData[row],
                    {row \in DOMAIN ReportData : row.key = k})
        = Cardinality({s \in recorded : s[1] = k})

\* No sample is in two clearing reports.
DeliveredOnce ==
  [][delivered' # delivered => Held \cap delivered = {}]_cycleVars

\* A backtrace has one row in a guard's report, whose value is its count.
OneRowPerBacktrace ==
  running /\ Readable =>
    \A r, s \in DOMAIN ReportData : r.key = s.key => r = s

\* Whenever the profiler runs, a clearing report can leave it readable, so that
\* a periodic collection goes on without a new guard.
CollectionGoesOn == running => ENABLED (ClearingReport /\ Readable')
=============================================================================
