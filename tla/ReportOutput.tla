---------------------------- MODULE ReportOutput ----------------------------
(***************************************************************************)
(* From the collector's entries to a report and its encodings: every frame *)
(* is looked up in the perf map, which loader threads replace meanwhile,   *)
(* and then in the debug information; entries that have become equal are   *)
(* added up; and the report is encoded.                                    *)
(*                                                                         *)
(* What the entries are is the subject of ReportCycle.  The reporter holds *)
(* PROFILER throughout the first part, so they do not change.              *)
(***************************************************************************)
EXTENDS PerfMap, Pprof, FiniteSetsExt

CONSTANTS Entries,     \* the collections of entries a report may start from
          Ips,         \* addresses in backtraces
          DebugInfo,   \* the symbols the debug information has for each
          OsName,      \* what pthread_getname_np says, or NoName if it fails
          NoName,
          MaxThreadName,   \* MAX_THREAD_NAME
          Rename       \* the frames_post_processor, one that renames threads

\* An entry of the collector, as far as reports use it
Entry == [frames : Seq(Ips), thread_id : ThreadIds,
          sample_timestamp : Timestamps, count : Nat \ {0}]

Unknown == <<"Unknown">>

ASSUME ReportOutputAssumption ==
  /\ \A E \in Entries : E \subseteq Entry /\ IsFiniteSet(E)
  /\ Ips \subseteq Nat
  /\ DebugInfo \in [Ips -> Seq(Symbol)]
  /\ Unknown \in Files /\ 0 \in LineNumbers
  /\ NoName \notin Text
  /\ OsName \in [ThreadIds -> ThreadNames \cup {NoName}]
  /\ Rename \in [ThreadNames -> ThreadNames]
  /\ MaxThreadName \in Nat \ {0}
  /\ \A e \in Parsed : e.name \in RawNames /\ e.start \in Nat /\ e.end \in Nat

VARIABLES source,     \* history: the entries of this report
          entries,    \* those still to be converted
          item,       \* the one being converted
          frame_iter, \* its frames still to be resolved
          fs          \* the frames made so far: their symbols

buildVars  == <<source, entries, item, frame_iter, fs>>
outputVars == <<perfMapVars, pprofVars, buildVars>>

OutputInit ==
  /\ PerfMapInit /\ PprofInit
  /\ source \in Entries /\ entries = source
  /\ item = <<>> /\ frame_iter = <<>> /\ fs = <<>>
  /\ data = <<>> /\ stage = "entries"

-----------------------------------------------------------------------------
(* Thread names                                                            *)

\* Mutant: the division comes after the digit.
FallbackShifted(id) ==
  LET len == CHOOSE n \in 0 .. MaxThreadName :
               /\ n = MaxThreadName \/ id <= PowerOfTen[n]
               /\ \A m \in 0 .. n - 1 : id > PowerOfTen[m]
  IN  [i \in 1 .. len |-> Digit[((id \div PowerOfTen[len - i + 1]) % 10) + 1]]

\* write_thread_name_fallback: no leading digit for a power of ten, none at all
\* for 1, and only the lower MaxThreadName digits of an id that has more
FallbackName(id) ==
  LET len == CHOOSE n \in 0 .. MaxThreadName :
               /\ n = MaxThreadName \/ id <= PowerOfTen[n]
               /\ \A m \in 0 .. n - 1 : id > PowerOfTen[m]
  IN  Digits(id, len)

\* A fallback name of MaxThreadName digits leaves no place for the NUL, and
\* from_ptr reads on behind the array.  If there is a NUL the name is this one;
\* a longer one UnresolvedFrames::new refuses with a panic, and there is no entry.
ThreadName(id) == IF OsName[id] = NoName THEN FallbackName(id) ELSE OsName[id]

-----------------------------------------------------------------------------
(* Frames::from and the rest of build_and_clear, entry by entry            *)

NextEntry ==
  /\ stage = "entries"
  /\ \E e \in entries :
       item' = e /\ frame_iter' = e.frames /\ entries' = entries \ {e}
  /\ fs' = <<>>
  /\ stage' = "lookup"
  /\ UNCHANGED <<perfMapVars, data, dedup_str, tableVars, rowVars, outVars, source>>

\* resolve_in_perfmap goes for the perf map,
LookUp ==
  /\ stage = "lookup" /\ frame_iter # <<>>
  /\ GetResolver
  /\ stage' = "resolve"
  /\ UNCHANGED <<data, dedup_str, tableVars, rowVars, outVars, buildVars>>

PerfMapSymbol(name) == [name |-> name, filename |-> Unknown, lineno |-> 0]

\* and the symbols of address ip are the perf map's or the debug information's.
SymbolsAt(ip) == IF Found(resolver, ip) THEN <<PerfMapSymbol(Find(resolver, ip))>>
                                        ELSE DebugInfo[ip]

HandlerNames == {<<"perf_signal_handler">>, <<"_perf_signal_handler">>}
IsHandler(syms) == \E i \in DOMAIN syms : Name(syms[i]) \in HandlerNames

\* Mutant: the frame after the handler's, which the kernel made, is kept.
SkipHandlerOnly(syms) == Tail(frame_iter)

\* What is left of the backtrace: the handler's frame takes the next one along.
Rest(syms) == IF IsHandler(syms) THEN SubSeq(frame_iter, 3, Len(frame_iter))
                                 ELSE Tail(frame_iter)

ResolveFrame ==
  /\ stage = "resolve"
  /\ LoadMap
  /\ LET syms == SymbolsAt(Head(frame_iter)) IN
       /\ frame_iter' = Rest(syms)
       /\ fs' = IF IsHandler(syms) \/ syms = <<>> THEN fs ELSE Append(fs, syms)
  /\ stage' = "lookup"
  /\ UNCHANGED <<data, dedup_str, tableVars, rowVars, outVars, source, entries, item>>

\* The row of the entry, as frames_post_processor leaves it
RowOf(e) == [frames |-> fs, thread_name |-> Rename[ThreadName(e.thread_id)],
             thread_id |-> e.thread_id, sample_timestamp |-> e.sample_timestamp]

\* PartialEq of Frames, which compares symbols by their raw names
Key(r) ==
  [r EXCEPT !.frames =
     [i \in DOMAIN r.frames |-> [j \in DOMAIN r.frames[i] |-> r.frames[i][j].name]]]

\* Row r with n samples more: an equal row keeps its symbols.
WithRow(r, n) ==
  IF \E q \in DOMAIN data : Key(q) = Key(r)
    THEN [q \in DOMAIN data |-> IF Key(q) = Key(r) THEN data[q] + n ELSE data[q]]
    ELSE [q \in DOMAIN data \cup {r} |-> IF q = r THEN n ELSE data[q]]

AddRow ==
  /\ stage = "lookup" /\ frame_iter = <<>>
  /\ data' = WithRow(RowOf(item), item.count)
  /\ stage' = "entries"
  /\ UNCHANGED <<perfMapVars, dedup_str, tableVars, rowVars, outVars, buildVars>>

Built ==
  /\ stage = "entries" /\ entries = {}
  /\ stage' = "built"
  /\ UNCHANGED <<perfMapVars, data, dedup_str, tableVars, rowVars, outVars, buildVars>>

Build == NextEntry \/ LookUp \/ ResolveFrame \/ AddRow \/ Built

Encode == PprofStep /\ UNCHANGED <<perfMapVars, buildVars>>

Others == (Environment \/ LoaderStep) /\ UNCHANGED <<pprofVars, buildVars>>

OutputSpec == OutputInit /\ [][Build \/ Encode \/ Others]_outputVars

-----------------------------------------------------------------------------
(* Properties                                                              *)

Mine(e, i) == IsHandler(DebugInfo[e.frames[i]])

\* What tells the handler's frames from all others: the JIT's code is not at its
\* addresses and has other names, cut ones included, and it does not interrupt
\* itself, since SIGPROF is blocked while it runs.
HandlerApart ==
  /\ \A l \in Parsed : /\ Demangle[l.name] \notin HandlerNames
                       /\ \A ip \in Ips : Covers(l, ip) => ~IsHandler(DebugInfo[ip])
  /\ \A b \in Entries : \A e \in b : \A i, j \in DOMAIN e.frames :
       j = i + 1 => ~(Mine(e, i) /\ Mine(e, j))

\* The addresses of a backtrace that belong to the application: neither the
\* handler's own nor the frame that called it, which the kernel made
AppIps(e) == {i \in DOMAIN e.frames : ~Mine(e, i) /\ (i > 1 => ~Mine(e, i - 1))}

RawNamesOf(syms) == [j \in DOMAIN syms |-> syms[j].name]

\* The raw names address ip can be shown with: those of the debug information,
\* or one that the JIT writes for it, or the beginning of one
CanBe(ip) == {RawNamesOf(DebugInfo[ip])}
               \cup {<<l.name>> : l \in {l \in Parsed : Covers(l, ip)}}

\* The frames of row r are the application's frames of e, in their order, each
\* once.  Only what the debug information has no symbol for may be missing.
Shows(r, e) ==
  \E at \in [DOMAIN r.frames -> AppIps(e)] :
    /\ \A i, j \in DOMAIN at : i < j => at[i] < at[j]
    /\ \A i \in DOMAIN at : RawNamesOf(r.frames[i]) \in CanBe(e.frames[at[i]])
    /\ \A k \in AppIps(e) \ {at[i] : i \in DOMAIN at} :
         DebugInfo[e.frames[k]] = <<>>

\* A report shows every backtrace of the collector, at its thread and time, and
\* counts every sample once, whatever loaders do to the perf map between two
\* frames and whichever entries become equal.
ReportShowsEntries ==
  stage = "built" =>
    \A e \in source :
      LET Same(x) == /\ x.thread_id = e.thread_id
                     /\ x.sample_timestamp = e.sample_timestamp
      IN  /\ \E r \in DOMAIN data : Same(r) /\ Shows(r, e)
          /\ MapThenSumSet(LAMBDA r : data[r], {r \in DOMAIN data : Same(r)})
               = MapThenSumSet(LAMBDA x : x.count, {x \in source : Same(x)})

\* What tells threads without a name apart: their ids leave room for the NUL in
\* MaxThreadName places, and the processor leaves the names made of them alone.
IdsFit ==
  \A id \in ThreadIds :
    OsName[id] = NoName => /\ id \in 1 .. PowerOfTen[MaxThreadName - 1]
                           /\ Rename[FallbackName(id)] = FallbackName(id)

\* Threads that the system has no name for never share a label, by which
\* flamegraphs and profiles tell them apart.
ThreadLabelsDiffer ==
  \A q, r \in DOMAIN data :
    /\ q.thread_id # r.thread_id
    /\ OsName[q.thread_id] = NoName /\ OsName[r.thread_id] = NoName
    => ThreadNameOrId(q) # ThreadNameOrId(r)
=============================================================================
