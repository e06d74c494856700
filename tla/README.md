# A formal model of pprof-rs (Pyroscope's fork)

pprof-rs samples the CPU use of the process it is linked into. One global
`Profiler` sits behind a spin lock; an interval timer sends SIGPROF; the signal
handler interrupts whatever thread the kernel chooses, unwinds its stack and
counts it in a bounded store that spills to a temporary file; threads of the
application start sessions, build reports, clear the store and end sessions.
This directory holds TLA+ specifications of that program, the TLC
configurations that check them and TLAPS proofs about them. `PROJECT.json`
lists the runs, the theorems, the source lines every definition stands for and
the hazards the properties are aimed at.

## 1. Inventory

Paths are relative to the crate's `src/` directory.

| Component | State | Operations | Modelled in |
|---|---|---|---|
| Profiler life cycle (`profiler.rs`) | `PROFILER` (a `Lazy` spin `RwLock` over a `Result`), `running`, blocklist segments, `data` | `build`, `start`, `stop`, `init`, `clear`, `Drop` of the guard | `Profiler` |
| SIGPROF handler (`profiler.rs`) | none of its own | try the lock, check the blocklist, unwind, `sample` | `Profiler` |
| Interval timer (`timer.rs`) | the kernel's `ITIMER_PROF` | `Timer::new`, `Drop`, `timing` | `Profiler` (without wall-clock time) |
| framehop backend (`backtrace/framehop_unwinder.rs`) | `UNWINDER` (a `Lazy` spin `RwLock`) | `init`, `trace`, `iter_frames`, `read_stack` | `Profiler` (its lock), `FrameWalk` |
| Sample collector (`collector.rs`) | buckets of 4 entries, a buffer, a flush count, a temporary file | `add`, `push`, `flush_buffer`, `try_iter`, `clear`, `new` | `Collector`, `SampleStore` |
| Reports (`report.rs`, `frames.rs`) | none between calls | `build_and_clear`, `build_unresolved`, `Frames::from` | `ReportCycle`, `ReportOutput`, `Profiler` |
| Address validation (`addr_validate.rs`) | two atomics with a pipe's ends | `validate`, `open_pipe` | `AddrValidate` |
| Frame-pointer unwinder (`backtrace/frame_pointer.rs`) | none | `trace` | `FrameWalk` |
| Perf map (`perfmap.rs`) | a cached map and its modification time, loader threads | `init_resolver`, `get_resolver`, `find` | `PerfMap` |
| Encodings (`report.rs`), thread names (`profiler.rs`, `frames.rs`) | none | `pprof`, `flamegraph`, `write_thread_name` | `Pprof`, `ReportOutput` |
| Criterion integration (`criterion.rs`) | one guard | start, report, stop | out of scope |
| `backtrace_rs.rs`, `shlib.rs`, `lib.rs`, `error.rs`, `build.rs` | none | forwarding, external formats, constants, generated code | out of scope |

### How they interact

* Application threads call `build`, which first runs `trigger_lazy` (a read lock
  on `PROFILER` and, inside it, one on `UNWINDER`), then takes the write lock,
  registers the handler and arms the timer, in that order.
* The kernel delivers SIGPROF on any thread, between any two instructions,
  including those executed under either lock. The handler only ever *tries*
  `PROFILER` for writing and then `UNWINDER`.
* Reports take `PROFILER` for writing (`build_and_clear`) or for reading
  (`build_unresolved`), and walk the collector.
* Dropping the guard disarms the timer first, without a lock, then takes the
  write lock, sets SIGPROF to ignored and replaces the collector.
* Inside the handler the frame-pointer and framehop backends call `validate` for
  every word pair they are about to read. `validate` is also exported, so other
  threads may be in it, on the same pipe, at any of its system calls.
* Building a report looks every frame up in the perf map; every lookup spawns a
  thread that may replace that map, in the middle of the report.

### What is hard, and what makes each part correct

* *Life cycle and handler.* The interrupting handler and the interrupted code
  are on one thread, so waiting is deadlock; initialisation must never happen in
  the handler; signals in flight at a stop must be harmless; builds and drops
  race. Correct means: exclusive access, one session, the timer inside the
  session, nothing sampled by the wrong session, and no sample lost between a
  report's walk and its clear.
* *Collector.* Eviction splits a backtrace's count over memory, buffer and file;
  buffers fill exactly; a write or a truncation can fail half way. Correct means
  that what is read back is exactly what was added, or an error.
* *Reports.* Sums over entries of equal rows. Correct means each sample is
  counted in one row of every report until a clearing report returns it.
* *Validation and the walk.* The stack is arbitrary data, and the one way to ask
  about it is a pipe shared by all callers, whose descriptors are two atomics
  among the application's own. Correct means that nothing is read that was not
  found readable, that no descriptor of the application is touched, that the
  pipe neither leaks nor fills up, that every walk ends and sound stacks are
  recorded in full, and that the interrupted thread keeps its errno.
* *Perf map and encodings.* A file that another program writes, read by
  overlapping threads; tables that refer to each other by number; functions
  shared by name. Correct means that a report shows every backtrace with the
  names it may have, and that both encodings say the same.

## 2. Modules

| Module | Role |
|---|---|
| `Session` | abstract specification of the life cycle: sessions follow each other |
| `Profiler` | threads, handler, locks, kernel signal state; the core of the project; the refinement mapping to `Session` |
| `MCProfiler` | TLC instance with symmetric threads |
| `MCProfilerLive` | bounded number of calls and fairness, for liveness |
| `ProfilerProofs` | the theorems about `Profiler`, its refinement of `Session` among them |
| `SampleStore` | abstract specification of a sample store |
| `Collector` | the collector, with the refinement mapping to `SampleStore` |
| `CollectorProofs` | the theorems about `Collector`, its refinement of `SampleStore` among them |
| `MCCollector` | TLC instance: a shared bucket and a bucket of its own |
| `ReportCycle` | sessions and reports over `Collector`, one action per hold of the lock |
| `MCReportCycle` | TLC instance |
| `DataLemmas` | induction over numbers and sums over finite sets, for the proofs |
| `ReportCycleProofs` | the theorems about `ReportCycle` |
| `AddrValidate` | the shared pipe: atomics, descriptors, one step per system call |
| `FrameWalk` | the handler's walk over `AddrValidate`, both backends, errno |
| `MCFrameWalk` | TLC instance: stacks that are sound, loop, go back or end early |
| `AddrValidateProofs` | the theorems about `AddrValidate`, and about validation in `FrameWalk` |
| `FrameWalkProofs` | what a walk records, and its types |
| `PerfMap` | the perf map's file, its copy, the `Lazy` and the loader threads |
| `Pprof` | the pprof tables, and the lines of a flamegraph |
| `ReportOutput` | one report: `PerfMap` and `Pprof` composed, with `Frames::from` and thread names |
| `MCReportOutput` | TLC instance: a few backtraces, a JIT, two loaders |
| `PerfMapProofs` | the theorems about `PerfMap` alone |
| `ReportOutputProofs` | the theorems about `ReportOutput`, and with it about `Pprof` |

`Profiler` treats the collector as the set of stacks that were counted;
`ReportCycle` treats each hold of `PROFILER` as one step. `Exclusion`, checked
and proved of `Profiler`, is what entitles `ReportCycle` to that: nobody can see
the collector in the middle of a hold.

### Profiler and the code

`pc[t]` is where thread `t` stands in a call (`"idle"` outside), `sig[t]` where
the SIGPROF handler on top of it stands. One action is one access that another
context can observe. A thread's own code only runs when `sig[t] = "none"`.

| Actions | Code |
|---|---|
| `BuildCall`, `LazyRead`, `LazyInit`, `LazyDone` | `build`, `trigger_lazy`, `Trace::init` |
| `AcquireWrite`, `BuildStart`, `BuildTimer`, `ReturnGuard`, `Unlock` | the rest of `build`, `start`, `register_signal_handler`, `Timer::new` |
| `ReportCall`, `ReportRead`, `ReportClear` | `report`, `build_and_clear`, `Profiler::clear` |
| `UnresolvedCall`, `UnresolvedRead`, `UnresolvedDone` | `build_unresolved` |
| `DropCall`, `DropTimer`, `DropStop`, `DropInit` | `Drop` of the guard and of the timer, `stop`, `init` |
| `Tick`, `Deliver` | the kernel (external) |
| `HandlerTryWrite`, `HandlerSkip`, `HandlerTrace`, `HandlerRecord` | `perf_signal_handler`, `Trace::trace`, `Profiler::sample` |

Modelling decisions:

* A guard may be shared by or moved between threads, so `guard` is one bit.
  `DropCall` needs every `ReportBuilder` to be gone: the borrow checker says so.
  `build_unresolved` and `build_and_clear` borrow it through the same builder.
* `clear[t] = FALSE` is `build`; a report that does not clear leaves `owed`
  alone, since its samples will be in a later report too.
* An interrupted instruction is abstracted to the library it is in (`at[t]`), and
  a blocklist to a set of libraries.
* `pending` is one bit because SIGPROF is a standard signal: ticks coalesce. It
  is blocked in the thread that runs the handler, so another thread may get it.
* Setting SIGPROF to `SIG_IGN` discards a pending one; a handler that has been
  entered goes on. That is why late samples exist.
* Interval arithmetic is the code's: truncation toward zero, an interval of 0
  disarms, a negative one is rejected by the kernel and changes nothing.
* Errors of the collector (an unreadable file, a failing clear) are in
  `ReportCycle`, not here.
* Errno and the unwinding are in `FrameWalk`, not here.
* Left out: `old_sigaction` (stored and discarded, never restored), `sample_counter` (written and never read), `on_stack`, failing
  `sigaction` (it cannot fail for SIGPROF with valid arguments), and the
  frame-pointer build, whose UNWINDER lock does not exist.

### Session

`Session` says what the life cycle promises: a thread begins a session, its guard
is out, a thread ends it, and the timer is armed only meanwhile. `Life` maps
`Profiler` to it: the phase is told by `running`, the guard and where the threads
stand (`Phase`), the owner is the thread that is starting or ending (`Owner`).
With a failing temporary file or frequency 0 a call fails half way and the
session is lost: the profiler runs for nobody, and `Session` then allows nothing
more. That this is the worst that can happen is part of what is proved.

### Collector, SampleStore and the code

An entry is `[key, samples]`: its backtrace and the *identities* of the samples
it counts, so that losing one sample and doubling another can be told from
correct counting, which numbers alone could not do. `count` is the cardinality.
`file` has one element per `write_all`, in order, and `Readable` is
`read_exact` of `flush_n` whole buffers: a short write followed by whole ones
leaves the file short for good, since writes are consecutive. A failing
`set_len` leaves the file and its offset while `flush_n` restarts from 0, so
later flushes go behind stale content, which is what gets read.

`SampleStore` promises: holds exactly what was accepted since the last discard,
or is unreadable, and then stays so until a discard. `Collector!Store` maps
`held` to the samples that `try_iter` yields.

### ReportCycle and the code

`recorded` is what a reader of the API expects the next report to hold,
`delivered` what clearing reports have handed out. `UnresolvedData` groups
entries by `UnresolvedFrames` equality (the backtrace and thread), `ReportData`
by `Frames` equality, which includes the first sample's timestamp. `registered`
is set by the first `Start`, which installs the handler; only from then on can
there be samples, those of handlers that outlive their session included.

### AddrValidate, FrameWalk and the code

`vpc[c]` is where context `c` stands in `validate`, and `fd[c]` the descriptor it
has loaded and not yet used: between the two the number may come to mean
something else. `fdtab` is the process's descriptor table, which hands out the
lowest free number, and `chunks[p]` counts the checks in a pipe. Memory is a
sequence of words; a check covers two (`Span`), as `CHECK_LENGTH` does. EINTR
repeats the call, which is a stuttering step.

`Begin` with `FirstAlone` keeps other callers out until the first call has opened
the pipe. Without it two first calls may disturb each other, as the run
`pipe_mixed` shows. The profiler alone meets the condition, since `PROFILER`
serialises its handlers; an application that calls the exported `validate` while
the first sample is taken does not.

`FrameWalk` is one handler, which is what the lock allows. `Interrupt` picks the
interrupted instruction, the content of the stack and the frame pointer;
`StartWalk` and `StartHop` enter the backends; `CheckFrame`, `Validated`,
`ReadRet`, `Callback` and `ReadNext` are the loop of `Trace::trace` for frame
pointers. For framehop, `HopAsk`, `HopValidated` and `HopRead` are `read_stack`
and `HopFrame` is the iterator, of which nothing is assumed: it may ask for any
word and yield any frame. `wpc = "dead"` is a SIGSEGV. `lost` remembers the words
unmapped since the walk last asked, and `errno` whether the thread's own value is
still there.

### PerfMap, Pprof, ReportOutput and the code

The file is a sequence of lines, of which the last may be unfinished (`half`).
`PerfMap::new` accepts a line as soon as its start and one digit of its length
are there, so an unfinished line may parse, with its length or its name cut.
`Cuts` has what the beginnings of each line that parse read as, in the order in
which they appear, and `part` how many of them have been reached: with `part = 0`
the line does not parse yet and there is no map, otherwise `PerfMapNew` puts
`Cuts[...][part]` in the line's place. `WriteHalf` writes a beginning or more of
it, `WriteLine` a whole line or the rest of one. `Touch` may fail, as the
initialiser does not look at its result. `lpc[c]` is where thread `c` stands: `Open`, `Metadata`,
`Compare`, `StoreMtime` and `Parse` are the steps of `init_resolver`, run by a
loader or by whoever initialises the `Lazy` (`initBy`). `seen` and `map` are a
thread's locals. The clock counts whole seconds because the code compares
`as_secs()`. A loader that was spawned and reads nothing new simply ends; the
set `Loaders` bounds how many are alive, so a lookup waits in the model when all
are (only the schedule is restricted, not what a loader does).

`Pprof` is `Report::pprof` with one action per string, frame and symbol. Strings
are sequences of words: their text never matters, only which are equal and which
is empty. `Profile` is the message it returns, and the `...Message` sets are the
generated types, restricted to the fields the encoding sets. The string set is
emptied in an arbitrary but fixed order (`CHOOSE`), since no property depends on
it, the rows in any order. `FlameLine` is a line of `Report::flamegraph` before
it is drawn.

`ReportOutput` converts one entry after the other: `LookUp` and `ResolveFrame`
are the two halves of `resolve_in_perfmap` with the resolution of one frame,
`Rest` what the handler's frame takes along, `Key` the equality of `Frames`
(symbols compared by raw name). `ThreadName` is what an entry can have: a
fallback name that fills the array has no NUL behind it, and `CStr::from_ptr`
reads on; a longer name makes `UnresolvedFrames::new` panic, so that no entry has
one. `Rename` stands for a `frames_post_processor`
that changes thread names. `DebugInfo` is the backtrace crate's answer for each
address and `Demangle` the demangler's for each name.

## 3. Runs

| Run | Bounds | What it shows |
|---|---|---|
| `profiler_races` | 3 threads, 2 libraries, one of them blocklisted | all safety properties of `Profiler` when temporary files can be made and builders agree on a blocklist |
| `profiler_live` | 2 threads, frequencies 99, 0, -1, failing files, 4 calls | the timer invariant under odd inputs, refinement of `Session`, `HandlerReturns`, `DropCompletes` |
| `collector` | 4 backtraces, 2 buckets of 2, buffer of 2, 8 samples, failing writes | array bounds, one entry per backtrace, no sample twice, eviction order, refinement of `SampleStore` |
| `report_cycle` | 3 backtraces in a bucket of 2, buffer of 1, 7 samples, failing writes and files | what reports hold and deliver |
| `frame_walk` | 6 stacks of 5 words, 3 descriptors, the handler and one other caller, room for 2 checks, depth 2, both backends | the pipe, the walk, errno, and that walks end |
| `report_output` | 3 collections of up to 3 entries, 6 addresses, 2 loaders, 2 lines, 2 seconds | lookups during reloads, rows, labels, and both encodings |

Runs that show where the code departs from what its documentation says (each
has an entry under "findings"):

| Run | Property | Finding |
|---|---|---|
| `blocklist_replaced` | `BlocklistHonoured` | a refused builder replaces the live profiler's blocklist |
| `late_sample` | `QuietWhenStopped` | a handler entered before a stop samples into the next session |
| `stop_fails` | `RunningHasOwner` | a failing temporary file at a stop leaves the profiler running for ever |
| `pipe_mixed` | `ReadableAccepted` | two first calls of `validate` at once: one may refuse readable memory |
| `split_rows` | `OneRowPerBacktrace` | a backtrace evicted and seen again has two rows |
| `stuck_after_write` | `CollectionGoesOn` | after a failed write, no clearing report can succeed |

`BlocklistHonoured` and `RunningHasOwner` are in `profiler_races` too, where
every builder has the same blocklist and files can be made: under those
conditions they hold, so the violations have no other cause.

### Why the bounds are enough

* Three threads: one in a call, one racing it, and one to be interrupted by a
  handler or to hold the read lock meanwhile. No action involves more. The
  theorems cover every number of threads.
* One blocklisted and one other library give both answers of `is_blocklisted`.
* A bucket of two entries shared by three backtraces merges, inserts and evicts;
  eight samples are enough to evict, buffer, flush twice and have an evicted
  backtrace return. `MaxSamples` is the only bound in a guard of `Collector`.
* In `profiler_live`, `MaxCalls` bounds the calls of the application (not ticks
  or handlers): two sessions' worth of calls or a session with reports.

* In `frame_walk` two callers are enough to interleave any two steps of
  `validate`, and three descriptors leave one for the application to take and
  close between them. The stacks are one of each kind the walk tells apart:
  sound, looping, going back, ending outside readable memory, blocklisted, and
  one in order that is deeper than `MaxDepth`.
* `report_output` has two loaders, which may overlap and store in either order,
  and a file of two lines over two seconds: read before, between and after them,
  in the same second or a later one. Each line has one beginning that parses: one
  has its name cut, the other its length. Its collections have a backtrace
  through the handler, one without frames, two of equal raw names, functions of
  one demangled name, and an address looked up twice in one backtrace. The JIT
  writes for the reports that have an address in the range of a line
  (`Jitting`); for the others its lines would make no difference. `MCNext` lets the encoding start only
  when the perf map has come to its end (`Settled`); the encoding does not read
  the map, so no behaviour of either is lost.
* `MCReportOutput` assumes `HandlerApart` and `IdsFit` of its constants: the
  instance meets the conditions of the theorems `EntriesShown` and `LabelsDiffer`.
* The ids of `MCThreadIds` include 1 and 10, for which the fallback name is empty
  or lacks its first digit.

### Deadlock and fairness

`profiler_races` and its three violation runs check deadlock. `MCProfilerLive`
stops once its calls are used up, `Collector` and `ReportCycle` once their
samples are, `FrameWalk` when the process has died, and `ReportOutput` when the
report is done; their configurations turn the check off.

Liveness assumes weak fairness of a thread's next step in a call (`Step`) and of
the handler's next step (`HandlerStep`), per thread: the kernel schedules every
thread. It assumes nothing of calls, ticks or deliveries. spin's `RwLock` is not
fair, so a spinning thread is only promised the lock if it is free from some
point on. That is enough for `HandlerReturns`, since a handler never waits, and
for `DropCompletes`, since the drop disarms the timer before it spins and calls
are finitely many. A report or a build gets no such promise while the timer
ticks: handlers may take the lock every time it is free.

`FrameWalk` assumes weak fairness of the handler's own steps and nothing of the
other threads, however they hold it up on the pipe. `WalkEnds` is about the
frame-pointer backend: a framehop iterator could ask for ever.

## 4. Proofs

Every theorem is about the specification that its module's runs check, with
constants of any value its named assumption allows. Where a property holds only
under a condition on the constants, the theorem has the condition as a
hypothesis; the run that checks the property meets it, and where the code can
break it a violation run of section 3 shows how.

### Profiler

`ProfilerProofs` proves for every set of threads, sites and blocklists and every
set of integer frequencies, from `ConstantsAssumption` (the types of the
constants, and that the values that mean "nothing" are no thread, site or
context):

| Theorem | Property | Condition |
|---|---|---|
| `TypeCorrect`, `Excluding`, `UnwinderFreeForHandler`, `HandlerReady` | `TypeOK`, `Exclusion`, `UnwinderUncontended`, `HandlerFindsInitialised` | none |
| `SingleSession`, `TimerWithinSession`, `SignalSafe`, `SamplesKept` | `OneSession`, `TimerOnlyWhileRunning`, `NeverKilled`, `NoSampleLost` | none |
| `LifeKept` | `SessionImplemented`: the refinement of `Session` | none |
| `NeverLost` | `RunningHasOwner` | temporary files can be made, no frequency is 0 |
| `TimerTicks` | `GuardTicks` | frequencies from 1 to 1000000 |
| `ListHonoured` | `BlocklistHonoured` | all builders name the same blocklist |

The properties are not inductive. The inductive invariant `IInv` joins the type
invariant to named parts that say where each fact comes from:

* who holds the locks: `writer` is the context that stands in locked code, and
  `readers` the threads that stand between `trigger_lazy`'s or
  `build_unresolved`'s lock and unlock, which gives `Exclusion`;
* `UNWINDER` readers hold `PROFILER` for reading too, and its writer holds
  `PROFILER` for writing, which gives `UnwinderUncontended`;
* past `trigger_lazy` both Lazies are initialised, and the handler is installed
  only past it, which gives `HandlerFindsInitialised`;
* who is in the session (the guard, the build about to return one, the drop),
  with `running`, the disposition and the timer at each of those places, which
  gives `OneSession`, `TimerOnlyWhileRunning` and, with a signal pending only
  while it has a handler, `NeverKilled`;
* `owed \subseteq data`, and `owed` empty between a clearing report's walk and
  its clear, which gives `NoSampleLost`.

There is one lemma per part (`TypeStep`, `LockStep`, `UnwinderStep`, ...), each
with a step per action, combined in `NextIInv` and `Inductive`.

For the refinement, `Placed` says that `OneSession` determines the abstract phase
and owner from where the threads stand. Only `SessionSteps` move a session, and
each is shown to be the step of `Session` it stands for; every other step leaves
the phase and the owner as they were (`SessionKept`). `NeverLost` is then a
property of the abstract specification: without a failing file or frequency 0 no
step is `Lose`, and a profiler that runs without an owner is in the lost phase.
`TimerTicks` and `ListHonoured` add `TickInv` (an armed timer from the moment it
is made until the drop disarms it) and `ListInv` (the list in force is one that a
builder named, and nothing on it is stored or being unwound).

### Collector

`CollectorProofs` proves, for every set of backtraces and buckets, every hash,
associativity, buffer length and number of samples, from `CollectorAssumption`
alone:

* `ArraysInBounds`, `OneEntryInMemory`, `CountedOnce`: `CollectorTypeOK`,
  `OneEntryPerKey` and `NoSampleTwice` are invariants, whichever calls on the
  file fail;
* `HotKept`: `HotEntriesStay`, whichever calls fail: what a step takes from a
  bucket is a least counted entry (`AddLeaves`), and the counts are numbers to
  compare because each entry counts samples of the past (`FreshInv`);
* `StoreKept`: if truncating the file does not fail, `Collector` implements
  `SampleStore` under the refinement mapping of the module. (With failing
  truncations it does not: `clear` has reset the memory when `set_len` fails.)

The strengthening looks at the whole file, not only at the part that is read,
since a later flush count may bring the rest into view (`ApartInv`), and needs
the samples' identities to be fresh (`FreshInv`). The refinement needs the file
to have as many parts as were flushed (`WholeInv`): a part that a failing write
left short then makes the store unreadable for good. `PushReads` and `AddHeld`
are the two steps of that argument.

### ReportCycle

`ReportCycleProofs` shows that every hold of the lock is a step of the collector
(`CycleCollects`), so that the invariants of `CollectorProofs` hold of the
collector inside sessions and reports too. It proves

* `ReportedOnce`: `DeliveredOnce`, whichever calls on the file fail, from
  `DeliveredInv`: no entry, read or not, counts a delivered sample;
* `NothingLost`, `RowsExact` and `ReportAddsUp`: `NoSampleLost`,
  `UnresolvedExact` and `ReportExact`, if truncating the file does not fail.

The counts of a report are folds, and `DataLemmas` proves what is needed of
them. A sum of the sizes of disjoint sets is the size of their union
(`SumOfSizes`): the sizes of the unions satisfy the equation that defines the
sum, and only one function does. A report's rows count such sets of samples.

### AddrValidate and FrameWalk

`AddrValidateProofs` and `FrameWalkProofs` prove, for every set of contexts,
descriptors and words, every content of the stack and every depth limit:

* without a condition: `ValidateTypes` and `WalkTypes` (`PipeTypeOK`,
  `WalkTypeOK`), `WalkFaults` (`FaultOnlyIfLost`) and `WalkErrno`
  (`ErrnoPreserved`), the last two for both backends;
* if the pipe has room for one check of each context and no other thread is in
  `validate` until the first call has opened the pipe (`Roomy`; `pipe_mixed` shows
  why the second is needed): `ValidateAccepts`, `ValidateDescriptors` and `ValidateKeepsPipes`
  (`ReadableAccepted`, `OwnDescriptors`, `NoPipeLeak`), `WalkAccepts` (the three
  of them for the handler's walks among other threads), and `WalkComplete`
  (`StackComplete`).

The invariant about the pipe has two phases. While `write_fd` is unset one
context is in `validate`, and whatever pipe there is belongs to it; `OpenAt` says
how far it is. From then on both atomics hold the ends of one pipe that nobody
closes. That the pipe never fills is a count: the checks in it and the callers
between their read and their write (`Pending`) are together no more than the
contexts, because a caller leaves `read` with a check taken out or with the pipe
found empty. `WalkFaults` adds that a frame about to be read has been validated
and is still readable but for the words in `lost`.

`WalkComplete` is the correctness of a loop. Its invariant (`StackInv`) says that
what is recorded, followed by the return addresses above the frame at hand, is
all of the callers. `CallersFromIs` is the equation of the recursive function the
property refers to, shown to exist from the highest frame down; recording a frame
moves one address across. The walk ends early only if `validate` refuses a frame,
which it never does with readable memory once the pipe is open. Until then only
the handler is in `validate` (`OnlySampler`).

### PerfMap

`PerfMapProofs` proves of `MapSpec` (the steps of the perf map in whatever order
a report takes its own), for every set of loaders and lines: `MapFromFile`
(`ResolverFromFile`), `MapKept` (`MapStays`), `MapTypes` (`PerfMapTypeOK`) and
`MapFresh` (`StaleOnlyIfRaced`). `OutputIsMap` shows that `ReportOutput` takes no
other steps, which makes them the theorems `LookupsFromFile`, `LookupsKeepMap`,
`LookupTypes` and `LookupsFresh` of the specification that is checked.

`ResolverFromFile` says that lookups use the first lines of the file, each whole
but for the last of the copy, which may be cut: it is then a beginning that was in
the file, of a line that has been written on since or is still being written.
`MapInv` says the same of every copy a thread still holds (`FromFile`). A write
keeps it (`WriteBegins`), since a line only goes from one beginning to a later one
or to the whole. It also says that nothing is in place before the `Lazy` is ready, and that a loader that goes
on to store has a map to store. `RaceInv` is for staleness. Unless loaders have
overlapped (`lapped`), one thread at most is between a modification time and its
map (`Alone`); unless a write fell in a second that was already loaded
(`coarse`), a stored modification time that is the file's vouches for the map in
use, or for one on its way (`Current`).

### Pprof and ReportOutput

`ReportOutputProofs` proves, for every report:

* `ProfilesResolve`: `TablesResolve`. It needs that the rows consist of symbols,
  that every string a row will ask for is in the table or still to come
  (`StringsInv`), that what is left of a row is part of that row (`RowInv`), and
  that the function index refers into the tables (`TablesInv`).
* `ProfileSymbols` and `ProfileIsFlamegraph`: `SymbolsExact` and
  `SameAsFlamegraph`. Strings and their indexes are inverse to each other, each
  function is a symbol of the report, with one function for each name
  (`FunctionsShown`), the locations made so far decode to the part of the row
  that was taken (`RowShown`), and the samples are in bijection with the rows
  that are done, each decoding to its row's line (`RowsShown`). The bijection is
  what carries "as often" from rows to samples.
* `EntriesShown`: `ReportShowsEntries`, under `HandlerApart`: the handler's frames
  are told from all others by name, as `Frames::from` takes for granted. No line
  of the perf map has its name or covers its addresses, and it never interrupts
  itself. While one entry is converted, its frames show what was
  resolved of it (`Resolved`). The rows are apart by their keys, count for each
  thread and time what the converted entries count, and show each of them
  (`RowsOf`); an entry that merges adds to one row (`RowMerges`), any other makes
  a row of its own (`RowInserts`). That a merged entry is shown by a row it did
  not make is `KeyShows`: rows of equal keys show the same.
* `LabelsDiffer`: `ThreadLabelsDiffer`, under `IdsFit`: the ids of threads without
  a name are between 1 and `10^(MaxThreadName - 1)`, so that a NUL follows the
  digits, and the `frames_post_processor` leaves the names made of them alone.
  (`MAX_THREAD_NAME` is 16, and glibc's ids are user-space addresses: those below
  2^47 have 15 digits at most.) Powers of ten are a
  recursive function, shown to exist by gluing its beginnings (`PowerIs`). Numbers
  from 1 to `10^n` differ if their last `n` digits do (`DigitsTell`), and a label
  is such digits, of as many places as the id needs (`LabelIs`); the id 1, whose
  name is empty, included.

### What is only model-checked

* Liveness (`HandlerReturns`, `DropCompletes`, `WalkEnds`) and
  `CollectionGoesOn`, which uses ENABLED: out of the prover's reach.
* The violation runs, which are counterexamples.

## 5. Plan

Done: all modules of section 2, with the theorems of section 4.

Next, in order:

1. An abstract specification of what reports hand out (recorded, delivered,
   lost), which `ReportCycle` implements when truncation does not fail.
2. The same for `AddrValidate`: a validator that answers at once, which the pipe
   implements when it has room.

## 6. Not modelled, and why

* Debug information and demangling are the backtrace and symbolic crates'; the
  model has their answers as constants. Drawing the flamegraph and serialising
  the profile belong to inferno and prost. Lossy UTF-8 conversion and the
  `Debug` output are wording.
* framehop's rules for finding the next frame, libgcc's and the backtrace
  crate's unwinders. `backtrace_rs.rs` forwards to the latter.
* Wall-clock time: nothing is said of `ReportTiming`, nor of the profile's start
  and duration.
* The caller's `frames_post_processor` is arbitrary code run under the write
  lock; the model has the lock, and a processor that renames threads.
* The text and the numbers in a line of the perf map: a line is what it parses as.
  A beginning that has parsed is followed by beginnings that parse too, which
  leaves out names cut inside a multi-byte character (the whole file is then
  refused). The JIT writes lines that parse.
* A loader reads the file to its end in one step. In the code the rest of an
  unfinished line may be written between the read that returns its beginning and
  the one that finds the end, and is then read as a line of its own.
* What is behind the array that holds a thread's name.
* Racing first calls of `validate`, in the runs that pass: `FirstAlone` excludes
  them, and `pipe_mixed` shows what they can do.
* `shlib.rs` parses external formats once at initialisation, and
  `ProfilerGuardBuilder::blocklist` searches the loaded libraries once; the model
  has the resulting segments. `criterion.rs` uses one guard in the way any caller
  does. `error.rs`, `lib.rs` and `build.rs` hold types, constants and code
  generation.
