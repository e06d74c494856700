------------------------------ MODULE Profiler ------------------------------
(***************************************************************************)
(* The life cycle of the global profiler: ProfilerGuardBuilder::build,     *)
(* ReportBuilder::build_and_clear / build_unresolved and Drop for          *)
(* ProfilerGuard, called by any thread, interleaved with the SIGPROF       *)
(* handler, which interrupts any thread between any two of its steps.      *)
(*                                                                         *)
(* One step is one access to state that other contexts can see: the        *)
(* PROFILER spin lock, the UNWINDER spin lock, the signal disposition, the *)
(* interval timer.  What happens under the PROFILER write lock is still    *)
(* split, because SIGPROF may arrive in between.                           *)
(*                                                                         *)
(* The collected samples are abstracted to the set of stacks with a        *)
(* non-zero count; Collector and ReportCycle model the counts.  The build  *)
(* modelled is the one with the framehop-unwinder feature, which adds the  *)
(* UNWINDER lock to the locks of the default one.                          *)
(***************************************************************************)
EXTENDS Integers

CONSTANTS Threads,        \* the application's threads
          Sites,          \* where SIGPROF can interrupt: one library per site
          Blocklists,     \* what builders may pass to blocklist()
          Frequencies,    \* what builders may pass to frequency()
          TempFileFails,  \* TRUE: NamedTempFile::new may return an error
          None,           \* no thread, no context, no request
          NoFrames        \* the stack of a sample with no frame at all

ASSUME ConstantsAssumption ==
  /\ Blocklists \subseteq SUBSET Sites
  /\ Frequencies \subseteq Int
  /\ TempFileFails \in BOOLEAN
  /\ None \notin Threads \cup Sites
  /\ None \notin Threads \X {"main", "handler"}
  /\ NoFrames \notin Sites

VARIABLES
  writer,       \* PROFILER lock: the context that holds it for writing
  readers,      \* PROFILER lock: the threads that hold it for reading
  unwWriter,    \* UNWINDER lock: the thread whose handler unwinds
  unwReaders,   \* UNWINDER lock: the threads inside Trace::init
  created,      \* the Lazy PROFILER: "uninit", "ok" or "err"
  unwReady,     \* the Lazy UNWINDER has been initialised
  running,      \* Profiler.running
  blocklist,    \* Profiler.blocklist_segments
  data,         \* Profiler.data: the stacks that have been counted
  action,       \* kernel: the disposition of SIGPROF
  itimer,       \* kernel: ITIMER_PROF is armed
  pending,      \* kernel: a SIGPROF awaits delivery to the process
  alive,        \* kernel: the process has not been killed
  guard,        \* a ProfilerGuard exists (threads may share it or send it)
  asked,        \* history: the blocklist that guard was built with
  pc,           \* the call each thread is in, and where
  req,          \* the builder a thread called build() on
  clear,        \* the argument of a thread's build_and_clear
  sig,          \* where each thread's SIGPROF handler is
  at,           \* the site that handler interrupted
  owed          \* history: stacks sampled since the last clearing report

lockVars    == <<writer, readers, unwWriter, unwReaders>>
profVars    == <<created, unwReady, running, blocklist, data, owed>>
kernelVars  == <<action, itimer, pending, alive>>
callVars    == <<guard, asked, pc, req, clear>>
handlerVars == <<sig, at>>
vars == <<lockVars, profVars, kernelVars, callVars, handlerVars>>

Main(t)    == <<t, "main">>
Handler(t) == <<t, "handler">>
Contexts   == Threads \X {"main", "handler"}
Stacks     == Sites \cup {NoFrames}
Requests   == [freq : Frequencies, blocklist : Blocklists]

WaitingPcs == {"build_write", "report_write", "drop_write"}
MainLocked == {"build_start", "build_timer", "return_guard", "report_read",
               "report_clear", "drop_stop", "drop_init", "unlock"}
ReadLocked == {"lazy_init", "lazy_done", "unres_scan"}
BorrowPcs  == {"report_write", "report_read", "report_clear",
               "unres_read", "unres_scan"}
Pcs == {"idle", "lazy_read", "unres_read", "drop_timer"}
         \cup WaitingPcs \cup MainLocked \cup ReadLocked
HandlerLocked == {"locked", "unwinding", "record_empty"}
Sigs == {"none", "enter"} \cup HandlerLocked

TypeOK ==
  /\ writer \in Contexts \cup {None} /\ readers \subseteq Threads
  /\ unwWriter \in Threads \cup {None} /\ unwReaders \subseteq Threads
  /\ created \in {"uninit", "ok", "err"} /\ unwReady \in BOOLEAN
  /\ running \in BOOLEAN /\ blocklist \subseteq Sites
  /\ data \subseteq Stacks /\ owed \subseteq Stacks
  /\ action \in {"DFL", "IGN", "HANDLER"}
  /\ itimer \in BOOLEAN /\ pending \in BOOLEAN /\ alive \in BOOLEAN
  /\ guard \in BOOLEAN /\ asked \subseteq Sites
  /\ pc \in [Threads -> Pcs]
  /\ req \in [Threads -> Requests \cup {None}]
  /\ clear \in [Threads -> BOOLEAN]
  /\ sig \in [Threads -> Sigs] /\ at \in [Threads -> Sites \cup {None}]

Init ==
  /\ writer = None /\ readers = {} /\ unwWriter = None /\ unwReaders = {}
  /\ created = "uninit" /\ unwReady = FALSE
  /\ running = FALSE /\ blocklist = {} /\ data = {} /\ owed = {}
  /\ action = "DFL" /\ itimer = FALSE /\ pending = FALSE /\ alive = TRUE
  /\ guard = FALSE /\ asked = {}
  /\ pc = [t \in Threads |-> "idle"]
  /\ req = [t \in Threads |-> None]
  /\ clear = [t \in Threads |-> FALSE]
  /\ sig = [t \in Threads |-> "none"]
  /\ at = [t \in Threads |-> None]

-----------------------------------------------------------------------------
(* The two locks.                                                          *)

\* spin::RwLock::write / try_write succeed, for PROFILER
WriteFree == writer = None /\ readers = {}

\* spin::RwLock::try_write succeeds, for UNWINDER
UnwinderFree == unwWriter = None /\ unwReaders = {}

\* The process lives and no handler runs on top of thread t's own code, which
\* stands at p.
At(t, p) == alive /\ sig[t] = "none" /\ pc[t] = p

Goto(t, p) == pc' = [pc EXCEPT ![t] = p]

\* PROFILER.write() returns to one of the three callers that spin in it.
AcquireWrite(t, from, to) ==
  /\ At(t, from)
  /\ WriteFree
  /\ writer' = Main(t)
  /\ Goto(t, to)
  /\ UNCHANGED <<readers, unwWriter, unwReaders, profVars, kernelVars,
                 guard, asked, req, clear, handlerVars>>

\* The write guard is dropped on a path that returns no ProfilerGuard.
Unlock(t) ==
  /\ At(t, "unlock")
  /\ writer' = None
  /\ Goto(t, "idle")
  /\ req' = [req EXCEPT ![t] = None]
  /\ clear' = [clear EXCEPT ![t] = FALSE]
  /\ UNCHANGED <<readers, unwWriter, unwReaders, profVars, kernelVars,
                 guard, asked, handlerVars>>

-----------------------------------------------------------------------------
(* ProfilerGuardBuilder::build                                             *)

BuildCall(t) ==
  /\ At(t, "idle")
  /\ \E r \in Requests : req' = [req EXCEPT ![t] = r]
  /\ Goto(t, "lazy_read")
  /\ UNCHANGED <<lockVars, profVars, kernelVars, guard, asked, clear, handlerVars>>

\* Mutant: `let _ = PROFILER.read()` drops the read guard at once.
LazyReadDropped(t) ==
  /\ At(t, "lazy_read")
  /\ writer = None
  /\ created' = IF created = "uninit" THEN "ok" ELSE created
  /\ Goto(t, "lazy_init")
  /\ UNCHANGED <<lockVars, unwReady, running, blocklist, data, owed,
                 kernelVars, guard, asked, req, clear, handlerVars>>

\* PROFILER.read() in trigger_lazy; the first one runs Profiler::new, and its
\* error stays in the Lazy for good.
LazyRead(t) ==
  /\ At(t, "lazy_read")
  /\ writer = None
  /\ readers' = readers \cup {t}
  /\ \/ created # "uninit" /\ UNCHANGED created
     \/ created = "uninit" /\ created' = "ok"
     \/ created = "uninit" /\ TempFileFails /\ created' = "err"
  /\ Goto(t, "lazy_init")
  /\ UNCHANGED <<writer, unwWriter, unwReaders, unwReady, running, blocklist,
                 data, owed, kernelVars, guard, asked, req, clear, handlerVars>>

\* Mutant: trigger_lazy does not call TraceImpl::init.
LazyInitSkipped(t) ==
  /\ At(t, "lazy_init")
  /\ Goto(t, "lazy_done")
  /\ UNCHANGED <<lockVars, profVars, kernelVars, guard, asked, req, clear, handlerVars>>

\* TraceImpl::init: UNWINDER.read(), inside PROFILER's read lock
LazyInit(t) ==
  /\ At(t, "lazy_init")
  /\ unwWriter = None
  /\ unwReaders' = unwReaders \cup {t}
  /\ unwReady' = TRUE
  /\ Goto(t, "lazy_done")
  /\ UNCHANGED <<writer, readers, unwWriter, created, running, blocklist,
                 data, owed, kernelVars, guard, asked, req, clear, handlerVars>>

LazyDone(t) ==
  /\ At(t, "lazy_done")
  /\ unwReaders' = unwReaders \ {t}
  /\ readers' = readers \ {t}
  /\ Goto(t, "build_write")
  /\ UNCHANGED <<writer, unwWriter, profVars, kernelVars, guard, asked, req,
                 clear, handlerVars>>

\* Mutant: a build while the profiler runs is not refused.
RefusedOnError == created = "err"

\* build() returns CreatingError, or start() returns Running.
Refused == created = "err" \/ running

\* sigaction, which replaces whatever SIG_IGN or handler is there
RegisterSignalHandler == action' = "HANDLER"

\* Under the write lock: the blocklist is assigned before start() looks at
\* `running`, so a refused builder's blocklist stays too.
BuildStart(t) ==
  /\ At(t, "build_start")
  /\ blocklist' = IF created = "err" THEN blocklist ELSE req[t].blocklist
  /\ IF Refused
       THEN /\ Goto(t, "unlock")
            /\ UNCHANGED <<action, running>>
       ELSE /\ RegisterSignalHandler
            /\ running' = TRUE
            /\ Goto(t, "build_timer")
  /\ UNCHANGED <<lockVars, created, unwReady, data, owed, itimer, pending,
                 alive, guard, asked, req, clear, handlerVars>>

\* in microseconds
Second == 1000 * 1000

\* Mutant: the interval is computed in seconds.
IntervalInSeconds(f) == IF f > 0 THEN 1 \div f ELSE 0

\* Timer::new: microseconds between ticks, truncated toward zero
Interval(f) == IF f > 0 THEN Second \div f ELSE 0 - (Second \div (0 - f))

\* setitimer rejects a negative interval (its result is not looked at) and
\* disarms the timer for an interval of 0.
SetItimer(interval) ==
  \/ interval < 0 /\ UNCHANGED itimer
  \/ interval = 0 /\ itimer' = FALSE
  \/ interval > 0 /\ itimer' = TRUE

\* Timer::new, still under the write lock.  Frequency 0 panics, and the
\* unwinding releases the lock.
BuildTimer(t) ==
  /\ At(t, "build_timer")
  /\ \/ /\ req[t].freq = 0
        /\ Goto(t, "unlock")
        /\ UNCHANGED itimer
     \/ /\ req[t].freq # 0
        /\ SetItimer(Interval(req[t].freq))
        /\ Goto(t, "return_guard")
  /\ UNCHANGED <<lockVars, profVars, action, pending, alive, guard, asked,
                 req, clear, handlerVars>>

ReturnGuard(t) ==
  /\ At(t, "return_guard")
  /\ writer' = None
  /\ guard' = TRUE
  /\ asked' = req[t].blocklist
  /\ req' = [req EXCEPT ![t] = None]
  /\ Goto(t, "idle")
  /\ UNCHANGED <<readers, unwWriter, unwReaders, profVars, kernelVars, clear,
                 handlerVars>>

-----------------------------------------------------------------------------
(* ReportBuilder                                                           *)

ReportCall(t) ==
  /\ At(t, "idle")
  /\ guard
  /\ \E c \in BOOLEAN : clear' = [clear EXCEPT ![t] = c]
  /\ Goto(t, "report_write")
  /\ UNCHANGED <<lockVars, profVars, kernelVars, guard, asked, req, handlerVars>>

\* Mutant: the lock is given up between the walk and the clear.
ReportReadUnlocking(t) ==
  /\ At(t, "report_read")
  /\ owed' = IF clear[t] THEN owed \ data ELSE owed
  /\ writer' = None
  /\ Goto(t, IF clear[t] THEN "report_clear" ELSE "unlock")
  /\ UNCHANGED <<readers, unwWriter, unwReaders, created, unwReady, running,
                 blocklist, data, kernelVars, guard, asked, req, clear, handlerVars>>

\* build_and_clear walks the collector; what it saw has been handed over.
ReportRead(t) ==
  /\ At(t, "report_read")
  /\ owed' = IF clear[t] THEN owed \ data ELSE owed
  /\ Goto(t, IF clear[t] THEN "report_clear" ELSE "unlock")
  /\ UNCHANGED <<lockVars, created, unwReady, running, blocklist, data,
                 kernelVars, guard, asked, req, clear, handlerVars>>

\* Profiler::clear, under the same write lock
ReportClear(t) ==
  /\ At(t, "report_clear")
  /\ data' = IF running THEN {} ELSE data
  /\ Goto(t, "unlock")
  /\ UNCHANGED <<lockVars, created, unwReady, running, blocklist, owed,
                 kernelVars, guard, asked, req, clear, handlerVars>>

UnresolvedCall(t) ==
  /\ At(t, "idle")
  /\ guard
  /\ Goto(t, "unres_read")
  /\ UNCHANGED <<lockVars, profVars, kernelVars, guard, asked, req, clear, handlerVars>>

UnresolvedRead(t) ==
  /\ At(t, "unres_read")
  /\ writer = None
  /\ readers' = readers \cup {t}
  /\ Goto(t, "unres_scan")
  /\ UNCHANGED <<writer, unwWriter, unwReaders, profVars, kernelVars, guard,
                 asked, req, clear, handlerVars>>

UnresolvedDone(t) ==
  /\ At(t, "unres_scan")
  /\ readers' = readers \ {t}
  /\ Goto(t, "idle")
  /\ UNCHANGED <<writer, unwWriter, unwReaders, profVars, kernelVars, guard,
                 asked, req, clear, handlerVars>>

-----------------------------------------------------------------------------
(* Drop for ProfilerGuard                                                  *)

\* The borrow checker lets the guard go once no ReportBuilder borrows it.
DropCall(t) ==
  /\ At(t, "idle")
  /\ guard
  /\ \A u \in Threads : pc[u] \notin BorrowPcs
  /\ guard' = FALSE
  /\ asked' = {}
  /\ Goto(t, "drop_timer")
  /\ UNCHANGED <<lockVars, profVars, kernelVars, req, clear, handlerVars>>

\* Mutant: the timer is left armed while drop waits for the lock.
DropTimerKept(t) ==
  /\ At(t, "drop_timer")
  /\ Goto(t, "drop_write")
  /\ UNCHANGED <<lockVars, profVars, kernelVars, guard, asked, req, clear, handlerVars>>

\* Drop for Timer, before PROFILER.write()
DropTimer(t) ==
  /\ At(t, "drop_timer")
  /\ SetItimer(0)
  /\ Goto(t, "drop_write")
  /\ UNCHANGED <<lockVars, profVars, action, pending, alive, guard, asked,
                 req, clear, handlerVars>>

\* Mutant: the default disposition is restored, as before issue 288.
RestoredAction == "DFL"

\* What unregister_signal_handler leaves installed
StoppedAction == "IGN"

\* Profiler::stop: the kernel forgets a pending signal when its disposition
\* becomes SIG_IGN.
DropStop(t) ==
  /\ At(t, "drop_stop")
  /\ IF running
       THEN /\ action' = StoppedAction
            /\ pending' = (pending /\ StoppedAction # "IGN")
            /\ Goto(t, "drop_init")
       ELSE /\ Goto(t, "unlock")
            /\ UNCHANGED <<action, pending>>
  /\ UNCHANGED <<lockVars, profVars, itimer, alive, guard, asked, req, clear,
                 handlerVars>>

\* Mutant: init() does not reset `running`.
DropInitStillRunning(t) ==
  /\ At(t, "drop_init")
  /\ data' = {} /\ owed' = {}
  /\ Goto(t, "unlock")
  /\ UNCHANGED <<lockVars, created, unwReady, running, blocklist, kernelVars,
                 guard, asked, req, clear, handlerVars>>

\* Profiler::init: a failing Collector::new leaves `running` and the old
\* collector as they were, and drop only logs the error.
DropInit(t) ==
  /\ At(t, "drop_init")
  /\ \/ data' = {} /\ owed' = {} /\ running' = FALSE
     \/ TempFileFails /\ UNCHANGED <<data, owed, running>>
  /\ Goto(t, "unlock")
  /\ UNCHANGED <<lockVars, created, unwReady, blocklist, kernelVars, guard,
                 asked, req, clear, handlerVars>>

-----------------------------------------------------------------------------
(* The kernel: ITIMER_PROF expires, and SIGPROF interrupts some thread     *)
(* that is not already in the handler (the signal is masked there).        *)

Tick ==
  /\ alive
  /\ itimer
  /\ pending' = (action # "IGN")
  /\ UNCHANGED <<lockVars, profVars, action, itimer, alive, callVars, handlerVars>>

Deliver(t) ==
  /\ alive
  /\ pending
  /\ sig[t] = "none"
  /\ pending' = FALSE
  /\ \/ /\ action = "HANDLER"
        /\ sig' = [sig EXCEPT ![t] = "enter"]
        /\ \E s \in Sites : at' = [at EXCEPT ![t] = s]
        /\ UNCHANGED alive
     \/ /\ action = "DFL"
        /\ alive' = FALSE
        /\ UNCHANGED handlerVars
  /\ UNCHANGED <<lockVars, profVars, action, itimer, callVars>>

-----------------------------------------------------------------------------
(* perf_signal_handler, on top of thread t                                 *)

InHandler(t, s) == alive /\ sig[t] = s

Return(t) ==
  /\ sig' = [sig EXCEPT ![t] = "none"]
  /\ at' = [at EXCEPT ![t] = None]

\* Mutant: the handler spins for the lock.
HandlerWrite(t) ==
  /\ InHandler(t, "enter")
  /\ WriteFree
  /\ writer' = Handler(t)
  /\ sig' = [sig EXCEPT ![t] = "locked"]
  /\ UNCHANGED <<readers, unwWriter, unwReaders, profVars, kernelVars, callVars, at>>

\* PROFILER.try_write(): a sample that finds the lock taken is given up.
HandlerTryWrite(t) ==
  /\ InHandler(t, "enter")
  /\ \/ /\ WriteFree
        /\ writer' = Handler(t)
        /\ sig' = [sig EXCEPT ![t] = "locked"]
        /\ UNCHANGED at
     \/ /\ ~WriteFree
        /\ Return(t)
        /\ UNCHANGED writer
  /\ UNCHANGED <<readers, unwWriter, unwReaders, profVars, kernelVars, callVars>>

\* Mutant: the comparison is inverted.
IsListedOutside(site) == site \notin blocklist

\* Profiler::is_blocklisted of the interrupted instruction
IsBlocklisted(site) == site \in blocklist

\* Nothing is recorded for a blocklisted instruction, nor without a Profiler.
HandlerSkip(t) ==
  /\ InHandler(t, "locked")
  /\ created = "err" \/ IsBlocklisted(at[t])
  /\ writer' = None
  /\ Return(t)
  /\ UNCHANGED <<readers, unwWriter, unwReaders, profVars, kernelVars, callVars>>

\* TraceImpl::trace: without the UNWINDER lock it returns no frame.
HandlerTrace(t) ==
  /\ InHandler(t, "locked")
  /\ created # "err" /\ ~IsBlocklisted(at[t])
  /\ \/ /\ UnwinderFree
        /\ unwWriter' = t
        /\ sig' = [sig EXCEPT ![t] = "unwinding"]
     \/ /\ ~UnwinderFree
        /\ sig' = [sig EXCEPT ![t] = "record_empty"]
        /\ UNCHANGED unwWriter
  /\ UNCHANGED <<writer, readers, unwReaders, profVars, kernelVars, callVars, at>>

\* Mutant: the stack is read after the handler has let go of it.
StackAfterReturn(t) == None

\* The backtrace the sample is stored under
SampledStack(t) == IF sig[t] = "unwinding" THEN at[t] ELSE NoFrames

\* Profiler::sample, then both locks are released.
HandlerRecord(t) ==
  /\ InHandler(t, "unwinding") \/ InHandler(t, "record_empty")
  /\ data' = data \cup {SampledStack(t)}
  /\ owed' = owed \cup {SampledStack(t)}
  /\ unwWriter' = IF sig[t] = "unwinding" THEN None ELSE unwWriter
  /\ writer' = None
  /\ Return(t)
  /\ UNCHANGED <<readers, unwReaders, created, unwReady, running, blocklist,
                 kernelVars, callVars>>

-----------------------------------------------------------------------------
\* A thread starts a call.
Call(t) == BuildCall(t) \/ ReportCall(t) \/ UnresolvedCall(t) \/ DropCall(t)

\* A call goes on.
Step(t) ==
  \/ AcquireWrite(t, "build_write", "build_start")
  \/ AcquireWrite(t, "report_write", "report_read")
  \/ AcquireWrite(t, "drop_write", "drop_stop")
  \/ LazyRead(t) \/ LazyInit(t) \/ LazyDone(t)
  \/ BuildStart(t) \/ BuildTimer(t) \/ ReturnGuard(t)
  \/ ReportRead(t) \/ ReportClear(t) \/ UnresolvedRead(t) \/ UnresolvedDone(t)
  \/ DropTimer(t) \/ DropStop(t) \/ DropInit(t) \/ Unlock(t)

\* The handler goes on.
HandlerStep(t) ==
  \/ HandlerTryWrite(t) \/ HandlerSkip(t)
  \/ HandlerTrace(t) \/ HandlerRecord(t)

Next == Tick \/ \E t \in Threads : Call(t) \/ Step(t) \/ Deliver(t) \/ HandlerStep(t)

Spec == Init /\ [][Next]_vars

-----------------------------------------------------------------------------
(* Properties                                                              *)

\* The code that touches the Profiler behind &mut: never two contexts at once,
\* and never with a reader (PROFILER.write / try_write / read).
InWrite(c) == \E t \in Threads :
                \/ c = Main(t) /\ pc[t] \in MainLocked
                \/ c = Handler(t) /\ sig[t] \in HandlerLocked
InRead(t) == pc[t] \in ReadLocked

\* Whoever uses the Profiler for writing is alone in it: the handler that
\* interrupts a report, a build or a drop never mutates what they look at.
Exclusion ==
  \A c \in Contexts : InWrite(c) =>
    /\ \A d \in Contexts : InWrite(d) => c = d
    /\ \A t \in Threads : ~InRead(t)

\* The handler never runs the initialisers of PROFILER and UNWINDER, which
\* allocate and take locks: trigger_lazy has run before it is installed.
HandlerFindsInitialised ==
  \A t \in Threads : sig[t] # "none" => created = "ok" /\ unwReady

\* The handler's try_write on UNWINDER always succeeds, so no sample is stored
\* without frames: Trace::init reads UNWINDER only under PROFILER's read lock.
UnwinderUncontended ==
  /\ NoFrames \notin data
  /\ \A t \in Threads : sig[t] # "record_empty"

\* A SIGPROF that is still in flight when profiling stops never kills the
\* process (issue 288, which unregister_signal_handler's comment describes).
NeverKilled == alive

\* The timer is armed only while the handler is installed and the session is
\* on: Drop disarms it before it gives up the handler.
TimerOnlyWhileRunning == itimer => running /\ action = "HANDLER"

\* The contexts of a session: the guard, a build about to return it, a drop.
SessionPcs == {"build_timer", "return_guard", "drop_timer", "drop_write",
               "drop_stop", "drop_init"}
InSession(t) == pc[t] \in SessionPcs

\* At most one session exists, and as long as it does the profiler runs: a
\* build that races another build, or a drop, is refused.
OneSession ==
  /\ \A t, u \in Threads : InSession(t) /\ InSession(u) => t = u
  /\ guard => \A t \in Threads : ~InSession(t)
  /\ guard \/ (\E t \in Threads : InSession(t)) => running

\* A sample recorded in a session is in the collector until a clearing report
\* has read it: none falls between build_and_clear's read and its clear.
NoSampleLost ==
  /\ owed \subseteq data
  /\ \A t \in Threads : pc[t] = "report_clear" => owed = {}

\* A guard never reports a sample from a library it was told to leave alone.
BlocklistHonoured == guard => data \cap asked = {}

\* The profiler runs only for a guard that somebody holds, is being handed or
\* is dropping: otherwise no later build could ever succeed.
RunningHasOwner == running => guard \/ \E t \in Threads : InSession(t)

\* A profiler that is not running holds no sample: nothing is sampled between
\* two sessions, and a session starts empty.
QuietWhenStopped == ~running => data = {}

\* The guard of a frequency from 1 to 1000000 has its timer armed, whatever an
\* earlier session's drop does.
GuardTicks == guard => itimer

-----------------------------------------------------------------------------
(* The life cycle as a whole                                               *)

StartPcs == {"build_timer", "return_guard"}
EndPcs   == {"drop_timer", "drop_write", "drop_stop", "drop_init"}

Phase ==
  CASE guard -> "held"
    [] ~guard /\ \E t \in Threads : pc[t] \in StartPcs -> "starting"
    [] ~guard /\ \E t \in Threads : pc[t] \in EndPcs -> "ending"
    [] OTHER -> IF running THEN "lost" ELSE "stopped"

Owner == IF \E t \in Threads : InSession(t)
           THEN CHOOSE t \in Threads : InSession(t) ELSE None

Life == INSTANCE Session WITH
          phase <- Phase, owner <- Owner, armed <- itimer,
          MayLose <- TempFileFails \/ 0 \in Frequencies

\* Profiler implements Session: whichever threads race to build, report and
\* drop, sessions follow each other, each one begun, handed out and ended by
\* one thread at a time, and the timer ticks only within one.  The profiler is
\* lost only if a frequency is 0 or a temporary file cannot be made.
SessionImplemented == Life!SessionSpec
=============================================================================
