--------------------------- MODULE ProfilerProofs ---------------------------
(***************************************************************************)
(* Proofs about Profiler, for any number of threads, any sites, blocklists *)
(* and frequencies, and whether or not temporary files can be made.        *)
(*                                                                         *)
(* The inductive invariant is a conjunction of parts, each preserved by    *)
(* every step under the parts before it:                                   *)
(*   TypeOK, BuilderKept, SiteKept  what each variable may hold;           *)
(*   LockInv      who holds PROFILER is told by where each thread and each *)
(*                handler stands;                                          *)
(*   UnwinderInv  the same for UNWINDER, inside PROFILER's locks;          *)
(*   ReadyInv     the handler is installed only after both lazies;         *)
(*   SessionInv   one session, running, with its handler installed, and an *)
(*                armed timer or a pending signal only within it;          *)
(*   NoSampleLost what the collector still owes to a clearing report.      *)
(*                                                                         *)
(* SessionInv also tells the phase of the abstract Session (Placed), which *)
(* the refinement rests on.  TickInv and ListInv strengthen it for         *)
(* frequencies that tick and for builders that name one blocklist.         *)
(***************************************************************************)
EXTENDS Profiler, TLAPS

\* Where a thread's build() still reads its builder
BuildPcs == {"lazy_read", "lazy_init", "lazy_done", "build_write",
             "build_start", "build_timer", "return_guard"}
BuilderKept == \A t \in Threads : pc[t] \in BuildPcs => req[t] \in Requests

SiteKept == \A t \in Threads : sig[t] # "none" => at[t] \in Sites

LockInv ==
  /\ \A t \in Threads : pc[t] \in MainLocked <=> writer = Main(t)
  /\ \A t \in Threads : sig[t] \in HandlerLocked <=> writer = Handler(t)
  /\ \A t \in Threads : pc[t] \in ReadLocked <=> t \in readers
  /\ writer # None => readers = {}

UnwinderInv ==
  /\ \A t \in Threads : pc[t] = "lazy_done" <=> t \in unwReaders
  /\ \A t \in Threads : sig[t] = "unwinding" <=> unwWriter = t
  /\ UnwinderUncontended

ReadyInv ==
  /\ running => action # "DFL"
  /\ action # "DFL" => created = "ok" /\ unwReady
  /\ \A t \in Threads : pc[t] = "lazy_init" => created # "uninit"
  /\ \A t \in Threads : pc[t] \in {"lazy_done", "build_write", "build_start"}
                          => created # "uninit" /\ unwReady
  /\ HandlerFindsInitialised

SessionInv ==
  /\ OneSession
  /\ guard \/ (\E t \in Threads : InSession(t) /\ pc[t] # "drop_init")
       => action = "HANDLER"
  /\ itimer => guard \/ \E t \in Threads : pc[t] \in {"return_guard", "drop_timer"}
  /\ pending => action = "HANDLER"
  /\ NeverKilled

IInv == /\ TypeOK /\ BuilderKept /\ SiteKept
        /\ LockInv /\ UnwinderInv /\ ReadyInv /\ SessionInv /\ NoSampleLost

-----------------------------------------------------------------------------
(* Types                                                                   *)

\* Every step keeps the types: what is assigned from a builder or recorded from
\* an interrupted site is in range because of BuilderKept and SiteKept.
LEMMA TypeStep ==
  TypeOK /\ BuilderKept /\ SiteKept /\ [Next]_vars => TypeOK'
<1> SUFFICES ASSUME TypeOK, BuilderKept, SiteKept, [Next]_vars
             PROVE  TypeOK'
  OBVIOUS
<1> USE DEF TypeOK
<1>1. CASE UNCHANGED vars
  BY <1>1 DEF vars, lockVars, profVars, kernelVars,
          callVars, handlerVars
<1>2. CASE Tick
  BY <1>2 DEF Tick, lockVars, profVars, callVars, handlerVars
<1>3. ASSUME NEW t \in Threads,
             Call(t) \/ Step(t) \/ Deliver(t) \/ HandlerStep(t)
      PROVE  TypeOK'
  <2>1. CASE AcquireWrite(t, "build_write", "build_start")
    BY <2>1 DEF AcquireWrite, At, Goto, WriteFree, profVars, kernelVars,
          handlerVars, Pcs, MainLocked, Contexts, Main
  <2>2. CASE AcquireWrite(t, "report_write", "report_read")
    BY <2>2 DEF AcquireWrite, At, Goto, WriteFree, profVars, kernelVars,
          handlerVars, Pcs, MainLocked, Contexts, Main
  <2>3. CASE AcquireWrite(t, "drop_write", "drop_stop")
    BY <2>3 DEF AcquireWrite, At, Goto, WriteFree, profVars, kernelVars,
          handlerVars, Pcs, MainLocked, Contexts, Main
  <2>4. CASE Unlock(t)
    BY <2>4 DEF Unlock, At, Goto, profVars, kernelVars, handlerVars, Pcs
  <2>5. CASE BuildCall(t)
    BY <2>5 DEF BuildCall, At, Goto, lockVars, profVars, kernelVars,
          handlerVars, Pcs
  <2>6. CASE LazyRead(t)
    BY <2>6 DEF LazyRead, At, Goto, kernelVars, handlerVars, Pcs, ReadLocked
  <2>7. CASE LazyInit(t)
    BY <2>7 DEF LazyInit, At, Goto, kernelVars, handlerVars, Pcs, ReadLocked
  <2>8. CASE LazyDone(t)
    BY <2>8 DEF LazyDone, At, Goto, profVars, kernelVars, handlerVars, Pcs,
          WaitingPcs
  <2>9. CASE BuildStart(t)
    <3>1. blocklist' \subseteq Sites
      BY <2>9, ConstantsAssumption
      DEF BuildStart, At, BuilderKept, BuildPcs, Requests
    <3>2. action' \in {"DFL", "IGN", "HANDLER"}
      BY <2>9 DEF BuildStart, RegisterSignalHandler
    <3>3. running' \in BOOLEAN
      BY <2>9 DEF BuildStart
    <3>4. pc' \in [Threads -> Pcs]
      BY <2>9 DEF BuildStart, Goto, Pcs, MainLocked
    <3> QED
      BY <2>9, <3>1, <3>2, <3>3, <3>4 DEF BuildStart, lockVars, handlerVars
  <2>10. CASE BuildTimer(t)
    <3>1. itimer' \in BOOLEAN
      BY <2>10 DEF BuildTimer, SetItimer
    <3>2. pc' \in [Threads -> Pcs]
      BY <2>10 DEF BuildTimer, Goto, Pcs, MainLocked
    <3> QED
      BY <2>10, <3>1, <3>2 DEF BuildTimer, lockVars, profVars, handlerVars
  <2>11. CASE ReturnGuard(t)
    BY <2>11, ConstantsAssumption DEF ReturnGuard, At, Goto, profVars,
          kernelVars, handlerVars, Pcs, BuilderKept, BuildPcs, Requests
  <2>12. CASE ReportCall(t)
    BY <2>12 DEF ReportCall, At, Goto, lockVars, profVars, kernelVars,
          handlerVars, Pcs, WaitingPcs
  <2>13. CASE ReportRead(t)
    BY <2>13 DEF ReportRead, At, Goto, lockVars, kernelVars, handlerVars, Pcs,
          MainLocked
  <2>14. CASE ReportClear(t)
    BY <2>14 DEF ReportClear, At, Goto, lockVars, kernelVars, handlerVars, Pcs,
          MainLocked
  <2>15. CASE UnresolvedCall(t)
    BY <2>15 DEF UnresolvedCall, At, Goto, lockVars, profVars, kernelVars,
          handlerVars, Pcs
  <2>16. CASE UnresolvedRead(t)
    BY <2>16 DEF UnresolvedRead, At, Goto, profVars, kernelVars, handlerVars,
          Pcs, ReadLocked
  <2>17. CASE UnresolvedDone(t)
    BY <2>17 DEF UnresolvedDone, At, Goto, profVars, kernelVars, handlerVars,
          Pcs
  <2>18. CASE DropCall(t)
    BY <2>18 DEF DropCall, At, Goto, lockVars, profVars, kernelVars,
          handlerVars, Pcs
  <2>19. CASE DropTimer(t)
    <3>1. itimer' \in BOOLEAN
      BY <2>19 DEF DropTimer, SetItimer
    <3>2. pc' \in [Threads -> Pcs]
      BY <2>19 DEF DropTimer, Goto, Pcs, WaitingPcs
    <3> QED
      BY <2>19, <3>1, <3>2 DEF DropTimer, lockVars, profVars, handlerVars
  <2>20. CASE DropStop(t)
    <3>1. action' \in {"DFL", "IGN", "HANDLER"} /\ pending' \in BOOLEAN
      BY <2>20 DEF DropStop, StoppedAction
    <3>2. pc' \in [Threads -> Pcs]
      BY <2>20 DEF DropStop, Goto, Pcs, MainLocked
    <3> QED
      BY <2>20, <3>1, <3>2 DEF DropStop, lockVars, profVars, handlerVars
  <2>21. CASE DropInit(t)
    <3>1. data' \subseteq Stacks /\ owed' \subseteq Stacks /\ running' \in BOOLEAN
      BY <2>21 DEF DropInit
    <3>2. pc' \in [Threads -> Pcs]
      BY <2>21 DEF DropInit, Goto, Pcs, MainLocked
    <3> QED
      BY <2>21, <3>1, <3>2 DEF DropInit, lockVars, kernelVars, handlerVars
  <2>22. CASE Deliver(t)
    <3>1. sig' \in [Threads -> Sigs] /\ at' \in [Threads -> Sites \cup {None}]
      BY <2>22 DEF Deliver, Sigs, handlerVars
    <3>2. pending' \in BOOLEAN /\ alive' \in BOOLEAN
      BY <2>22 DEF Deliver
    <3> QED
      BY <2>22, <3>1, <3>2 DEF Deliver, lockVars, profVars, callVars
  <2>23. CASE HandlerTryWrite(t)
    BY <2>23 DEF HandlerTryWrite, InHandler, WriteFree, Return, profVars,
          kernelVars, callVars, Contexts, Handler, Sigs, HandlerLocked
  <2>24. CASE HandlerSkip(t)
    BY <2>24 DEF HandlerSkip, InHandler, Return, IsBlocklisted, profVars,
          kernelVars, callVars, Sigs
  <2>25. CASE HandlerTrace(t)
    BY <2>25 DEF HandlerTrace, InHandler, UnwinderFree, IsBlocklisted,
          profVars, kernelVars, callVars, Sigs, HandlerLocked
  <2>26. CASE HandlerRecord(t)
    BY <2>26 DEF HandlerRecord, InHandler, Return, SampledStack, kernelVars,
          callVars, Sigs, Stacks, SiteKept
  <2> QED
    BY <1>3, <2>1, <2>2, <2>3, <2>4, <2>5, <2>6, <2>7, <2>8, <2>9, <2>10,
          <2>11, <2>12, <2>13, <2>14, <2>15, <2>16, <2>17, <2>18, <2>19, <2>20,
          <2>21, <2>22, <2>23, <2>24, <2>25, <2>26
    DEF Call, Step, HandlerStep
<1> QED
  BY <1>1, <1>2, <1>3 DEF Next

\* A builder is set when build() is called and kept until the call is over.
LEMMA BuilderStep ==
  TypeOK /\ BuilderKept /\ [Next]_vars => BuilderKept'
<1> SUFFICES ASSUME TypeOK, BuilderKept, [Next]_vars
             PROVE  BuilderKept'
  OBVIOUS
<1> USE DEF TypeOK, BuilderKept, BuildPcs
<1>1. CASE UNCHANGED vars
  BY <1>1 DEF vars, lockVars, profVars, kernelVars,
          callVars, handlerVars
<1>2. CASE Tick
  BY <1>2 DEF Tick, lockVars, profVars, callVars, handlerVars
<1>3. ASSUME NEW t \in Threads,
             Call(t) \/ Step(t) \/ Deliver(t) \/ HandlerStep(t)
      PROVE  BuilderKept'
  <2>1. CASE AcquireWrite(t, "build_write", "build_start")
    BY <2>1 DEF AcquireWrite, At, Goto, WriteFree, profVars, kernelVars,
          handlerVars
  <2>2. CASE AcquireWrite(t, "report_write", "report_read")
    BY <2>2 DEF AcquireWrite, At, Goto, WriteFree, profVars, kernelVars,
          handlerVars
  <2>3. CASE AcquireWrite(t, "drop_write", "drop_stop")
    BY <2>3 DEF AcquireWrite, At, Goto, WriteFree, profVars, kernelVars,
          handlerVars
  <2>4. CASE Unlock(t)
    BY <2>4 DEF Unlock, At, Goto, profVars, kernelVars, handlerVars
  <2>5. CASE BuildCall(t)
    BY <2>5 DEF BuildCall, At, Goto, lockVars, profVars, kernelVars,
          handlerVars
  <2>6. CASE LazyRead(t)
    BY <2>6 DEF LazyRead, At, Goto, kernelVars, handlerVars
  <2>7. CASE LazyInit(t)
    BY <2>7 DEF LazyInit, At, Goto, kernelVars, handlerVars
  <2>8. CASE LazyDone(t)
    BY <2>8 DEF LazyDone, At, Goto, profVars, kernelVars, handlerVars
  <2>9. CASE BuildStart(t)
    BY <2>9 DEF BuildStart, At, Goto, Refused, RegisterSignalHandler, lockVars,
          handlerVars
  <2>10. CASE BuildTimer(t)
    BY <2>10 DEF BuildTimer, At, Goto, lockVars, profVars, handlerVars
  <2>11. CASE ReturnGuard(t)
    BY <2>11 DEF ReturnGuard, At, Goto, profVars, kernelVars, handlerVars
  <2>12. CASE ReportCall(t)
    BY <2>12 DEF ReportCall, At, Goto, lockVars, profVars, kernelVars,
          handlerVars
  <2>13. CASE ReportRead(t)
    BY <2>13 DEF ReportRead, At, Goto, lockVars, kernelVars, handlerVars
  <2>14. CASE ReportClear(t)
    BY <2>14 DEF ReportClear, At, Goto, lockVars, kernelVars, handlerVars
  <2>15. CASE UnresolvedCall(t)
    BY <2>15 DEF UnresolvedCall, At, Goto, lockVars, profVars, kernelVars,
          handlerVars
  <2>16. CASE UnresolvedRead(t)
    BY <2>16 DEF UnresolvedRead, At, Goto, profVars, kernelVars, handlerVars
  <2>17. CASE UnresolvedDone(t)
    BY <2>17 DEF UnresolvedDone, At, Goto, profVars, kernelVars, handlerVars
  <2>18. CASE DropCall(t)
    BY <2>18 DEF DropCall, At, Goto, lockVars, profVars, kernelVars,
          handlerVars
  <2>19. CASE DropTimer(t)
    BY <2>19 DEF DropTimer, At, Goto, SetItimer, lockVars, profVars,
          handlerVars
  <2>20. CASE DropStop(t)
    BY <2>20 DEF DropStop, At, Goto, StoppedAction, lockVars, profVars,
          handlerVars
  <2>21. CASE DropInit(t)
    BY <2>21 DEF DropInit, At, Goto, lockVars, kernelVars, handlerVars
  <2>22. CASE Deliver(t)
    BY <2>22 DEF Deliver, lockVars, profVars, callVars, handlerVars
  <2>23. CASE HandlerTryWrite(t)
    BY <2>23 DEF HandlerTryWrite, InHandler, WriteFree, Return, profVars,
          kernelVars, callVars
  <2>24. CASE HandlerSkip(t)
    BY <2>24 DEF HandlerSkip, InHandler, Return, IsBlocklisted, profVars,
          kernelVars, callVars
  <2>25. CASE HandlerTrace(t)
    BY <2>25 DEF HandlerTrace, InHandler, UnwinderFree, IsBlocklisted,
          profVars, kernelVars, callVars
  <2>26. CASE HandlerRecord(t)
    BY <2>26 DEF HandlerRecord, InHandler, Return, SampledStack, kernelVars,
          callVars
  <2> QED
    BY <1>3, <2>1, <2>2, <2>3, <2>4, <2>5, <2>6, <2>7, <2>8, <2>9, <2>10,
          <2>11, <2>12, <2>13, <2>14, <2>15, <2>16, <2>17, <2>18, <2>19, <2>20,
          <2>21, <2>22, <2>23, <2>24, <2>25, <2>26
    DEF Call, Step, HandlerStep
<1> QED
  BY <1>1, <1>2, <1>3 DEF Next

\* A handler's interrupted site is set on entry and kept until it returns.
LEMMA SiteStep ==
  TypeOK /\ SiteKept /\ [Next]_vars => SiteKept'
<1> SUFFICES ASSUME TypeOK, SiteKept, [Next]_vars
             PROVE  SiteKept'
  OBVIOUS
<1> USE DEF TypeOK, SiteKept
<1>1. CASE UNCHANGED vars
  BY <1>1 DEF vars, lockVars, profVars, kernelVars,
          callVars, handlerVars
<1>2. CASE Tick
  BY <1>2 DEF Tick, lockVars, profVars, callVars, handlerVars
<1>3. ASSUME NEW t \in Threads,
             Call(t) \/ Step(t) \/ Deliver(t) \/ HandlerStep(t)
      PROVE  SiteKept'
  <2>1. CASE AcquireWrite(t, "build_write", "build_start")
    BY <2>1 DEF AcquireWrite, At, Goto, WriteFree, profVars, kernelVars,
          handlerVars
  <2>2. CASE AcquireWrite(t, "report_write", "report_read")
    BY <2>2 DEF AcquireWrite, At, Goto, WriteFree, profVars, kernelVars,
          handlerVars
  <2>3. CASE AcquireWrite(t, "drop_write", "drop_stop")
    BY <2>3 DEF AcquireWrite, At, Goto, WriteFree, profVars, kernelVars,
          handlerVars
  <2>4. CASE Unlock(t)
    BY <2>4 DEF Unlock, At, Goto, profVars, kernelVars, handlerVars
  <2>5. CASE BuildCall(t)
    BY <2>5 DEF BuildCall, At, Goto, lockVars, profVars, kernelVars,
          handlerVars
  <2>6. CASE LazyRead(t)
    BY <2>6 DEF LazyRead, At, Goto, kernelVars, handlerVars
  <2>7. CASE LazyInit(t)
    BY <2>7 DEF LazyInit, At, Goto, kernelVars, handlerVars
  <2>8. CASE LazyDone(t)
    BY <2>8 DEF LazyDone, At, Goto, profVars, kernelVars, handlerVars
  <2>9. CASE BuildStart(t)
    BY <2>9 DEF BuildStart, At, Goto, Refused, RegisterSignalHandler, lockVars,
          handlerVars
  <2>10. CASE BuildTimer(t)
    BY <2>10 DEF BuildTimer, At, Goto, lockVars, profVars, handlerVars
  <2>11. CASE ReturnGuard(t)
    BY <2>11 DEF ReturnGuard, At, Goto, profVars, kernelVars, handlerVars
  <2>12. CASE ReportCall(t)
    BY <2>12 DEF ReportCall, At, Goto, lockVars, profVars, kernelVars,
          handlerVars
  <2>13. CASE ReportRead(t)
    BY <2>13 DEF ReportRead, At, Goto, lockVars, kernelVars, handlerVars
  <2>14. CASE ReportClear(t)
    BY <2>14 DEF ReportClear, At, Goto, lockVars, kernelVars, handlerVars
  <2>15. CASE UnresolvedCall(t)
    BY <2>15 DEF UnresolvedCall, At, Goto, lockVars, profVars, kernelVars,
          handlerVars
  <2>16. CASE UnresolvedRead(t)
    BY <2>16 DEF UnresolvedRead, At, Goto, profVars, kernelVars, handlerVars
  <2>17. CASE UnresolvedDone(t)
    BY <2>17 DEF UnresolvedDone, At, Goto, profVars, kernelVars, handlerVars
  <2>18. CASE DropCall(t)
    BY <2>18 DEF DropCall, At, Goto, lockVars, profVars, kernelVars,
          handlerVars
  <2>19. CASE DropTimer(t)
    BY <2>19 DEF DropTimer, At, Goto, SetItimer, lockVars, profVars,
          handlerVars
  <2>20. CASE DropStop(t)
    BY <2>20 DEF DropStop, At, Goto, StoppedAction, lockVars, profVars,
          handlerVars
  <2>21. CASE DropInit(t)
    BY <2>21 DEF DropInit, At, Goto, lockVars, kernelVars, handlerVars
  <2>22. CASE Deliver(t)
    BY <2>22 DEF Deliver, lockVars, profVars, callVars, handlerVars
  <2>23. CASE HandlerTryWrite(t)
    BY <2>23 DEF HandlerTryWrite, InHandler, WriteFree, Return, profVars,
          kernelVars, callVars
  <2>24. CASE HandlerSkip(t)
    BY <2>24 DEF HandlerSkip, InHandler, Return, IsBlocklisted, profVars,
          kernelVars, callVars
  <2>25. CASE HandlerTrace(t)
    BY <2>25 DEF HandlerTrace, InHandler, UnwinderFree, IsBlocklisted,
          profVars, kernelVars, callVars
  <2>26. CASE HandlerRecord(t)
    BY <2>26 DEF HandlerRecord, InHandler, Return, SampledStack, kernelVars,
          callVars
  <2> QED
    BY <1>3, <2>1, <2>2, <2>3, <2>4, <2>5, <2>6, <2>7, <2>8, <2>9, <2>10,
          <2>11, <2>12, <2>13, <2>14, <2>15, <2>16, <2>17, <2>18, <2>19, <2>20,
          <2>21, <2>22, <2>23, <2>24, <2>25, <2>26
    DEF Call, Step, HandlerStep
<1> QED
  BY <1>1, <1>2, <1>3 DEF Next

-----------------------------------------------------------------------------
(* The locks                                                               *)

\* Who may enter each section is what spin's RwLock lets in, and each section
\* gives up exactly what it took.
LEMMA LockStep ==
  TypeOK /\ LockInv /\ [Next]_vars => LockInv'
<1> SUFFICES ASSUME TypeOK, LockInv, [Next]_vars
             PROVE  LockInv'
  OBVIOUS
<1> USE ConstantsAssumption DEF TypeOK, LockInv, MainLocked, ReadLocked,
          HandlerLocked, Main, Handler
<1>1. CASE UNCHANGED vars
  BY <1>1 DEF vars, lockVars, profVars, kernelVars,
          callVars, handlerVars
<1>2. CASE Tick
  BY <1>2 DEF Tick, lockVars, profVars, callVars, handlerVars
<1>3. ASSUME NEW t \in Threads,
             Call(t) \/ Step(t) \/ Deliver(t) \/ HandlerStep(t)
      PROVE  LockInv'
  <2>1. CASE AcquireWrite(t, "build_write", "build_start")
    BY <2>1 DEF AcquireWrite, At, Goto, WriteFree, profVars, kernelVars,
          handlerVars
  <2>2. CASE AcquireWrite(t, "report_write", "report_read")
    BY <2>2 DEF AcquireWrite, At, Goto, WriteFree, profVars, kernelVars,
          handlerVars
  <2>3. CASE AcquireWrite(t, "drop_write", "drop_stop")
    BY <2>3 DEF AcquireWrite, At, Goto, WriteFree, profVars, kernelVars,
          handlerVars
  <2>4. CASE Unlock(t)
    BY <2>4 DEF Unlock, At, Goto, profVars, kernelVars, handlerVars
  <2>5. CASE BuildCall(t)
    BY <2>5 DEF BuildCall, At, Goto, lockVars, profVars, kernelVars,
          handlerVars
  <2>6. CASE LazyRead(t)
    BY <2>6 DEF LazyRead, At, Goto, kernelVars, handlerVars
  <2>7. CASE LazyInit(t)
    BY <2>7 DEF LazyInit, At, Goto, kernelVars, handlerVars
  <2>8. CASE LazyDone(t)
    BY <2>8 DEF LazyDone, At, Goto, profVars, kernelVars, handlerVars
  <2>9. CASE BuildStart(t)
    BY <2>9 DEF BuildStart, At, Goto, Refused, RegisterSignalHandler, lockVars,
          handlerVars
  <2>10. CASE BuildTimer(t)
    BY <2>10 DEF BuildTimer, At, Goto, lockVars, profVars, handlerVars
  <2>11. CASE ReturnGuard(t)
    BY <2>11 DEF ReturnGuard, At, Goto, profVars, kernelVars, handlerVars
  <2>12. CASE ReportCall(t)
    BY <2>12 DEF ReportCall, At, Goto, lockVars, profVars, kernelVars,
          handlerVars
  <2>13. CASE ReportRead(t)
    BY <2>13 DEF ReportRead, At, Goto, lockVars, kernelVars, handlerVars
  <2>14. CASE ReportClear(t)
    BY <2>14 DEF ReportClear, At, Goto, lockVars, kernelVars, handlerVars
  <2>15. CASE UnresolvedCall(t)
    BY <2>15 DEF UnresolvedCall, At, Goto, lockVars, profVars, kernelVars,
          handlerVars
  <2>16. CASE UnresolvedRead(t)
    BY <2>16 DEF UnresolvedRead, At, Goto, profVars, kernelVars, handlerVars
  <2>17. CASE UnresolvedDone(t)
    BY <2>17 DEF UnresolvedDone, At, Goto, profVars, kernelVars, handlerVars
  <2>18. CASE DropCall(t)
    BY <2>18 DEF DropCall, At, Goto, lockVars, profVars, kernelVars,
          handlerVars
  <2>19. CASE DropTimer(t)
    BY <2>19 DEF DropTimer, At, Goto, SetItimer, lockVars, profVars,
          handlerVars
  <2>20. CASE DropStop(t)
    BY <2>20 DEF DropStop, At, Goto, StoppedAction, lockVars, profVars,
          handlerVars
  <2>21. CASE DropInit(t)
    BY <2>21 DEF DropInit, At, Goto, lockVars, kernelVars, handlerVars
  <2>22. CASE Deliver(t)
    <3>1. UNCHANGED <<writer, readers, pc>>
      BY <2>22 DEF Deliver, lockVars, callVars
    <3>2. CASE UNCHANGED handlerVars
      BY <3>1, <3>2 DEF handlerVars
    <3>3. CASE sig[t] = "none" /\ sig' = [sig EXCEPT ![t] = "enter"]
      BY <3>1, <3>3
    <3> QED
      BY <2>22, <3>2, <3>3 DEF Deliver
  <2>23. CASE HandlerTryWrite(t)
    BY <2>23 DEF HandlerTryWrite, InHandler, WriteFree, Return, profVars,
          kernelVars, callVars
  <2>24. CASE HandlerSkip(t)
    BY <2>24 DEF HandlerSkip, InHandler, Return, IsBlocklisted, profVars,
          kernelVars, callVars
  <2>25. CASE HandlerTrace(t)
    BY <2>25 DEF HandlerTrace, InHandler, UnwinderFree, IsBlocklisted,
          profVars, kernelVars, callVars
  <2>26. CASE HandlerRecord(t)
    BY <2>26 DEF HandlerRecord, InHandler, Return, SampledStack, kernelVars,
          callVars
  <2> QED
    BY <1>3, <2>1, <2>2, <2>3, <2>4, <2>5, <2>6, <2>7, <2>8, <2>9, <2>10,
          <2>11, <2>12, <2>13, <2>14, <2>15, <2>16, <2>17, <2>18, <2>19, <2>20,
          <2>21, <2>22, <2>23, <2>24, <2>25, <2>26
    DEF Call, Step, HandlerStep
<1> QED
  BY <1>1, <1>2, <1>3 DEF Next

\* One context cannot be both of two holders, so the sections exclude each other.
LEMMA LockExcludes == LockInv => Exclusion
  BY ConstantsAssumption
  DEF LockInv, Exclusion, InWrite, InRead, Contexts, Main, Handler

\* A handler that unwinds holds PROFILER for writing; a thread in Trace::init
\* holds it for reading.  LockInv keeps the two apart, so UNWINDER is free.
LEMMA UnwinderStep ==
  TypeOK /\ SiteKept /\ LockInv /\ UnwinderInv /\ [Next]_vars => UnwinderInv'
<1> SUFFICES ASSUME TypeOK, SiteKept, LockInv, UnwinderInv, [Next]_vars
             PROVE  UnwinderInv'
  OBVIOUS
<1> USE DEF TypeOK, UnwinderInv, UnwinderUncontended
<1>1. CASE UNCHANGED vars
  BY <1>1 DEF vars, lockVars, profVars, kernelVars,
          callVars, handlerVars
<1>2. CASE Tick
  BY <1>2 DEF Tick, lockVars, profVars, callVars, handlerVars
<1>3. ASSUME NEW t \in Threads,
             Call(t) \/ Step(t) \/ Deliver(t) \/ HandlerStep(t)
      PROVE  UnwinderInv'
  <2>1. CASE AcquireWrite(t, "build_write", "build_start")
    BY <2>1 DEF AcquireWrite, At, Goto, WriteFree, profVars, kernelVars,
          handlerVars
  <2>2. CASE AcquireWrite(t, "report_write", "report_read")
    BY <2>2 DEF AcquireWrite, At, Goto, WriteFree, profVars, kernelVars,
          handlerVars
  <2>3. CASE AcquireWrite(t, "drop_write", "drop_stop")
    BY <2>3 DEF AcquireWrite, At, Goto, WriteFree, profVars, kernelVars,
          handlerVars
  <2>4. CASE Unlock(t)
    BY <2>4 DEF Unlock, At, Goto, profVars, kernelVars, handlerVars
  <2>5. CASE BuildCall(t)
    BY <2>5 DEF BuildCall, At, Goto, lockVars, profVars, kernelVars,
          handlerVars
  <2>6. CASE LazyRead(t)
    BY <2>6 DEF LazyRead, At, Goto, kernelVars, handlerVars
  <2>7. CASE LazyInit(t)
    BY <2>7, ConstantsAssumption DEF LazyInit, At, Goto, kernelVars,
          handlerVars, LockInv, HandlerLocked, ReadLocked, Handler
  <2>8. CASE LazyDone(t)
    BY <2>8 DEF LazyDone, At, Goto, profVars, kernelVars, handlerVars
  <2>9. CASE BuildStart(t)
    BY <2>9 DEF BuildStart, At, Goto, Refused, RegisterSignalHandler, lockVars,
          handlerVars
  <2>10. CASE BuildTimer(t)
    BY <2>10 DEF BuildTimer, At, Goto, lockVars, profVars, handlerVars
  <2>11. CASE ReturnGuard(t)
    BY <2>11 DEF ReturnGuard, At, Goto, profVars, kernelVars, handlerVars
  <2>12. CASE ReportCall(t)
    BY <2>12 DEF ReportCall, At, Goto, lockVars, profVars, kernelVars,
          handlerVars
  <2>13. CASE ReportRead(t)
    BY <2>13 DEF ReportRead, At, Goto, lockVars, kernelVars, handlerVars
  <2>14. CASE ReportClear(t)
    BY <2>14 DEF ReportClear, At, Goto, lockVars, kernelVars, handlerVars
  <2>15. CASE UnresolvedCall(t)
    BY <2>15 DEF UnresolvedCall, At, Goto, lockVars, profVars, kernelVars,
          handlerVars
  <2>16. CASE UnresolvedRead(t)
    BY <2>16 DEF UnresolvedRead, At, Goto, profVars, kernelVars, handlerVars
  <2>17. CASE UnresolvedDone(t)
    BY <2>17 DEF UnresolvedDone, At, Goto, profVars, kernelVars, handlerVars
  <2>18. CASE DropCall(t)
    BY <2>18 DEF DropCall, At, Goto, lockVars, profVars, kernelVars,
          handlerVars
  <2>19. CASE DropTimer(t)
    BY <2>19 DEF DropTimer, At, Goto, SetItimer, lockVars, profVars,
          handlerVars
  <2>20. CASE DropStop(t)
    BY <2>20 DEF DropStop, At, Goto, StoppedAction, lockVars, profVars,
          handlerVars
  <2>21. CASE DropInit(t)
    BY <2>21 DEF DropInit, At, Goto, lockVars, kernelVars, handlerVars
  <2>22. CASE Deliver(t)
    <3>1. UNCHANGED <<lockVars, profVars, callVars>>
      BY <2>22 DEF Deliver
    <3>2. \A u \in Threads : sig'[u] = sig[u] \/ (sig[u] = "none" /\ sig'[u] = "enter")
      BY <2>22 DEF Deliver, handlerVars
    <3> QED
      BY <3>1, <3>2 DEF lockVars, profVars, callVars
  <2>23. CASE HandlerTryWrite(t)
    BY <2>23 DEF HandlerTryWrite, InHandler, WriteFree, Return, profVars,
          kernelVars, callVars
  <2>24. CASE HandlerSkip(t)
    BY <2>24 DEF HandlerSkip, InHandler, Return, IsBlocklisted, profVars,
          kernelVars, callVars
  <2>25. CASE HandlerTrace(t)
    BY <2>25, ConstantsAssumption DEF HandlerTrace, InHandler, UnwinderFree,
          IsBlocklisted, profVars, kernelVars, callVars, LockInv,
          HandlerLocked, ReadLocked, Handler
  <2>26. CASE HandlerRecord(t)
    BY <2>26, ConstantsAssumption DEF HandlerRecord, InHandler, Return,
          SampledStack, kernelVars, callVars, SiteKept
  <2> QED
    BY <1>3, <2>1, <2>2, <2>3, <2>4, <2>5, <2>6, <2>7, <2>8, <2>9, <2>10,
          <2>11, <2>12, <2>13, <2>14, <2>15, <2>16, <2>17, <2>18, <2>19, <2>20,
          <2>21, <2>22, <2>23, <2>24, <2>25, <2>26
    DEF Call, Step, HandlerStep
<1> QED
  BY <1>1, <1>2, <1>3 DEF Next

-----------------------------------------------------------------------------
(* The session                                                             *)

\* start() is reached only through trigger_lazy, and what trigger_lazy has
\* initialised stays initialised.
LEMMA ReadyStep ==
  TypeOK /\ ReadyInv /\ [Next]_vars => ReadyInv'
<1> SUFFICES ASSUME TypeOK, ReadyInv, [Next]_vars
             PROVE  ReadyInv'
  OBVIOUS
<1> USE DEF TypeOK, ReadyInv, HandlerFindsInitialised
<1>1. CASE UNCHANGED vars
  BY <1>1 DEF vars, lockVars, profVars, kernelVars,
          callVars, handlerVars
<1>2. CASE Tick
  BY <1>2 DEF Tick, lockVars, profVars, callVars, handlerVars
<1>3. ASSUME NEW t \in Threads,
             Call(t) \/ Step(t) \/ Deliver(t) \/ HandlerStep(t)
      PROVE  ReadyInv'
  <2>1. CASE AcquireWrite(t, "build_write", "build_start")
    BY <2>1 DEF AcquireWrite, At, Goto, WriteFree, profVars, kernelVars,
          handlerVars
  <2>2. CASE AcquireWrite(t, "report_write", "report_read")
    BY <2>2 DEF AcquireWrite, At, Goto, WriteFree, profVars, kernelVars,
          handlerVars
  <2>3. CASE AcquireWrite(t, "drop_write", "drop_stop")
    BY <2>3 DEF AcquireWrite, At, Goto, WriteFree, profVars, kernelVars,
          handlerVars
  <2>4. CASE Unlock(t)
    BY <2>4 DEF Unlock, At, Goto, profVars, kernelVars, handlerVars
  <2>5. CASE BuildCall(t)
    BY <2>5 DEF BuildCall, At, Goto, lockVars, profVars, kernelVars,
          handlerVars
  <2>6. CASE LazyRead(t)
    BY <2>6 DEF LazyRead, At, Goto, kernelVars, handlerVars
  <2>7. CASE LazyInit(t)
    BY <2>7 DEF LazyInit, At, Goto, kernelVars, handlerVars
  <2>8. CASE LazyDone(t)
    BY <2>8 DEF LazyDone, At, Goto, profVars, kernelVars, handlerVars
  <2>9. CASE BuildStart(t)
    BY <2>9 DEF BuildStart, At, Goto, Refused, RegisterSignalHandler, lockVars,
          handlerVars
  <2>10. CASE BuildTimer(t)
    BY <2>10 DEF BuildTimer, At, Goto, lockVars, profVars, handlerVars
  <2>11. CASE ReturnGuard(t)
    BY <2>11 DEF ReturnGuard, At, Goto, profVars, kernelVars, handlerVars
  <2>12. CASE ReportCall(t)
    BY <2>12 DEF ReportCall, At, Goto, lockVars, profVars, kernelVars,
          handlerVars
  <2>13. CASE ReportRead(t)
    BY <2>13 DEF ReportRead, At, Goto, lockVars, kernelVars, handlerVars
  <2>14. CASE ReportClear(t)
    BY <2>14 DEF ReportClear, At, Goto, lockVars, kernelVars, handlerVars
  <2>15. CASE UnresolvedCall(t)
    BY <2>15 DEF UnresolvedCall, At, Goto, lockVars, profVars, kernelVars,
          handlerVars
  <2>16. CASE UnresolvedRead(t)
    BY <2>16 DEF UnresolvedRead, At, Goto, profVars, kernelVars, handlerVars
  <2>17. CASE UnresolvedDone(t)
    BY <2>17 DEF UnresolvedDone, At, Goto, profVars, kernelVars, handlerVars
  <2>18. CASE DropCall(t)
    BY <2>18 DEF DropCall, At, Goto, lockVars, profVars, kernelVars,
          handlerVars
  <2>19. CASE DropTimer(t)
    BY <2>19 DEF DropTimer, At, Goto, SetItimer, lockVars, profVars,
          handlerVars
  <2>20. CASE DropStop(t)
    BY <2>20 DEF DropStop, At, Goto, StoppedAction, lockVars, profVars,
          handlerVars
  <2>21. CASE DropInit(t)
    BY <2>21 DEF DropInit, At, Goto, lockVars, kernelVars, handlerVars
  <2>22. CASE Deliver(t)
    BY <2>22 DEF Deliver, lockVars, profVars, callVars, handlerVars
  <2>23. CASE HandlerTryWrite(t)
    BY <2>23 DEF HandlerTryWrite, InHandler, WriteFree, Return, profVars,
          kernelVars, callVars
  <2>24. CASE HandlerSkip(t)
    BY <2>24 DEF HandlerSkip, InHandler, Return, IsBlocklisted, profVars,
          kernelVars, callVars
  <2>25. CASE HandlerTrace(t)
    BY <2>25 DEF HandlerTrace, InHandler, UnwinderFree, IsBlocklisted,
          profVars, kernelVars, callVars
  <2>26. CASE HandlerRecord(t)
    BY <2>26 DEF HandlerRecord, InHandler, Return, SampledStack, kernelVars,
          callVars
  <2> QED
    BY <1>3, <2>1, <2>2, <2>3, <2>4, <2>5, <2>6, <2>7, <2>8, <2>9, <2>10,
          <2>11, <2>12, <2>13, <2>14, <2>15, <2>16, <2>17, <2>18, <2>19, <2>20,
          <2>21, <2>22, <2>23, <2>24, <2>25, <2>26
    DEF Call, Step, HandlerStep
<1> QED
  BY <1>1, <1>2, <1>3 DEF Next

\* A build is refused while a session exists; a session ends in the order
\* timer, handler, running.
LEMMA SessionStep ==
  TypeOK /\ ReadyInv /\ SessionInv /\ [Next]_vars => SessionInv'
<1> SUFFICES ASSUME TypeOK, ReadyInv, SessionInv, [Next]_vars
             PROVE  SessionInv'
  OBVIOUS
<1> USE DEF TypeOK, SessionInv, OneSession, InSession, SessionPcs, NeverKilled
<1>1. CASE UNCHANGED vars
  BY <1>1 DEF vars, lockVars, profVars, kernelVars,
          callVars, handlerVars
<1>2. CASE Tick
  BY <1>2 DEF Tick, lockVars, profVars, callVars, handlerVars
<1>3. ASSUME NEW t \in Threads,
             Call(t) \/ Step(t) \/ Deliver(t) \/ HandlerStep(t)
      PROVE  SessionInv'
  <2>1. CASE AcquireWrite(t, "build_write", "build_start")
    BY <2>1 DEF AcquireWrite, At, Goto, WriteFree, profVars, kernelVars,
          handlerVars
  <2>2. CASE AcquireWrite(t, "report_write", "report_read")
    BY <2>2 DEF AcquireWrite, At, Goto, WriteFree, profVars, kernelVars,
          handlerVars
  <2>3. CASE AcquireWrite(t, "drop_write", "drop_stop")
    BY <2>3 DEF AcquireWrite, At, Goto, WriteFree, profVars, kernelVars,
          handlerVars
  <2>4. CASE Unlock(t)
    BY <2>4 DEF Unlock, At, Goto, profVars, kernelVars, handlerVars
  <2>5. CASE BuildCall(t)
    BY <2>5 DEF BuildCall, At, Goto, lockVars, profVars, kernelVars,
          handlerVars
  <2>6. CASE LazyRead(t)
    BY <2>6 DEF LazyRead, At, Goto, kernelVars, handlerVars
  <2>7. CASE LazyInit(t)
    BY <2>7 DEF LazyInit, At, Goto, kernelVars, handlerVars
  <2>8. CASE LazyDone(t)
    BY <2>8 DEF LazyDone, At, Goto, profVars, kernelVars, handlerVars
  <2>9. CASE BuildStart(t)
    BY <2>9 DEF BuildStart, At, Goto, Refused, RegisterSignalHandler, lockVars,
          handlerVars
  <2>10. CASE BuildTimer(t)
    BY <2>10 DEF BuildTimer, At, Goto, lockVars, profVars, handlerVars
  <2>11. CASE ReturnGuard(t)
    BY <2>11 DEF ReturnGuard, At, Goto, profVars, kernelVars, handlerVars
  <2>12. CASE ReportCall(t)
    BY <2>12 DEF ReportCall, At, Goto, lockVars, profVars, kernelVars,
          handlerVars
  <2>13. CASE ReportRead(t)
    BY <2>13 DEF ReportRead, At, Goto, lockVars, kernelVars, handlerVars
  <2>14. CASE ReportClear(t)
    BY <2>14 DEF ReportClear, At, Goto, lockVars, kernelVars, handlerVars
  <2>15. CASE UnresolvedCall(t)
    BY <2>15 DEF UnresolvedCall, At, Goto, lockVars, profVars, kernelVars,
          handlerVars
  <2>16. CASE UnresolvedRead(t)
    BY <2>16 DEF UnresolvedRead, At, Goto, profVars, kernelVars, handlerVars
  <2>17. CASE UnresolvedDone(t)
    BY <2>17 DEF UnresolvedDone, At, Goto, profVars, kernelVars, handlerVars
  <2>18. CASE DropCall(t)
    BY <2>18 DEF DropCall, At, Goto, lockVars, profVars, kernelVars,
          handlerVars
  <2>19. CASE DropTimer(t)
    BY <2>19 DEF DropTimer, At, Goto, SetItimer, lockVars, profVars,
          handlerVars
  <2>20. CASE DropStop(t)
    BY <2>20 DEF DropStop, At, Goto, StoppedAction, lockVars, profVars,
          handlerVars, ReadyInv
  <2>21. CASE DropInit(t)
    BY <2>21 DEF DropInit, At, Goto, lockVars, kernelVars, handlerVars
  <2>22. CASE Deliver(t)
    BY <2>22 DEF Deliver, lockVars, profVars, callVars, handlerVars
  <2>23. CASE HandlerTryWrite(t)
    BY <2>23 DEF HandlerTryWrite, InHandler, WriteFree, Return, profVars,
          kernelVars, callVars
  <2>24. CASE HandlerSkip(t)
    BY <2>24 DEF HandlerSkip, InHandler, Return, IsBlocklisted, profVars,
          kernelVars, callVars
  <2>25. CASE HandlerTrace(t)
    BY <2>25 DEF HandlerTrace, InHandler, UnwinderFree, IsBlocklisted,
          profVars, kernelVars, callVars
  <2>26. CASE HandlerRecord(t)
    BY <2>26 DEF HandlerRecord, InHandler, Return, SampledStack, kernelVars,
          callVars
  <2> QED
    BY <1>3, <2>1, <2>2, <2>3, <2>4, <2>5, <2>6, <2>7, <2>8, <2>9, <2>10,
          <2>11, <2>12, <2>13, <2>14, <2>15, <2>16, <2>17, <2>18, <2>19, <2>20,
          <2>21, <2>22, <2>23, <2>24, <2>25, <2>26
    DEF Call, Step, HandlerStep
<1> QED
  BY <1>1, <1>2, <1>3 DEF Next

\* Between the two halves of a clearing report no handler can record, because
\* the lock is held throughout.
LEMMA SampleStep ==
  TypeOK /\ LockInv /\ NoSampleLost /\ [Next]_vars => NoSampleLost'
<1> SUFFICES ASSUME TypeOK, LockInv, NoSampleLost, [Next]_vars
             PROVE  NoSampleLost'
  OBVIOUS
<1> USE DEF TypeOK, NoSampleLost
<1>1. CASE UNCHANGED vars
  BY <1>1 DEF vars, lockVars, profVars, kernelVars,
          callVars, handlerVars
<1>2. CASE Tick
  BY <1>2 DEF Tick, lockVars, profVars, callVars, handlerVars
<1>3. ASSUME NEW t \in Threads,
             Call(t) \/ Step(t) \/ Deliver(t) \/ HandlerStep(t)
      PROVE  NoSampleLost'
  <2>1. CASE AcquireWrite(t, "build_write", "build_start")
    BY <2>1 DEF AcquireWrite, At, Goto, WriteFree, profVars, kernelVars,
          handlerVars
  <2>2. CASE AcquireWrite(t, "report_write", "report_read")
    BY <2>2 DEF AcquireWrite, At, Goto, WriteFree, profVars, kernelVars,
          handlerVars
  <2>3. CASE AcquireWrite(t, "drop_write", "drop_stop")
    BY <2>3 DEF AcquireWrite, At, Goto, WriteFree, profVars, kernelVars,
          handlerVars
  <2>4. CASE Unlock(t)
    BY <2>4 DEF Unlock, At, Goto, profVars, kernelVars, handlerVars
  <2>5. CASE BuildCall(t)
    BY <2>5 DEF BuildCall, At, Goto, lockVars, profVars, kernelVars,
          handlerVars
  <2>6. CASE LazyRead(t)
    BY <2>6 DEF LazyRead, At, Goto, kernelVars, handlerVars
  <2>7. CASE LazyInit(t)
    BY <2>7 DEF LazyInit, At, Goto, kernelVars, handlerVars
  <2>8. CASE LazyDone(t)
    BY <2>8 DEF LazyDone, At, Goto, profVars, kernelVars, handlerVars
  <2>9. CASE BuildStart(t)
    BY <2>9 DEF BuildStart, At, Goto, Refused, RegisterSignalHandler, lockVars,
          handlerVars
  <2>10. CASE BuildTimer(t)
    BY <2>10 DEF BuildTimer, At, Goto, lockVars, profVars, handlerVars
  <2>11. CASE ReturnGuard(t)
    BY <2>11 DEF ReturnGuard, At, Goto, profVars, kernelVars, handlerVars
  <2>12. CASE ReportCall(t)
    BY <2>12 DEF ReportCall, At, Goto, lockVars, profVars, kernelVars,
          handlerVars
  <2>13. CASE ReportRead(t)
    BY <2>13 DEF ReportRead, At, Goto, lockVars, kernelVars, handlerVars,
          LockInv, MainLocked, HandlerLocked, Main, Handler
  <2>14. CASE ReportClear(t)
    BY <2>14 DEF ReportClear, At, Goto, lockVars, kernelVars, handlerVars
  <2>15. CASE UnresolvedCall(t)
    BY <2>15 DEF UnresolvedCall, At, Goto, lockVars, profVars, kernelVars,
          handlerVars
  <2>16. CASE UnresolvedRead(t)
    BY <2>16 DEF UnresolvedRead, At, Goto, profVars, kernelVars, handlerVars
  <2>17. CASE UnresolvedDone(t)
    BY <2>17 DEF UnresolvedDone, At, Goto, profVars, kernelVars, handlerVars
  <2>18. CASE DropCall(t)
    BY <2>18 DEF DropCall, At, Goto, lockVars, profVars, kernelVars,
          handlerVars
  <2>19. CASE DropTimer(t)
    BY <2>19 DEF DropTimer, At, Goto, SetItimer, lockVars, profVars,
          handlerVars
  <2>20. CASE DropStop(t)
    BY <2>20 DEF DropStop, At, Goto, StoppedAction, lockVars, profVars,
          handlerVars
  <2>21. CASE DropInit(t)
    BY <2>21 DEF DropInit, At, Goto, lockVars, kernelVars, handlerVars,
          LockInv, MainLocked, HandlerLocked, Main, Handler
  <2>22. CASE Deliver(t)
    BY <2>22 DEF Deliver, lockVars, profVars, callVars, handlerVars
  <2>23. CASE HandlerTryWrite(t)
    BY <2>23 DEF HandlerTryWrite, InHandler, WriteFree, Return, profVars,
          kernelVars, callVars
  <2>24. CASE HandlerSkip(t)
    BY <2>24 DEF HandlerSkip, InHandler, Return, IsBlocklisted, profVars,
          kernelVars, callVars
  <2>25. CASE HandlerTrace(t)
    BY <2>25 DEF HandlerTrace, InHandler, UnwinderFree, IsBlocklisted,
          profVars, kernelVars, callVars
  <2>26. CASE HandlerRecord(t)
    BY <2>26 DEF HandlerRecord, InHandler, Return, SampledStack, kernelVars,
          callVars, LockInv, MainLocked, HandlerLocked, Main, Handler
  <2> QED
    BY <1>3, <2>1, <2>2, <2>3, <2>4, <2>5, <2>6, <2>7, <2>8, <2>9, <2>10,
          <2>11, <2>12, <2>13, <2>14, <2>15, <2>16, <2>17, <2>18, <2>19, <2>20,
          <2>21, <2>22, <2>23, <2>24, <2>25, <2>26
    DEF Call, Step, HandlerStep
<1> QED
  BY <1>1, <1>2, <1>3 DEF Next

-----------------------------------------------------------------------------
(* The theorems                                                            *)

LEMMA InitIInv == Init => IInv
<1> SUFFICES ASSUME Init PROVE IInv
  OBVIOUS
<1> USE ConstantsAssumption DEF Init
<1>1. TypeOK
  BY DEF TypeOK, Contexts, Pcs, Sigs
<1>2. BuilderKept /\ SiteKept
  BY DEF BuilderKept, SiteKept, BuildPcs
<1>3. LockInv
  BY DEF LockInv, MainLocked, HandlerLocked, ReadLocked, Main, Handler
<1>4. UnwinderInv
  BY DEF UnwinderInv, UnwinderUncontended
<1>5. ReadyInv
  BY DEF ReadyInv, HandlerFindsInitialised
<1>6. SessionInv
  BY DEF SessionInv, OneSession, InSession, SessionPcs, NeverKilled
<1>7. NoSampleLost
  BY DEF NoSampleLost
<1> QED
  BY <1>1, <1>2, <1>3, <1>4, <1>5, <1>6, <1>7 DEF IInv

LEMMA NextIInv == IInv /\ [Next]_vars => IInv'
  BY TypeStep, BuilderStep, SiteStep, LockStep, UnwinderStep, ReadyStep,
     SessionStep, SampleStep
  DEF IInv

LEMMA Inductive == Spec => []IInv
  BY InitIInv, NextIInv, PTL DEF Spec

\* Every variable of the life cycle keeps its type, in every interleaving of
\* calls, ticks and handlers.
THEOREM TypeCorrect == Spec => []TypeOK
<1>1. IInv => TypeOK
  BY DEF IInv
<1> QED
  BY <1>1, Inductive, PTL

\* The Profiler is never touched by two contexts at once, one of them writing:
\* build, report, drop and the handlers exclude each other through PROFILER.
THEOREM Excluding == Spec => []Exclusion
<1>1. IInv => Exclusion
  BY LockExcludes DEF IInv
<1> QED
  BY <1>1, Inductive, PTL

\* No sample is ever stored without its frames: the handler's try_write on
\* UNWINDER cannot fail.
THEOREM UnwinderFreeForHandler == Spec => []UnwinderUncontended
<1>1. IInv => UnwinderUncontended
  BY DEF IInv, UnwinderInv
<1> QED
  BY <1>1, Inductive, PTL

\* No handler ever runs the initialiser of a Lazy.
THEOREM HandlerReady == Spec => []HandlerFindsInitialised
<1>1. IInv => HandlerFindsInitialised
  BY DEF IInv, ReadyInv
<1> QED
  BY <1>1, Inductive, PTL

\* At most one session exists, and the profiler runs during all of it.
THEOREM SingleSession == Spec => []OneSession
<1>1. IInv => OneSession
  BY DEF IInv, SessionInv
<1> QED
  BY <1>1, Inductive, PTL

\* An armed timer finds the handler installed and the session on.
THEOREM TimerWithinSession == Spec => []TimerOnlyWhileRunning
<1>1. IInv => TimerOnlyWhileRunning
  BY DEF IInv, SessionInv, OneSession, InSession, SessionPcs, TimerOnlyWhileRunning
<1> QED
  BY <1>1, Inductive, PTL

\* SIGPROF never reaches the default disposition, which would kill the process.
THEOREM SignalSafe == Spec => []NeverKilled
<1>1. IInv => NeverKilled
  BY DEF IInv, SessionInv
<1> QED
  BY <1>1, Inductive, PTL

\* A recorded sample is in the collector until a clearing report has read it.
THEOREM SamplesKept == Spec => []NoSampleLost
<1>1. IInv => NoSampleLost
  BY DEF IInv
<1> QED
  BY <1>1, Inductive, PTL

-----------------------------------------------------------------------------
(* The life cycle implements Session                                       *)

\* The steps that start, hand out or end a session
SessionSteps(t) ==
  \/ BuildStart(t) \/ BuildTimer(t) \/ ReturnGuard(t) \/ DropCall(t)
  \/ DropTimer(t) \/ AcquireWrite(t, "drop_write", "drop_stop")
  \/ DropStop(t) \/ DropInit(t)

\* What every other step leaves alone
SessionKept ==
  /\ UNCHANGED <<guard, running, itimer>>
  /\ \A u \in Threads : pc[u] \in SessionPcs \/ pc'[u] \in SessionPcs
                          => pc'[u] = pc[u]

\* Any other step leaves the session alone.
LEMMA OtherSteps ==
  ASSUME TypeOK, [Next]_vars, \A t \in Threads : ~SessionSteps(t)
  PROVE  SessionKept
<1> USE DEF TypeOK, SessionKept, SessionPcs
<1>1. CASE UNCHANGED vars
  BY <1>1 DEF vars, lockVars, profVars, kernelVars,
          callVars, handlerVars
<1>2. CASE Tick
  BY <1>2 DEF Tick, lockVars, profVars, callVars, handlerVars
<1>3. ASSUME NEW t \in Threads,
             Call(t) \/ Step(t) \/ Deliver(t) \/ HandlerStep(t)
      PROVE  SessionKept
  <2>1. CASE AcquireWrite(t, "build_write", "build_start")
    BY <2>1 DEF AcquireWrite, At, Goto, WriteFree, profVars, kernelVars,
          handlerVars
  <2>2. CASE AcquireWrite(t, "report_write", "report_read")
    BY <2>2 DEF AcquireWrite, At, Goto, WriteFree, profVars, kernelVars,
          handlerVars
  <2>4. CASE Unlock(t)
    BY <2>4 DEF Unlock, At, Goto, profVars, kernelVars, handlerVars
  <2>5. CASE BuildCall(t)
    BY <2>5 DEF BuildCall, At, Goto, lockVars, profVars, kernelVars,
          handlerVars
  <2>6. CASE LazyRead(t)
    BY <2>6 DEF LazyRead, At, Goto, kernelVars, handlerVars
  <2>7. CASE LazyInit(t)
    BY <2>7 DEF LazyInit, At, Goto, kernelVars, handlerVars
  <2>8. CASE LazyDone(t)
    BY <2>8 DEF LazyDone, At, Goto, profVars, kernelVars, handlerVars
  <2>12. CASE ReportCall(t)
    BY <2>12 DEF ReportCall, At, Goto, lockVars, profVars, kernelVars,
          handlerVars
  <2>13. CASE ReportRead(t)
    BY <2>13 DEF ReportRead, At, Goto, lockVars, kernelVars, handlerVars
  <2>14. CASE ReportClear(t)
    BY <2>14 DEF ReportClear, At, Goto, lockVars, kernelVars, handlerVars
  <2>15. CASE UnresolvedCall(t)
    BY <2>15 DEF UnresolvedCall, At, Goto, lockVars, profVars, kernelVars,
          handlerVars
  <2>16. CASE UnresolvedRead(t)
    BY <2>16 DEF UnresolvedRead, At, Goto, profVars, kernelVars, handlerVars
  <2>17. CASE UnresolvedDone(t)
    BY <2>17 DEF UnresolvedDone, At, Goto, profVars, kernelVars, handlerVars
  <2>22. CASE Deliver(t)
    BY <2>22 DEF Deliver, lockVars, profVars, callVars, handlerVars
  <2>23. CASE HandlerTryWrite(t)
    BY <2>23 DEF HandlerTryWrite, InHandler, WriteFree, Return, profVars,
          kernelVars, callVars
  <2>24. CASE HandlerSkip(t)
    BY <2>24 DEF HandlerSkip, InHandler, Return, IsBlocklisted, profVars,
          kernelVars, callVars
  <2>25. CASE HandlerTrace(t)
    BY <2>25 DEF HandlerTrace, InHandler, UnwinderFree, IsBlocklisted,
          profVars, kernelVars, callVars
  <2>26. CASE HandlerRecord(t)
    BY <2>26 DEF HandlerRecord, InHandler, Return, SampledStack, kernelVars,
          callVars
  <2> QED
    BY <1>3, <2>1, <2>2, <2>4, <2>5, <2>6, <2>7, <2>8,
          <2>12, <2>13, <2>14, <2>15, <2>16, <2>17,
          <2>22, <2>23, <2>24, <2>25, <2>26
    DEF SessionSteps, Call, Step, HandlerStep
<1> QED
  BY <1>1, <1>2, <1>3 DEF Next

\* The parts of Session's state are told by where the threads are.
Placed ==
  /\ guard => Phase = "held" /\ Owner = None
  /\ \A t \in Threads :
       /\ pc[t] \in StartPcs => Phase = "starting" /\ Owner = t
       /\ pc[t] \in EndPcs => Phase = "ending" /\ Owner = t
  /\ ~guard /\ (\A t \in Threads : ~InSession(t))
       => Phase = (IF running THEN "lost" ELSE "stopped") /\ Owner = None

LEMMA PhaseIs == OneSession => Placed
<1> SUFFICES ASSUME OneSession PROVE Placed
  OBVIOUS
<1>1. \A t \in Threads : InSession(t) <=> pc[t] \in StartPcs \/ pc[t] \in EndPcs
  BY DEF InSession, SessionPcs, StartPcs, EndPcs
<1>2. \A t \in Threads : ~(pc[t] \in StartPcs /\ pc[t] \in EndPcs)
  BY DEF StartPcs, EndPcs
<1>3. \A t, u \in Threads : InSession(t) /\ InSession(u) => t = u
  BY DEF OneSession
<1>4. guard => \A t \in Threads : ~InSession(t)
  BY DEF OneSession
<1>5. ASSUME NEW t \in Threads, InSession(t) PROVE Owner = t /\ ~guard
  <2>1. (CHOOSE u \in Threads : InSession(u)) = t
    BY <1>3, <1>5
  <2> QED
    BY <1>4, <1>5, <2>1 DEF Owner
<1>6. (\A t \in Threads : ~InSession(t)) => Owner = None
  BY DEF Owner
<1>7. guard => Phase = "held"
  BY DEF Phase
<1>8. ASSUME NEW t \in Threads, pc[t] \in StartPcs PROVE Phase = "starting"
  <2>1. ~guard /\ \A u \in Threads : pc[u] \notin EndPcs
    BY <1>1, <1>2, <1>3, <1>5, <1>8
  <2> QED
    BY <1>8, <2>1 DEF Phase
<1>9. ASSUME NEW t \in Threads, pc[t] \in EndPcs PROVE Phase = "ending"
  <2>1. ~guard /\ \A u \in Threads : pc[u] \notin StartPcs
    BY <1>1, <1>2, <1>3, <1>5, <1>9
  <2> QED
    BY <1>9, <2>1 DEF Phase
<1>10. ASSUME ~guard, \A t \in Threads : ~InSession(t)
       PROVE  Phase = (IF running THEN "lost" ELSE "stopped")
  <2>1. \A t \in Threads : pc[t] \notin StartPcs /\ pc[t] \notin EndPcs
    BY <1>1, <1>10
  <2> QED
    BY <1>10, <2>1 DEF Phase
<1> QED
  BY <1>1, <1>4, <1>5, <1>6, <1>7, <1>8, <1>9, <1>10 DEF Placed

LEMMA PhaseKept ==
  ASSUME TypeOK, SessionKept
  PROVE  Phase' = Phase /\ Owner' = Owner
<1>1. \A t \in Threads : /\ pc'[t] \in StartPcs <=> pc[t] \in StartPcs
                         /\ pc'[t] \in EndPcs <=> pc[t] \in EndPcs
                         /\ InSession(t)' <=> InSession(t)
  BY DEF SessionKept, InSession, SessionPcs, StartPcs, EndPcs
<1>2. Owner' = Owner
  <2>1. (\E t \in Threads : InSession(t)') <=> (\E t \in Threads : InSession(t))
    BY <1>1
  <2>2. (CHOOSE t \in Threads : InSession(t)')
          = (CHOOSE t \in Threads : InSession(t))
    BY <1>1
  <2> QED
    BY <2>1, <2>2 DEF Owner
<1>3. Phase' = Phase
  BY <1>1 DEF Phase, SessionKept
<1> QED
  BY <1>2, <1>3

\* A step that starts, hands out or ends a session is one of Session's.
LEMMA LifeMoves ==
  ASSUME IInv, IInv', Placed, Placed', NEW t \in Threads, SessionSteps(t)
  PROVE  [Life!SessionNext]_(Life!sessionVars)
<1> USE DEF SessionPcs, StartPcs, EndPcs, InSession
<1>1. /\ TypeOK /\ BuilderKept /\ SessionInv /\ OneSession
      /\ TypeOK' /\ SessionInv' /\ OneSession'
  BY DEF IInv, SessionInv
<1>2. CASE SessionKept
  BY <1>1, <1>2, PhaseKept DEF Life!sessionVars, SessionKept
<1>3. CASE BuildStart(t)
  <2>1. CASE Refused
    BY <1>1, <1>2, <1>3, <2>1 DEF BuildStart, At, Goto, SessionKept, TypeOK
  <2>2. CASE ~Refused
    <3>1. /\ ~running /\ running' = TRUE /\ pc'[t] = "build_timer"
          /\ itimer' = itimer
      BY <1>1, <1>3, <2>2 DEF BuildStart, Goto, Refused, TypeOK
    <3>2. ~guard /\ \A u \in Threads : ~InSession(u)
      BY <1>1, <3>1 DEF OneSession
    <3>3. Phase = "stopped" /\ Phase' = "starting" /\ Owner' = t
      BY <3>1, <3>2 DEF Placed
    <3> QED
      BY <3>1, <3>3 DEF Life!SessionNext, Life!Begin
  <2> QED
    BY <2>1, <2>2
<1>4. CASE BuildTimer(t)
  <2>1. pc[t] = "build_timer" /\ Phase = "starting" /\ Owner = t
    BY <1>4 DEF BuildTimer, At, Placed
  <2>2. CASE pc'[t] = "return_guard"
    <3>1. Phase' = "starting" /\ Owner' = t /\ itimer' \in BOOLEAN
      BY <1>1, <2>2 DEF Placed, TypeOK
    <3> QED
      BY <2>1, <3>1 DEF Life!SessionNext, Life!Arm
  <2>3. CASE req[t].freq = 0 /\ pc' = [pc EXCEPT ![t] = "unlock"] /\ itimer' = itimer
    <3>1. 0 \in Frequencies
      BY <1>1, <2>1, <2>3 DEF BuilderKept, BuildPcs, Requests
    <3>2. running' /\ ~guard'
      BY <1>1, <1>4, <2>1 DEF OneSession, BuildTimer, profVars
    <3>3. \A u \in Threads : ~InSession(u)'
      BY <1>1, <2>1, <2>3 DEF OneSession, TypeOK
    <3>4. Phase' = "lost" /\ Owner' = None
      BY <3>2, <3>3 DEF Placed
    <3>5. ~itimer
      BY <1>1, <2>1 DEF SessionInv, OneSession
    <3> QED
      BY <2>1, <2>3, <3>1, <3>4, <3>5 DEF Life!SessionNext, Life!Lose
  <2> QED
    BY <1>1, <1>4, <2>2, <2>3 DEF BuildTimer, Goto, TypeOK
<1>5. CASE ReturnGuard(t)
  <2>1. pc[t] = "return_guard" /\ guard' /\ itimer' = itimer
    BY <1>5 DEF ReturnGuard, At, kernelVars
  <2>2. Phase = "starting" /\ Owner = t /\ Phase' = "held" /\ Owner' = None
    BY <2>1 DEF Placed
  <2> QED
    BY <2>1, <2>2 DEF Life!SessionNext, Life!Hand
<1>6. CASE DropCall(t)
  <2>1. guard /\ pc'[t] = "drop_timer" /\ itimer' = itimer
    BY <1>1, <1>6 DEF DropCall, Goto, kernelVars, TypeOK
  <2>2. Phase = "held" /\ Phase' = "ending" /\ Owner' = t
    BY <2>1 DEF Placed
  <2> QED
    BY <2>1, <2>2 DEF Life!SessionNext, Life!Take
<1>7. CASE DropTimer(t)
  <2>1. pc[t] = "drop_timer" /\ pc'[t] = "drop_write" /\ itimer' = FALSE
    BY <1>1, <1>7 DEF DropTimer, At, Goto, SetItimer, TypeOK
  <2>2. Phase = "ending" /\ Owner = t /\ Phase' = "ending" /\ Owner' = t
    BY <2>1 DEF Placed
  <2> QED
    BY <2>1, <2>2 DEF Life!SessionNext, Life!Disarm
<1>8. ASSUME pc[t] \in EndPcs, pc'[t] \in EndPcs, itimer' = itimer
      PROVE  UNCHANGED Life!sessionVars
  BY <1>8 DEF Placed, Life!sessionVars
<1>9. CASE AcquireWrite(t, "drop_write", "drop_stop")
  <2>1. pc[t] = "drop_write" /\ pc'[t] = "drop_stop" /\ itimer' = itimer
    BY <1>1, <1>9 DEF AcquireWrite, At, Goto, kernelVars, TypeOK
  <2> QED
    BY <1>8, <2>1
<1>10. CASE DropStop(t)
  <2>1. pc[t] = "drop_stop" /\ itimer' = itimer
    BY <1>10 DEF DropStop, At
  <2>2. running
    BY <1>1, <2>1 DEF OneSession
  <2>3. pc'[t] = "drop_init"
    BY <1>1, <1>10, <2>2 DEF DropStop, Goto, TypeOK
  <2> QED
    BY <1>8, <2>1, <2>3
<1>11. CASE DropInit(t)
  <2>1. /\ pc[t] = "drop_init" /\ pc' = [pc EXCEPT ![t] = "unlock"]
        /\ guard' = guard /\ itimer' = itimer
    BY <1>11 DEF DropInit, At, Goto, kernelVars
  <2>2. ~guard /\ ~itimer
    BY <1>1, <2>1 DEF SessionInv, OneSession
  <2>3. \A u \in Threads : ~InSession(u)'
    BY <1>1, <2>1 DEF OneSession, TypeOK
  <2>4. /\ Phase = "ending" /\ Owner = t /\ Owner' = None
        /\ Phase' = IF running' THEN "lost" ELSE "stopped"
    BY <2>1, <2>2, <2>3 DEF Placed
  <2>5. running' = FALSE \/ TempFileFails
    BY <1>11 DEF DropInit
  <2>6. CASE running' = FALSE
    BY <2>1, <2>2, <2>4, <2>6 DEF Life!SessionNext, Life!End
  <2>7. CASE TempFileFails /\ running'
    BY <2>1, <2>2, <2>4, <2>7 DEF Life!SessionNext, Life!Lose
  <2> QED
    BY <1>1, <2>5, <2>6, <2>7 DEF TypeOK
<1> QED
  BY <1>3, <1>4, <1>5, <1>6, <1>7, <1>9, <1>10, <1>11 DEF SessionSteps

\* The life cycle implements Session, for any number of threads, any builders
\* and whether or not temporary files can be made.
THEOREM LifeKept == Spec => SessionImplemented
<1>1. IInv => Placed
  BY PhaseIs DEF IInv, SessionInv
<1>2. Init => Life!SessionInit
  <2> SUFFICES ASSUME Init PROVE Life!SessionInit
    OBVIOUS
  <2>1. OneSession
    BY InitIInv DEF IInv, SessionInv
  <2>2. ~guard /\ ~running /\ itimer = FALSE /\ \A t \in Threads : ~InSession(t)
    BY DEF Init, InSession, SessionPcs
  <2> QED
    BY <2>1, <2>2, PhaseIs DEF Placed, Life!SessionInit
<1>3. IInv /\ IInv' /\ Placed /\ Placed' /\ [Next]_vars
        => [Life!SessionNext]_(Life!sessionVars)
  <2> SUFFICES ASSUME IInv, IInv', Placed, Placed', [Next]_vars
               PROVE  [Life!SessionNext]_(Life!sessionVars)
    OBVIOUS
  <2>1. CASE \A t \in Threads : ~SessionSteps(t)
    <3>1. SessionKept
      BY <2>1, OtherSteps DEF IInv
    <3> QED
      BY <3>1, PhaseKept DEF IInv, Life!sessionVars, SessionKept
  <2> QED
    BY <2>1, LifeMoves
<1> QED
  BY <1>1, <1>2, <1>3, Inductive, PTL
  DEF Spec, SessionImplemented, Life!SessionSpec

\* If no frequency is 0 and temporary files can be made, the profiler runs only
\* for a session: no call that fails half way leaves it running for nobody.
THEOREM NeverLost ==
  TempFileFails = FALSE /\ 0 \notin Frequencies => (Spec => []RunningHasOwner)
<1> SUFFICES ASSUME TempFileFails = FALSE, 0 \notin Frequencies
             PROVE  Spec => []RunningHasOwner
  OBVIOUS
<1> DEFINE Found == Phase # "lost"
<1>1. Life!SessionInit => Found
  BY DEF Life!SessionInit
<1>2. Found /\ [Life!SessionNext]_(Life!sessionVars) => Found'
  BY DEF Life!SessionNext, Life!Begin, Life!Arm, Life!Hand, Life!Take,
         Life!Disarm, Life!End, Life!Lose, Life!sessionVars
<1>3. IInv /\ Found => RunningHasOwner
  <2> SUFFICES ASSUME IInv, Found, running, ~guard,
                      \A t \in Threads : ~InSession(t)
               PROVE  FALSE
    BY DEF RunningHasOwner
  <2> QED
    BY PhaseIs DEF IInv, SessionInv, Placed
<1> HIDE DEF Found
<1> QED
  BY <1>1, <1>2, <1>3, LifeKept, Inductive, PTL
  DEF SessionImplemented, Life!SessionSpec

-----------------------------------------------------------------------------
(* The timer of a guard                                                    *)

\* Between setitimer and the drop of the Timer, the timer is armed.
TickInv ==
  guard \/ (\E t \in Threads : pc[t] \in {"return_guard", "drop_timer"})
    => itimer

\* The frequencies whose interval is a microsecond or more
TickingFrequencies == 1..Second

LEMMA DivPositive ==
  ASSUME NEW n \in Nat, NEW f \in 1..n
  PROVE  n \div f \in Int /\ n \div f > 0
<1> DEFINE q == n \div f
<1>1. q \in Int /\ n < f * (q + 1)
  OBVIOUS
<1>2. q >= 1
  <2> SUFFICES ASSUME q < 1 PROVE FALSE
    BY <1>1
  <2>1. q + 1 <= 1
    BY <1>1
  <2> HIDE DEF q
  <2>2. f * (q + 1) <= f * 1
    BY <1>1, <2>1
  <2> QED
    BY <1>1, <2>2
<1> QED
  BY <1>1, <1>2

LEMMA IntervalPositive ==
  ASSUME NEW f \in TickingFrequencies
  PROVE  f # 0 /\ Interval(f) \in Int /\ Interval(f) > 0
<1>1. Second \in Nat
  BY DEF Second
<1>2. f \in Int /\ f > 0
  BY <1>1 DEF TickingFrequencies
<1>3. Second \div f \in Int /\ Second \div f > 0
  BY <1>1, DivPositive DEF TickingFrequencies
<1> QED
  BY <1>2, <1>3 DEF Interval

LEMMA TickStep ==
  ASSUME Frequencies \subseteq TickingFrequencies, IInv, TickInv, [Next]_vars
  PROVE  TickInv'
<1>1. TypeOK /\ BuilderKept /\ OneSession
  BY DEF IInv, SessionInv
<1> USE DEF TickInv, TypeOK
<1>2. CASE \A t \in Threads : ~SessionSteps(t)
  <2>1. SessionKept
    BY <1>1, <1>2, OtherSteps
  <2> QED
    BY <2>1 DEF SessionKept, SessionPcs
<1>3. ASSUME NEW t \in Threads, BuildStart(t) PROVE TickInv'
  BY <1>1, <1>3 DEF BuildStart, At, Goto
<1>4. ASSUME NEW t \in Threads, BuildTimer(t) PROVE TickInv'
  <2>1. pc[t] = "build_timer" /\ req[t].freq \in TickingFrequencies
    BY <1>1, <1>4 DEF BuildTimer, At, BuilderKept, BuildPcs, Requests
  <2>2. /\ req[t].freq # 0
        /\ Interval(req[t].freq) \in Int /\ Interval(req[t].freq) > 0
    BY <2>1, IntervalPositive
  <2>3. SetItimer(Interval(req[t].freq))
    BY <1>4, <2>2 DEF BuildTimer
  <2>4. itimer' = TRUE
    BY <2>2, <2>3 DEF SetItimer
  <2> QED
    BY <2>4
<1>5. ASSUME NEW t \in Threads, ReturnGuard(t) PROVE TickInv'
  BY <1>1, <1>5 DEF ReturnGuard, At, Goto, kernelVars
<1>6. ASSUME NEW t \in Threads, DropCall(t) PROVE TickInv'
  BY <1>1, <1>6 DEF DropCall, At, Goto, kernelVars
<1>7. ASSUME NEW t \in Threads, DropTimer(t) PROVE TickInv'
  <2>1. ~guard /\ \A u \in Threads : InSession(u) => u = t
    BY <1>1, <1>7 DEF DropTimer, At, OneSession, InSession, SessionPcs
  <2> QED
    BY <1>1, <1>7, <2>1 DEF DropTimer, At, Goto, InSession, SessionPcs
<1>8. ASSUME NEW t \in Threads, AcquireWrite(t, "drop_write", "drop_stop")
      PROVE  TickInv'
  BY <1>1, <1>8 DEF AcquireWrite, At, Goto, kernelVars
<1>9. ASSUME NEW t \in Threads, DropStop(t) \/ DropInit(t) PROVE TickInv'
  BY <1>1, <1>9 DEF DropStop, DropInit, At, Goto, kernelVars
<1> QED
  BY <1>2, <1>3, <1>4, <1>5, <1>6, <1>7, <1>8, <1>9 DEF SessionSteps

\* As long as a guard is out, its timer ticks, for every frequency that the
\* timer's microseconds can express.
THEOREM TimerTicks ==
  Frequencies \subseteq TickingFrequencies => (Spec => []GuardTicks)
<1> SUFFICES ASSUME Frequencies \subseteq TickingFrequencies
             PROVE  Spec => []GuardTicks
  OBVIOUS
<1>1. Init => TickInv
  BY DEF Init, TickInv
<1>2. IInv /\ TickInv /\ [Next]_vars => TickInv'
  BY TickStep
<1>3. TickInv => GuardTicks
  BY DEF TickInv, GuardTicks
<1> QED
  BY <1>1, <1>2, <1>3, Inductive, PTL DEF Spec

-----------------------------------------------------------------------------
(* The blocklist of a guard                                                *)

\* From the first start() on there is one blocklist, and no sample, recorded or
\* about to be, is of what it lists.
ListInv ==
  /\ action # "DFL" => blocklist \in Blocklists
  /\ data # {} \/ (\E t \in Threads : sig[t] # "none") => action # "DFL"
  /\ data \cap blocklist = {}
  /\ \A t \in Threads : sig[t] = "unwinding" => at[t] \notin blocklist
  /\ guard => asked \in Blocklists

LEMMA ListStep ==
  ASSUME \A b, c \in Blocklists : b = c, IInv, ListInv, [Next]_vars
  PROVE  ListInv'
<1>1. /\ TypeOK /\ BuilderKept /\ SiteKept
      /\ running => action # "DFL"
  BY DEF IInv, ReadyInv
<1> USE DEF TypeOK, ListInv
<1>2. ASSUME UNCHANGED <<action, blocklist, data, sig, at, guard, asked>>
      PROVE  ListInv'
  BY <1>2
<1>3. ASSUME UNCHANGED vars \/ Tick
      PROVE  UNCHANGED <<action, blocklist, data, sig, at, guard, asked>>
  BY <1>3 DEF vars, Tick, lockVars, profVars, kernelVars, callVars, handlerVars
<1>4. ASSUME NEW t \in Threads, NEW p, NEW q,
             \/ AcquireWrite(t, p, q) \/ Unlock(t) \/ BuildCall(t) \/ LazyRead(t)
             \/ LazyInit(t) \/ LazyDone(t) \/ BuildTimer(t)
      PROVE  UNCHANGED <<action, blocklist, data, sig, at, guard, asked>>
  BY <1>4 DEF AcquireWrite, Unlock, BuildCall, LazyRead, LazyInit, LazyDone,
     BuildTimer, lockVars, profVars, kernelVars, callVars, handlerVars
<1>5. ASSUME NEW t \in Threads,
             \/ ReportCall(t) \/ ReportRead(t) \/ UnresolvedCall(t)
             \/ UnresolvedRead(t) \/ UnresolvedDone(t) \/ DropTimer(t)
      PROVE  UNCHANGED <<action, blocklist, data, sig, at, guard, asked>>
  BY <1>5 DEF ReportCall, ReportRead, UnresolvedCall, UnresolvedRead,
     UnresolvedDone, DropTimer, lockVars, profVars, kernelVars, callVars,
     handlerVars
<1>6. ASSUME NEW t \in Threads, BuildStart(t) PROVE ListInv'
  <2>1. /\ req[t].blocklist \in Blocklists
        /\ UNCHANGED <<data, sig, at, guard, asked>>
    BY <1>1, <1>6
    DEF BuildStart, At, BuilderKept, BuildPcs, Requests, handlerVars
  <2>2. action # "DFL" => blocklist' = blocklist
    BY <1>6, <2>1 DEF BuildStart
  <2>3. action' = action \/ action' = "HANDLER"
    BY <1>6 DEF BuildStart, RegisterSignalHandler
  <2>4. CASE action # "DFL"
    BY <2>1, <2>2, <2>3, <2>4
  <2>5. CASE action = "DFL"
    <3>1. data = {} /\ \A u \in Threads : sig[u] = "none"
      BY <2>5
    <3>2. action' # "DFL" => blocklist' = req[t].blocklist
      BY <1>1, <1>6, <2>5 DEF BuildStart, Refused
    <3> QED
      BY <2>1, <2>5, <3>1, <3>2
  <2> QED
    BY <2>4, <2>5
<1>7. ASSUME NEW t \in Threads, ReturnGuard(t) PROVE ListInv'
  <2>1. req[t].blocklist \in Blocklists
    BY <1>1, <1>7 DEF ReturnGuard, At, BuilderKept, BuildPcs, Requests
  <2> QED
    BY <1>7, <2>1 DEF ReturnGuard, profVars, kernelVars, handlerVars
<1>8. ASSUME NEW t \in Threads, ReportClear(t) PROVE ListInv'
  BY <1>8 DEF ReportClear, lockVars, kernelVars, handlerVars
<1>9. ASSUME NEW t \in Threads, DropCall(t) PROVE ListInv'
  BY <1>9 DEF DropCall, profVars, kernelVars, handlerVars
<1>10. ASSUME NEW t \in Threads, DropStop(t) PROVE ListInv'
  <2>1. running => action # "DFL"
    BY <1>1
  <2> QED
    BY <1>10, <2>1 DEF DropStop, StoppedAction, profVars, handlerVars
<1>11. ASSUME NEW t \in Threads, DropInit(t) PROVE ListInv'
  BY <1>11 DEF DropInit, kernelVars, handlerVars
<1>12. ASSUME NEW t \in Threads, action # "DFL",
              UNCHANGED <<action, blocklist, guard, asked>>,
              data' \cap blocklist = {},
              \A u \in Threads \ {t} : sig'[u] = sig[u] /\ at'[u] = at[u],
              sig'[t] = "unwinding" => at'[t] \notin blocklist
       PROVE  ListInv'
  <2>1. \A u \in Threads : sig'[u] = "unwinding" => at'[u] \notin blocklist
    BY <1>12
  <2> QED
    BY <1>12, <2>1
<1>13. ASSUME NEW t \in Threads, Deliver(t) PROVE ListInv'
  <2>1. UNCHANGED <<action, blocklist, data, guard, asked>>
    BY <1>13 DEF Deliver, profVars, callVars
  <2>2. CASE UNCHANGED handlerVars
    BY <1>2, <2>1, <2>2 DEF handlerVars
  <2>3. CASE /\ action = "HANDLER" /\ sig' = [sig EXCEPT ![t] = "enter"]
             /\ \E s \in Sites : at' = [at EXCEPT ![t] = s]
    <3>1. /\ \A u \in Threads \ {t} : sig'[u] = sig[u] /\ at'[u] = at[u]
          /\ sig'[t] = "enter"
      <4>1. PICK s \in Sites : at' = [at EXCEPT ![t] = s]
        BY <2>3
      <4> QED
        BY <1>1, <2>3, <4>1
    <3> QED
      BY <1>12, <2>1, <2>3, <3>1
  <2> QED
    BY <1>13, <2>2, <2>3 DEF Deliver
<1>14. ASSUME NEW t \in Threads, HandlerStep(t) PROVE ListInv'
  <2>1. UNCHANGED <<action, blocklist, guard, asked>> /\ action # "DFL"
    <3>1. sig[t] # "none"
      BY <1>14
      DEF HandlerStep, HandlerTryWrite, HandlerSkip, HandlerTrace,
          HandlerRecord, InHandler
    <3>2. UNCHANGED <<action, blocklist, guard, asked>>
      BY <1>14
      DEF HandlerStep, HandlerTryWrite, HandlerSkip, HandlerTrace,
          HandlerRecord, profVars, kernelVars, callVars
    <3> QED
      BY <3>1, <3>2
  <2>2. \A u \in Threads \ {t} : sig'[u] = sig[u] /\ at'[u] = at[u]
    BY <1>1, <1>14
    DEF HandlerStep, HandlerTryWrite, HandlerSkip, HandlerTrace, HandlerRecord,
        Return
  <2>3. sig'[t] = "unwinding" => at'[t] \notin blocklist
    <3>1. HandlerTrace(t) => at' = at /\ at[t] \notin blocklist
      BY DEF HandlerTrace, IsBlocklisted
    <3>2. Return(t) => sig'[t] # "unwinding"
      BY <1>1 DEF Return
    <3>3. HandlerTryWrite(t) => sig'[t] # "unwinding"
      BY <1>1, <3>2 DEF HandlerTryWrite
    <3>4. HandlerSkip(t) \/ HandlerRecord(t) => sig'[t] # "unwinding"
      BY <3>2 DEF HandlerSkip, HandlerRecord
    <3> QED
      BY <1>14, <3>1, <3>3, <3>4 DEF HandlerStep
  <2>4. data' \cap blocklist = {}
    <3>1. CASE HandlerRecord(t)
      <4>1. SampledStack(t) \notin blocklist
        BY <3>1, ConstantsAssumption DEF HandlerRecord, InHandler, SampledStack
      <4> QED
        BY <3>1, <4>1 DEF HandlerRecord
    <3> QED
      BY <1>14, <3>1
      DEF HandlerStep, HandlerTryWrite, HandlerSkip, HandlerTrace, profVars
  <2> QED
    BY <1>12, <2>1, <2>2, <2>3, <2>4
<1> QED
  BY <1>2, <1>3, <1>4, <1>5, <1>6, <1>7, <1>8, <1>9, <1>10, <1>11, <1>13,
     <1>14
  DEF Next, Call, Step

\* If all builders name the same libraries, no guard ever reports a sample of
\* one of them, not even one that a handler of an earlier session took late.
THEOREM ListHonoured ==
  (\A b, c \in Blocklists : b = c) => (Spec => []BlocklistHonoured)
<1> SUFFICES ASSUME \A b, c \in Blocklists : b = c
             PROVE  Spec => []BlocklistHonoured
  OBVIOUS
<1>1. Init => ListInv
  BY DEF Init, ListInv
<1>2. IInv /\ ListInv /\ [Next]_vars => ListInv'
  BY ListStep
<1>3. IInv /\ ListInv => BlocklistHonoured
  <2> SUFFICES ASSUME IInv, ListInv, guard
               PROVE  data \cap asked = {}
    BY DEF BlocklistHonoured
  <2>1. action # "DFL"
    BY DEF IInv, SessionInv
  <2> QED
    BY <2>1 DEF ListInv
<1> QED
  BY <1>1, <1>2, <1>3, Inductive, PTL DEF Spec
=============================================================================
