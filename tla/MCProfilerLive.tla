--------------------------- MODULE MCProfilerLive ---------------------------
(***************************************************************************)
(* Liveness of Profiler: the application makes at most MaxCalls calls, the *)
(* timer ticks as often as it likes, and every thread that can go on does. *)
(***************************************************************************)
EXTENDS Profiler

CONSTANT MaxCalls   \* bound: calls the whole application makes

VARIABLE calls

\* A frequency that works, the one that divides by zero, a negative one
OddFrequencies == {99, 0, -1}

LiveInit == Init /\ calls = 0

LiveCall == /\ calls < MaxCalls
            /\ calls' = calls + 1
            /\ \E t \in Threads : Call(t)

LiveNext ==
  \/ LiveCall
  \/ UNCHANGED calls /\ Tick
  \/ UNCHANGED calls /\ \E t \in Threads : Step(t) \/ Deliver(t) \/ HandlerStep(t)

\* The operating system runs every runnable thread.  A thread under a handler
\* is not runnable in its own code, and a spinning one goes on only if it finds
\* the lock free: weak fairness promises nothing to a thread that is disturbed
\* for ever.
LiveSpec ==
  /\ LiveInit /\ [][LiveNext]_<<vars, calls>>
  /\ \A t \in Threads : WF_<<vars, calls>>(Step(t) /\ UNCHANGED calls)
  /\ \A t \in Threads : WF_<<vars, calls>>(HandlerStep(t) /\ UNCHANGED calls)

\* A handler that has been entered returns, whatever lock the thread it
\* interrupted holds: it only ever tries PROFILER and UNWINDER.
HandlerReturns ==
  \A t \in Threads : sig[t] = "enter" ~> sig[t] = "none"

\* A drop that has disarmed the timer finishes: no endless series of handlers
\* can keep the lock from it, because the ticks have ended before it spins.
DropCompletes ==
  \A t \in Threads : pc[t] = "drop_write" ~> pc[t] = "idle"
=============================================================================
