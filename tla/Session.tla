------------------------------ MODULE Session ------------------------------
(***************************************************************************)
(* What the life cycle of the profiler promises, whatever its locks,       *)
(* threads and signals do: sessions follow each other.  A thread begins    *)
(* one, its guard is out, a thread ends it; only while a session lasts may *)
(* the timer be armed.  A call that fails half way may lose the profiler:  *)
(* then it runs for nobody, without a timer, and no session ever begins    *)
(* again.                                                                  *)
(***************************************************************************)
CONSTANTS Threads, None,
          MayLose   \* TRUE: a call may fail half way

VARIABLES phase,    \* "stopped", "starting", "held", "ending" or "lost"
          owner,    \* the thread that is starting or ending the session
          armed     \* the timer ticks

sessionVars == <<phase, owner, armed>>

SessionInit == phase = "stopped" /\ owner = None /\ armed = FALSE

Begin(t) ==
  /\ phase = "stopped" /\ phase' = "starting"
  /\ owner' = t
  /\ UNCHANGED armed

\* A frequency the system does not accept leaves the timer as it is.
Arm(t) ==
  /\ phase = "starting" /\ owner = t
  /\ armed' \in BOOLEAN
  /\ UNCHANGED <<phase, owner>>

Hand(t) ==
  /\ phase = "starting" /\ owner = t
  /\ phase' = "held" /\ owner' = None
  /\ UNCHANGED armed

Take(t) ==
  /\ phase = "held"
  /\ phase' = "ending" /\ owner' = t
  /\ UNCHANGED armed

Disarm(t) ==
  /\ phase = "ending" /\ owner = t
  /\ armed' = FALSE
  /\ UNCHANGED <<phase, owner>>

End(t) ==
  /\ phase = "ending" /\ owner = t /\ ~armed
  /\ phase' = "stopped" /\ owner' = None
  /\ UNCHANGED armed

Lose(t) ==
  /\ MayLose
  /\ phase \in {"starting", "ending"} /\ owner = t /\ ~armed
  /\ phase' = "lost" /\ owner' = None
  /\ UNCHANGED armed

SessionNext ==
  \E t \in Threads : \/ Begin(t) \/ Arm(t) \/ Hand(t) \/ Take(t)
                     \/ Disarm(t) \/ End(t) \/ Lose(t)

SessionSpec == SessionInit /\ [][SessionNext]_sessionVars
=============================================================================
