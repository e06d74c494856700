---------------------------- MODULE SampleStore ----------------------------
(***************************************************************************)
(* What a Collector promises, whatever it keeps in memory and whatever it  *)
(* spills to its temporary file: it holds exactly the samples accepted     *)
(* since it was made or last cleared, or it is unreadable, and then it     *)
(* stays so until it is cleared.                                           *)
(***************************************************************************)
EXTENDS Naturals

CONSTANT Keys   \* the backtraces (UnresolvedFrames, up to its PartialEq)

VARIABLES held,       \* the samples: <<backtrace, when it was accepted>>
          readable,   \* try_iter returns an iterator, not an error
          clock       \* samples accepted so far

storeVars == <<held, readable, clock>>

StoreInit == held = {} /\ readable = TRUE /\ clock = 0

\* A sample is added, or the store breaks.
Accept ==
  /\ clock' = clock + 1
  /\ \/ /\ readable
        /\ readable' = TRUE
        /\ \E k \in Keys : held' = held \cup {<<k, clock + 1>>}
     \/ readable' = FALSE /\ held' = {}

\* clear(), or a new Collector in place of the old one
Discard == held' = {} /\ readable' = TRUE /\ UNCHANGED clock

StoreSpec == StoreInit /\ [][Accept \/ Discard]_storeVars
=============================================================================
